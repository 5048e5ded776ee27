---------------------------- MODULE AuditTrail ----------------------------
(***************************************************************************)
(* The audit log of one operator (apps/api/src/audit), its archive, and    *)
(* the activity feed of the console that pages through it.                 *)
(*                                                                         *)
(* A row takes its createdAt when its write begins and is visible when it  *)
(* commits, so rows may become visible out of order and may share a stamp. *)
(* The filters, which the feed never sends, are left out.                  *)
(***************************************************************************)
EXTENDS Integers, Sequences, FiniteSets, SequencesExt

CONSTANTS
  Row,        \* the rows written in the instance
  ForeignRow, \* those of another operator
  PageSize,   \* DEFAULT_LIMIT of the feed
  BatchSize,  \* ARCHIVE_BATCH_SIZE
  Year,       \* ARCHIVE_THRESHOLD_MS
  LastTime,   \* the clock stops here
  MaxAnswers, \* requests of the feed under way
  MaxShown    \* entries the feed collects in the instance

ASSUME AuditAssumption == PageSize \in Nat \ {0} /\ LastTime \in Nat

VARIABLES
  auditClock,
  stamp,       \* createdAt of the rows whose write has begun, else NotBegun
  log,         \* audit_log: the committed rows
  archived,    \* audit_log_archive
  batch,       \* the ids of the batch being archived; {} when no job runs
  feed,        \* ActivityFeed: its state
  asked        \* requests of the feed that it has no answer to yet

tables == <<stamp, log, archived>>
auditVars == <<auditClock, tables, batch, feed, asked>>

NotBegun == -1
NoCursor == LastTime + 1

AuditInit ==
  /\ auditClock = 0
  /\ stamp = [r \in Row |-> NotBegun]
  /\ log = {} /\ archived = {} /\ batch = {}
  /\ feed = [isOpen |-> FALSE, isLoading |-> FALSE, entries |-> <<>>,
             nextCursor |-> NoCursor, since |-> {}, crossed |-> FALSE]
  /\ asked = {}

AuditTick ==
  /\ auditClock < LastTime
  /\ auditClock' = auditClock + 1
  /\ UNCHANGED <<tables, batch, feed, asked>>

BeginEntry(r) ==
  /\ stamp[r] = NotBegun
  /\ stamp' = [stamp EXCEPT ![r] = auditClock]
  /\ UNCHANGED <<auditClock, log, archived, batch, feed, asked>>

CommitEntry(r) ==
  /\ stamp[r] # NotBegun /\ r \notin log
  /\ log' = log \cup {r}
  /\ UNCHANGED <<auditClock, stamp, archived, batch, feed, asked>>

-----------------------------------------------------------------------------
(* Reading                                                                 *)

Own(rows) == rows \ ForeignRow

\* Newest first; rows of one stamp in whatever order.
Listings(rows) ==
  {s \in SetToSeqs(rows) :
     \A i, j \in DOMAIN s : i < j => stamp[s[i]] >= stamp[s[j]]}

\* Mutation: the extra entry that tells whether there is more is skipped over.
ListEntriesAfterExtra(cursor, limit) ==
  LET rows == {r \in Own(log) : stamp[r] < cursor}
  IN  {[entries |-> SubSeq(s, 1, IF Len(s) > limit THEN limit ELSE Len(s)),
        nextCursor |-> IF Len(s) > limit THEN stamp[s[limit + 1]] ELSE NoCursor]
        : s \in Listings(rows)}

\* listAuditEntries: limit + 1 rows below the cursor are read, and the cursor
\* of the next page is the stamp of the last row that is shown.
ListAuditEntries(cursor, limit) ==
  LET rows == {r \in Own(log) : stamp[r] < cursor}
  IN  {[entries |-> SubSeq(s, 1, IF Len(s) > limit THEN limit ELSE Len(s)),
        nextCursor |-> IF Len(s) > limit THEN stamp[s[limit]] ELSE NoCursor]
        : s \in Listings(rows)}

\* The panel is opened: the effect on isOpen asks for the first page.  What
\* the panel showed before stays until the answer comes.
OpenFeed ==
  /\ ~feed.isOpen /\ Cardinality(asked) < MaxAnswers
  /\ feed' = [feed EXCEPT !.isOpen = TRUE, !.isLoading = TRUE]
  /\ \E id \in 1 .. MaxAnswers :
       /\ \A q \in asked : q.id # id
       /\ asked' = asked \cup
            {[id |-> id, kind |-> "initial", cursor |-> NoCursor]}
  /\ UNCHANGED <<auditClock, tables, batch>>

CloseFeed ==
  /\ feed.isOpen
  /\ feed' = [feed EXCEPT !.isOpen = FALSE]
  /\ UNCHANGED <<auditClock, tables, batch, asked>>

\* handleScroll near the end of the list.
ScrollFeed ==
  /\ feed.isOpen /\ ~feed.isLoading /\ feed.nextCursor # NoCursor
  /\ Cardinality(asked) < MaxAnswers
  /\ feed' = [feed EXCEPT !.isLoading = TRUE,
                          !.crossed = feed.crossed \/ asked # {}]
  /\ \E id \in 1 .. MaxAnswers :
       /\ \A q \in asked : q.id # id
       /\ asked' = asked \cup
            {[id |-> id, kind |-> "more", cursor |-> feed.nextCursor]}
  /\ UNCHANGED <<auditClock, tables, batch>>

\* The answer to one of the feed's requests is computed and shown.  "since"
\* and "crossed" are history: the rows that were there when the list was
\* begun, and whether another request was under way while it was built up.
FeedAnswered(q) ==
  /\ \E page \in ListAuditEntries(q.cursor, PageSize) :
       LET first == q.kind = "initial"
       IN  /\ Len(page.entries) + (IF first THEN 0 ELSE Len(feed.entries)) <= MaxShown
           /\ feed' = [feed EXCEPT
                !.entries = IF first THEN page.entries ELSE @ \o page.entries,
                !.nextCursor = page.nextCursor,
                !.isLoading = FALSE,
                !.since = IF first THEN Own(log) ELSE @,
                !.crossed = IF first THEN asked # {q} ELSE @]
  /\ asked' = asked \ {q}
  /\ UNCHANGED <<auditClock, tables, batch>>

\* The request fails: the panel shows the error and keeps its list.
FeedFailed(q) ==
  /\ feed' = [feed EXCEPT !.isLoading = FALSE]
  /\ asked' = asked \ {q}
  /\ UNCHANGED <<auditClock, tables, batch>>

-----------------------------------------------------------------------------
(* Archiving                                                               *)

Old == {r \in log : stamp[r] < auditClock - Year}

\* The oldest rows of all operators, BatchSize of them.
OldestOf(rows) ==
  {b \in SUBSET rows :
     /\ Cardinality(b) = (IF Cardinality(rows) < BatchSize THEN Cardinality(rows)
                                                           ELSE BatchSize)
     /\ \A r \in b, o \in rows \ b : stamp[r] <= stamp[o]}

\* Mutation: the copy is started and not waited for.
CopyNotAwaited ==
  /\ batch = {}
  /\ Old # {}
  /\ batch' \in OldestOf(Old)
  /\ UNCHANGED <<auditClock, tables, feed, asked>>

\* The archive table has the primary key of the log: a second copy of a row
\* makes the INSERT, and the job with it, fail.
CopyBatch ==
  /\ batch = {}
  /\ Old # {}
  /\ \E b \in OldestOf(Old) :
       IF b \cap archived = {}
         THEN batch' = b /\ archived' = archived \cup b
         ELSE batch' = {} /\ archived' = archived
  /\ UNCHANGED <<auditClock, stamp, log, feed, asked>>

\* The trigger of audit_log raises on every DELETE: the job ends with an
\* error, the copies stay.
DeleteBatch ==
  /\ batch # {}
  /\ batch' = {}
  /\ UNCHANGED <<auditClock, tables, feed, asked>>

AuditNext ==
  \/ AuditTick
  \/ \E r \in Row : BeginEntry(r) \/ CommitEntry(r)
  \/ OpenFeed \/ CloseFeed \/ ScrollFeed
  \/ \E q \in asked : FeedAnswered(q) \/ FeedFailed(q)
  \/ CopyBatch \/ DeleteBatch

AuditSpec == AuditInit /\ [][AuditNext]_auditVars

-----------------------------------------------------------------------------
(* What is true of it                                                      *)

AuditTypeOK ==
  /\ auditClock \in 0 .. LastTime
  /\ stamp \in [Row -> {NotBegun} \cup (0 .. LastTime)]
  /\ log \subseteq Row /\ archived \subseteq Row /\ batch \subseteq archived
  /\ feed.entries \in Seq(Row) /\ feed.nextCursor \in 0 .. NoCursor
  /\ feed.isOpen \in BOOLEAN /\ feed.isLoading \in BOOLEAN
  /\ feed.since \subseteq Row /\ feed.crossed \in BOOLEAN
  /\ asked \subseteq [id : 1 .. MaxAnswers, kind : {"initial", "more"},
                      cursor : 0 .. NoCursor]

Alone(r) == \A o \in Own(log) : stamp[o] = stamp[r] => o = r

\* The feed lists newest first and no entry twice, and it skips none of those
\* that were there when the list was begun: one it does not show is still to
\* come, below the cursor of a further page - unless it shares its stamp with
\* another, or two requests of the panel crossed.
FeedSkipsNothing ==
  LET shown == feed.entries
      Shown == {shown[i] : i \in DOMAIN shown}
  IN  ~feed.crossed =>
        /\ \A i, j \in DOMAIN shown : i < j =>
             shown[i] # shown[j] /\ stamp[shown[i]] >= stamp[shown[j]]
        /\ \A r \in feed.since \ Shown :
             Alone(r) => /\ feed.nextCursor # NoCursor
                         /\ stamp[r] < feed.nextCursor
=============================================================================
