--------------------------- MODULE ServicesProofs ---------------------------
(***************************************************************************)
(* What is proved of the components that share no state with one another,  *)
(* each under its own specification and for every value of its constants,  *)
(* and that the composition of them implements each.                       *)
(***************************************************************************)
EXTENDS MCServices, TLAPS, FiniteSetTheorems, SequenceTheorems

(***************************************************************************)
(* The activity feed.  Pages are asked for below the stamp of the last row *)
(* that is shown; while no two requests cross, the one request for more    *)
(* carries the cursor of the list it will be appended to.  So what is      *)
(* shown stays above the cursor and what is missing below it.              *)
(***************************************************************************)

AuditTyped ==
  /\ auditClock \in 0 .. LastTime
  /\ stamp \in [Row -> {NotBegun} \cup (0 .. LastTime)]
  /\ log \subseteq Row /\ IsFiniteSet(log)
  /\ \A r \in log : stamp[r] # NotBegun
  /\ feed \in [isOpen : BOOLEAN, isLoading : BOOLEAN, entries : Seq(Row),
               nextCursor : Int, since : SUBSET Row, crossed : BOOLEAN]
  /\ asked \subseteq [id : Nat, kind : {"initial", "more"}, cursor : Int]

RequestsFit ==
  \A q \in asked :
    /\ q.kind = "initial" => q.cursor = NoCursor
    /\ q.kind = "more" /\ ~feed.crossed =>
         /\ q.cursor = feed.nextCursor /\ q.cursor # NoCursor
         /\ \A p \in asked : p.kind = "more" => p = q

\* What a list of entries and its cursor have to be.
InOrder(entries) ==
  /\ \A i \in DOMAIN entries : entries[i] \in Own(log)
  /\ \A i, j \in DOMAIN entries : i < j =>
       entries[i] # entries[j] /\ stamp[entries[i]] >= stamp[entries[j]]

AboveCursor(entries, cursor) ==
  cursor # NoCursor => \A i \in DOMAIN entries : stamp[entries[i]] >= cursor

BelowCursor(found, entries, cursor) ==
  \A r \in found : Alone(r) /\ (\A i \in DOMAIN entries : entries[i] # r) =>
    cursor # NoCursor /\ stamp[r] < cursor

FeedRight ==
  ~feed.crossed =>
    /\ feed.since \subseteq Own(log)
    /\ InOrder(feed.entries)
    /\ AboveCursor(feed.entries, feed.nextCursor)
    /\ BelowCursor(feed.since, feed.entries, feed.nextCursor)

AuditIInv == AuditTyped /\ RequestsFit /\ FeedRight

LEMMA FeedRightIsEnough == AuditTyped /\ FeedRight => FeedSkipsNothing
  BY DEF FeedRight, InOrder, BelowCursor, FeedSkipsNothing

LEMMA AuditStarts == AuditInit => AuditIInv
<1> SUFFICES ASSUME AuditInit PROVE AuditIInv
  OBVIOUS
<1>1. feed = [isOpen |-> FALSE, isLoading |-> FALSE, entries |-> <<>>,
              nextCursor |-> NoCursor, since |-> {}, crossed |-> FALSE]
  BY DEF AuditInit
<1>2. <<>> \in Seq(Row) /\ NoCursor \in Int /\ DOMAIN <<>> = {}
  BY AuditAssumption DEF AuditAssumption, NoCursor
<1>3. AuditTyped
  BY <1>1, <1>2, FS_EmptySet, AuditAssumption DEF AuditAssumption, AuditInit, AuditTyped
<1>4. RequestsFit /\ FeedRight
  BY <1>1, <1>2
     DEF AuditInit, RequestsFit, FeedRight, InOrder, AboveCursor, BelowCursor
<1> QED BY <1>3, <1>4 DEF AuditIInv

\* A listing names each of the rows once.
LEMMA ListingNamesAll ==
  ASSUME NEW found, IsFiniteSet(found), NEW s \in Listings(found)
  PROVE  /\ Cardinality(found) \in Nat
         /\ s \in [1 .. Cardinality(found) -> found] /\ Len(s) = Cardinality(found)
         /\ \A i, j \in 1 .. Len(s) : i < j =>
              s[i] # s[j] /\ stamp[s[i]] >= stamp[s[j]]
         /\ \A r \in found : \E i \in 1 .. Len(s) : s[i] = r
<1> DEFINE n == Cardinality(found)
<1>1. n \in Nat
  BY FS_CardinalityType
<1>2. /\ s \in [1 .. n -> found]
      /\ \A i, j \in 1 .. n : i # j => s[i] # s[j]
      /\ \A i, j \in DOMAIN s : i < j => stamp[s[i]] >= stamp[s[j]]
  BY DEF Listings, SetToSeqs
<1>3. s \in Seq(found) /\ Len(s) = n
  BY <1>1, <1>2
<1>4. s \in Injection(1 .. n, found)
  BY <1>2 DEF Injection, IsInjective
<1>5. Cardinality(1 .. n) = n
  BY <1>1, FS_Interval
<1>6. s \in Surjection(1 .. n, found)
  BY <1>4, <1>5, FS_Injection
<1>7. \A r \in found : \E i \in 1 .. n : s[i] = r
  BY <1>6 DEF Surjection
<1> QED BY <1>1, <1>2, <1>3, <1>7

\* The page that answers a request: rows below its cursor in order, and what
\* it leaves out lies below the cursor it returns.
LEMMA PageIsRight ==
  ASSUME AuditTyped, NEW cursor \in Int,
         NEW page \in ListAuditEntries(cursor, PageSize)
  PROVE  /\ page.entries \in Seq(Row) /\ page.nextCursor \in Int
         /\ InOrder(page.entries)
         /\ \A i \in DOMAIN page.entries : stamp[page.entries[i]] < cursor
         /\ AboveCursor(page.entries, page.nextCursor)
         /\ BelowCursor({r \in Own(log) : stamp[r] < cursor}, page.entries,
                        page.nextCursor)
         /\ page.nextCursor # NoCursor => page.nextCursor < cursor
<1> DEFINE found == {r \in Own(log) : stamp[r] < cursor}
<1>1. PICK s \in Listings(found) :
        page = [entries |-> SubSeq(s, 1, IF Len(s) > PageSize THEN PageSize ELSE Len(s)),
                nextCursor |-> IF Len(s) > PageSize THEN stamp[s[PageSize]] ELSE NoCursor]
  BY DEF ListAuditEntries
<1>2. found \subseteq log /\ found \subseteq Row /\ IsFiniteSet(found)
  BY FS_Subset DEF AuditTyped, Own
<1> DEFINE n == Cardinality(found)
<1>3. /\ n \in Nat /\ s \in [1 .. n -> found] /\ Len(s) = n
      /\ \A i, j \in 1 .. n : i < j => s[i] # s[j] /\ stamp[s[i]] >= stamp[s[j]]
      /\ \A r \in found : \E i \in 1 .. n : s[i] = r
  <2> HIDE DEF found
  <2>1. /\ n \in Nat /\ s \in [1 .. n -> found] /\ Len(s) = n
        /\ \A i, j \in 1 .. Len(s) : i < j =>
             s[i] # s[j] /\ stamp[s[i]] >= stamp[s[j]]
        /\ \A r \in found : \E i \in 1 .. Len(s) : s[i] = r
    BY <1>2, ListingNamesAll
  <2> HIDE DEF n
  <2> QED BY <2>1
<1>4. \A r \in found : stamp[r] \in 0 .. LastTime /\ stamp[r] < cursor /\ r \in Own(log)
  BY <1>2 DEF AuditTyped
<1>5. PageSize \in Nat \ {0} /\ NoCursor \in Int /\ LastTime \in Nat
      /\ NoCursor = LastTime + 1
  BY AuditAssumption DEF AuditAssumption, NoCursor
<1> DEFINE k == IF n > PageSize THEN PageSize ELSE n
<1>6. k \in Nat /\ k <= n
  BY <1>3, <1>5
<1> HIDE DEF found, n
<1>7. page.entries = SubSeq(s, 1, k)
  BY <1>1, <1>3
<1>8. page.nextCursor = IF n > PageSize THEN stamp[s[PageSize]] ELSE NoCursor
  BY <1>1, <1>3
<1> HIDE DEF k
<1>9. \A i \in 1 .. k : s[i] \in Row /\ s[i] \in found
  BY <1>2, <1>3, <1>6
<1>10. /\ page.entries \in Seq(Row) /\ Len(page.entries) = k
       /\ \A i \in 1 .. k : page.entries[i] = s[i]
  <2>1. /\ SubSeq(s, 1, k) \in Seq(Row)
        /\ Len(SubSeq(s, 1, k)) = IF 1 <= k THEN k - 1 + 1 ELSE 0
        /\ \A i \in 1 .. k - 1 + 1 : SubSeq(s, 1, k)[i] = s[1 + i - 1]
    BY <1>6, <1>9, SubSeqProperties
  <2>2. Len(SubSeq(s, 1, k)) = k /\ \A i \in 1 .. k : SubSeq(s, 1, k)[i] = s[i]
    BY <1>6, <2>1
  <2> QED BY <1>7, <2>1, <2>2
<1>11. DOMAIN page.entries = 1 .. k
  BY <1>10
<1>12. page.nextCursor \in Int
  BY <1>3, <1>4, <1>5, <1>8 DEF k
<1>13. InOrder(page.entries)
  BY <1>3, <1>4, <1>6, <1>9, <1>10, <1>11, SMTT(30) DEF InOrder
<1>14. \A i \in DOMAIN page.entries : stamp[page.entries[i]] < cursor
  BY <1>4, <1>9, <1>10, <1>11
<1>15. AboveCursor(page.entries, page.nextCursor)
  <2> SUFFICES ASSUME n > PageSize, NEW i \in 1 .. k
               PROVE  stamp[s[i]] >= stamp[s[PageSize]]
    BY <1>8, <1>10, <1>11 DEF AboveCursor
  <2>1. k = PageSize /\ PageSize \in 1 .. n /\ i \in 1 .. n
    BY <1>3, <1>5 DEF k
  <2>2. CASE i = PageSize
    BY <1>3, <1>4, <2>1, <2>2
  <2>3. CASE i < PageSize
    BY <1>3, <2>1, <2>3
  <2> QED BY <2>1, <2>2, <2>3
<1>16. BelowCursor(found, page.entries, page.nextCursor)
  <2> SUFFICES ASSUME NEW r \in found, Alone(r), \A i \in 1 .. k : s[i] # r
               PROVE  page.nextCursor # NoCursor /\ stamp[r] < page.nextCursor
    BY <1>10, <1>11 DEF BelowCursor
  <2>1. PICK i \in 1 .. n : s[i] = r
    BY <1>3
  <2>2. i > k /\ n > PageSize /\ k = PageSize
    BY <1>3, <1>5, <1>6, <2>1 DEF k
  <2>3. PageSize \in 1 .. n /\ s[PageSize] # r /\ s[PageSize] \in found
        /\ stamp[s[PageSize]] >= stamp[r]
    BY <1>3, <1>5, <2>1, <2>2
  <2>4. stamp[s[PageSize]] # stamp[r]
    BY <1>4, <2>3 DEF Alone
  <2>5. stamp[s[PageSize]] \in 0 .. LastTime /\ stamp[r] \in 0 .. LastTime
    BY <1>4, <2>3
  <2> QED BY <1>5, <1>8, <2>2, <2>3, <2>4, <2>5
<1>17. page.nextCursor # NoCursor => page.nextCursor < cursor
  BY <1>3, <1>4, <1>5, <1>8
<1> QED BY <1>10, <1>12, <1>13, <1>14, <1>15, <1>16, <1>17 DEF found

\* A row that is begun, one that is committed and a copy to the archive leave
\* what the feed shows in order.
LEMMA LogGrows ==
  ASSUME AuditIInv, UNCHANGED <<feed, asked>>, log \subseteq log',
         \A r \in log : stamp'[r] = stamp[r]
  PROVE  RequestsFit' /\ FeedRight'
<1>1. RequestsFit'
  BY DEF AuditIInv, RequestsFit, NoCursor
<1>2. Own(log) \subseteq Own(log)' /\ Own(log) \subseteq log
  BY DEF Own
<1>3. FeedRight'
  <2> SUFFICES ASSUME ~feed.crossed
               PROVE  /\ feed.since \subseteq Own(log)'
                      /\ InOrder(feed.entries)'
                      /\ AboveCursor(feed.entries, feed.nextCursor)'
                      /\ BelowCursor(feed.since, feed.entries, feed.nextCursor)'
    BY DEF FeedRight
  <2>1. /\ feed.since \subseteq Own(log)
        /\ InOrder(feed.entries)
        /\ AboveCursor(feed.entries, feed.nextCursor)
        /\ BelowCursor(feed.since, feed.entries, feed.nextCursor)
    BY DEF AuditIInv, FeedRight
  <2>2. \A r \in Own(log) : stamp'[r] = stamp[r] /\ (Alone(r)' => Alone(r))
    BY <1>2 DEF Alone
  <2>3. \A i \in DOMAIN feed.entries : feed.entries[i] \in Own(log)
    BY <2>1 DEF InOrder
  <2>4. InOrder(feed.entries)' /\ AboveCursor(feed.entries, feed.nextCursor)'
    BY <1>2, <2>1, <2>2, <2>3 DEF InOrder, AboveCursor, NoCursor
  <2>5. BelowCursor(feed.since, feed.entries, feed.nextCursor)'
    BY <2>1, <2>2 DEF BelowCursor, NoCursor
  <2> QED BY <1>2, <2>1, <2>4, <2>5
<1> QED BY <1>1, <1>3

\* A page is shown: as the list, or behind the list.
LEMMA AnswerIsRight ==
  ASSUME AuditIInv, NEW q \in asked, FeedAnswered(q)
  PROVE  AuditIInv'
<1> USE AuditAssumption DEF AuditAssumption
<1>a. AuditTyped /\ RequestsFit /\ FeedRight
  BY DEF AuditIInv
<1>b. q \in [id : Nat, kind : {"initial", "more"}, cursor : Int]
  BY <1>a DEF AuditTyped
<1>1. PICK page \in ListAuditEntries(q.cursor, PageSize) :
        feed' = [feed EXCEPT
          !.entries = IF q.kind = "initial" THEN page.entries ELSE @ \o page.entries,
          !.nextCursor = page.nextCursor,
          !.isLoading = FALSE,
          !.since = IF q.kind = "initial" THEN Own(log) ELSE @,
          !.crossed = IF q.kind = "initial" THEN asked # {q} ELSE @]
  BY DEF FeedAnswered
<1>2. /\ UNCHANGED <<auditClock, stamp, log>> /\ asked' = asked \ {q}
  BY DEF FeedAnswered, tables
<1>3. /\ page.entries \in Seq(Row) /\ page.nextCursor \in Int
      /\ InOrder(page.entries)
      /\ \A i \in DOMAIN page.entries : stamp[page.entries[i]] < q.cursor
      /\ AboveCursor(page.entries, page.nextCursor)
      /\ BelowCursor({r \in Own(log) : stamp[r] < q.cursor}, page.entries,
                     page.nextCursor)
      /\ page.nextCursor # NoCursor => page.nextCursor < q.cursor
  BY <1>a, <1>b, PageIsRight
<1>4. UNCHANGED <<Own(log), NoCursor>>
      /\ (\A r : Alone(r)' <=> Alone(r))
      /\ (\A e : InOrder(e)' <=> InOrder(e))
      /\ (\A e, c : AboveCursor(e, c)' <=> AboveCursor(e, c))
      /\ (\A rs, e, c : BelowCursor(rs, e, c)' <=> BelowCursor(rs, e, c))
  BY <1>2 DEF Own, NoCursor, Alone, InOrder, AboveCursor, BelowCursor
<1>5. Own(log) \subseteq Row /\ \A r \in Own(log) : stamp[r] \in 0 .. LastTime
  BY <1>a DEF AuditTyped, Own
<1>6. CASE q.kind = "initial"
  <2>1. /\ feed'.entries = page.entries /\ feed'.nextCursor = page.nextCursor
        /\ feed'.isLoading = FALSE /\ feed'.since = Own(log)
        /\ feed'.crossed = (asked # {q})
    BY <1>a, <1>1, <1>6 DEF AuditTyped
  <2>2. AuditTyped'
    <3>1. feed' \in [isOpen : BOOLEAN, isLoading : BOOLEAN, entries : Seq(Row),
                     nextCursor : Int, since : SUBSET Row, crossed : BOOLEAN]
      BY <1>a, <1>1, <1>3, <1>5, <1>6 DEF AuditTyped
    <3> QED BY <1>a, <1>2, <3>1 DEF AuditTyped
  <2>3. q.cursor = NoCursor /\ {r \in Own(log) : stamp[r] < q.cursor} = Own(log)
    BY <1>a, <1>5, <1>6 DEF RequestsFit, NoCursor
  <2>4. FeedRight'
    BY <1>3, <1>4, <2>1, <2>3 DEF FeedRight
  <2>5. RequestsFit'
    <3>1. ~feed'.crossed => asked' = {}
      BY <1>2, <2>1
    <3>2. \A p \in asked' : p.kind = "initial" => p.cursor = NoCursor
      BY <1>a, <1>2 DEF RequestsFit
    <3> QED BY <1>4, <3>1, <3>2 DEF RequestsFit
  <2> QED BY <2>2, <2>4, <2>5 DEF AuditIInv
<1>7. CASE q.kind = "more"
  <2> DEFINE joined == feed.entries \o page.entries
             m == Len(feed.entries)
  <2>1. /\ feed'.entries = joined /\ feed'.nextCursor = page.nextCursor
        /\ feed'.isLoading = FALSE /\ feed'.since = feed.since
        /\ feed'.crossed = feed.crossed
    BY <1>a, <1>1, <1>7 DEF AuditTyped
  <2>2. /\ feed.entries \in Seq(Row) /\ joined \in Seq(Row) /\ m \in Nat
        /\ DOMAIN feed.entries = 1 .. m
        /\ Len(page.entries) \in Nat /\ DOMAIN page.entries = 1 .. Len(page.entries)
        /\ DOMAIN joined = 1 .. m + Len(page.entries)
        /\ \A i \in 1 .. m + Len(page.entries) :
             joined[i] = IF i <= m THEN feed.entries[i] ELSE page.entries[i - m]
    BY <1>a, <1>3 DEF AuditTyped
  <2>3. AuditTyped'
    <3>1. feed' \in [isOpen : BOOLEAN, isLoading : BOOLEAN, entries : Seq(Row),
                     nextCursor : Int, since : SUBSET Row, crossed : BOOLEAN]
      BY <1>a, <1>1, <1>3, <1>7, <2>2 DEF AuditTyped
    <3> QED BY <1>a, <1>2, <3>1 DEF AuditTyped
  <2>4. RequestsFit'
    <3>1. ASSUME NEW p \in asked', p.kind = "more", ~feed.crossed PROVE FALSE
      BY <1>a, <1>2, <1>7, <3>1 DEF RequestsFit
    <3>2. \A p \in asked' : p.kind = "initial" => p.cursor = NoCursor
      BY <1>a, <1>2 DEF RequestsFit
    <3> QED BY <1>4, <2>1, <3>1, <3>2 DEF RequestsFit
  <2>5. FeedRight'
    <3> SUFFICES ASSUME ~feed.crossed
                 PROVE  /\ feed.since \subseteq Own(log)
                        /\ InOrder(joined)
                        /\ AboveCursor(joined, page.nextCursor)
                        /\ BelowCursor(feed.since, joined, page.nextCursor)
      BY <1>4, <2>1 DEF FeedRight
    <3>1. /\ feed.since \subseteq Own(log) /\ InOrder(feed.entries)
          /\ AboveCursor(feed.entries, feed.nextCursor)
          /\ BelowCursor(feed.since, feed.entries, feed.nextCursor)
          /\ q.cursor = feed.nextCursor /\ q.cursor # NoCursor
      BY <1>a, <1>7 DEF FeedRight, RequestsFit
    <3> HIDE DEF joined, m
    <3>2. \A i \in 1 .. m : feed.entries[i] \in Own(log) /\ stamp[feed.entries[i]] >= q.cursor
      BY <2>2, <3>1 DEF InOrder, AboveCursor
    <3>3. \A i \in 1 .. Len(page.entries) :
            page.entries[i] \in Own(log) /\ stamp[page.entries[i]] < q.cursor
      BY <1>3, <2>2 DEF InOrder
    <3>4. \A i \in 1 .. m + Len(page.entries) : i > m => i - m \in 1 .. Len(page.entries)
      BY <2>2
    <3>5. ASSUME NEW i \in DOMAIN joined PROVE joined[i] \in Own(log)
      <4>1. CASE i <= m
        BY <2>2, <3>2, <4>1
      <4>2. CASE i > m
        BY <2>2, <3>3, <3>4, <4>2, SMTT(30)
      <4> QED BY <2>2, <4>1, <4>2
    <3>6. ASSUME NEW i \in DOMAIN joined, NEW j \in DOMAIN joined, i < j
          PROVE  joined[i] # joined[j] /\ stamp[joined[i]] >= stamp[joined[j]]
      <4>1. CASE j <= m
        BY <2>2, <3>1, <3>6, <4>1 DEF InOrder
      <4>2. CASE i > m
        <5>1. i - m \in 1 .. Len(page.entries) /\ j - m \in 1 .. Len(page.entries)
              /\ i - m < j - m
          BY <2>2, <3>4, <3>6, <4>2
        <5>2. joined[i] = page.entries[i - m] /\ joined[j] = page.entries[j - m]
          BY <2>2, <3>6, <4>2
        <5> QED BY <1>3, <2>2, <5>1, <5>2 DEF InOrder
      <4>3. CASE i <= m /\ j > m
        <5>1. i \in 1 .. m /\ j - m \in 1 .. Len(page.entries)
          BY <2>2, <3>4, <4>3
        <5>2. joined[i] = feed.entries[i] /\ joined[j] = page.entries[j - m]
          BY <2>2, <4>3
        <5>3. stamp[joined[i]] >= q.cursor /\ stamp[joined[j]] < q.cursor
          BY <3>2, <3>3, <5>1, <5>2
        <5>4. stamp[joined[i]] \in Int /\ stamp[joined[j]] \in Int /\ q.cursor \in Int
          BY <1>b, <1>5, <3>5
        <5> QED BY <5>3, <5>4
      <4> QED BY <2>2, <3>6, <4>1, <4>2, <4>3
    <3>7. InOrder(joined)
      BY <3>5, <3>6 DEF InOrder
    <3>8. AboveCursor(joined, page.nextCursor)
      <4> SUFFICES ASSUME page.nextCursor # NoCursor, NEW i \in DOMAIN joined
                   PROVE  stamp[joined[i]] >= page.nextCursor
        BY DEF AboveCursor
      <4>1. CASE i > m
        <5>1. i - m \in DOMAIN page.entries /\ joined[i] = page.entries[i - m]
          BY <2>2, <3>4, <4>1
        <5> QED BY <1>3, <5>1 DEF AboveCursor
      <4>2. CASE i <= m
        <5>1. joined[i] = feed.entries[i] /\ stamp[joined[i]] >= q.cursor
          BY <2>2, <3>2, <4>2
        <5>2. stamp[joined[i]] \in Int /\ q.cursor \in Int /\ page.nextCursor \in Int
          BY <1>b, <1>3, <1>5, <3>5
        <5> QED BY <1>3, <5>1, <5>2
      <4> QED BY <2>2, <4>1, <4>2
    <3>9. BelowCursor(feed.since, joined, page.nextCursor)
      <4> SUFFICES ASSUME NEW r \in feed.since, Alone(r), \A i \in DOMAIN joined : joined[i] # r
                   PROVE  page.nextCursor # NoCursor /\ stamp[r] < page.nextCursor
        BY DEF BelowCursor
      <4>1. \A i \in DOMAIN feed.entries : feed.entries[i] # r
        BY <2>2
      <4>2. \A i \in DOMAIN page.entries : page.entries[i] # r
        <5> SUFFICES ASSUME NEW i \in 1 .. Len(page.entries) PROVE page.entries[i] # r
          BY <2>2
        <5>1. m + i \in DOMAIN joined /\ joined[m + i] = page.entries[i]
          BY <2>2
        <5> QED BY <5>1
      <4>3. r \in Own(log) /\ stamp[r] < q.cursor
        BY <3>1, <4>1 DEF BelowCursor
      <4> QED BY <1>3, <4>2, <4>3 DEF BelowCursor
    <3> QED BY <3>1, <3>7, <3>8, <3>9
  <2> QED BY <2>3, <2>4, <2>5 DEF AuditIInv
<1> QED BY <1>b, <1>6, <1>7

LEMMA AuditNextKeeps == AuditIInv /\ [AuditNext]_auditVars => AuditIInv'
<1> SUFFICES ASSUME AuditIInv, [AuditNext]_auditVars PROVE AuditIInv'
  OBVIOUS
<1>a. AuditTyped /\ RequestsFit /\ FeedRight
  BY DEF AuditIInv
<1>b. LastTime \in Nat /\ NoCursor \in Int
  BY AuditAssumption DEF AuditAssumption, NoCursor
\* Steps of the clock and the archive job.
<1>1. ASSUME UNCHANGED <<stamp, log, feed, asked>>, auditClock' \in 0 .. LastTime
      PROVE  AuditIInv'
  BY <1>1, <1>a, LogGrows DEF AuditIInv, AuditTyped
<1>2. CASE AuditTick
  BY <1>1, <1>2, <1>a, <1>b DEF AuditTick, tables, AuditTyped
<1>3. ASSUME NEW r \in Row, BeginEntry(r) PROVE AuditIInv'
  <2>1. \A x \in log : stamp'[x] = stamp[x]
    BY <1>3, <1>a DEF BeginEntry, AuditTyped
  <2>2. AuditTyped'
    BY <1>3, <1>a, <2>1 DEF BeginEntry, AuditTyped, NotBegun
  <2> QED BY <1>3, <2>1, <2>2, LogGrows DEF BeginEntry, AuditIInv
<1>4. ASSUME NEW r \in Row, CommitEntry(r) PROVE AuditIInv'
  <2>1. IsFiniteSet(log')
    BY <1>4, <1>a, FS_AddElement DEF CommitEntry, AuditTyped
  <2>2. AuditTyped'
    BY <1>4, <1>a, <2>1 DEF CommitEntry, AuditTyped
  <2> QED BY <1>4, <2>2, LogGrows DEF CommitEntry, AuditIInv
\* Steps that send or drop a request and leave the list alone.
<1>5. ASSUME UNCHANGED <<auditClock, stamp, log>>, feed' \in
               [isOpen : BOOLEAN, isLoading : BOOLEAN, entries : {feed.entries},
                nextCursor : {feed.nextCursor}, since : {feed.since},
                crossed : {c \in BOOLEAN : feed.crossed => c}],
             asked' \subseteq [id : Nat, kind : {"initial", "more"}, cursor : Int]
      PROVE  AuditTyped' /\ FeedRight'
  <2>1. /\ feed'.entries = feed.entries /\ feed'.nextCursor = feed.nextCursor
        /\ feed'.since = feed.since /\ (feed.crossed => feed'.crossed)
    BY <1>5
  <2>2. AuditTyped'
    BY <1>5, <1>a DEF AuditTyped
  <2>3. FeedRight'
    BY <1>5, <1>a, <2>1
       DEF FeedRight, InOrder, AboveCursor, BelowCursor, Own, Alone, NoCursor
  <2> QED BY <2>2, <2>3
<1>6. CASE OpenFeed
  <2>1. PICK id \in 1 .. MaxAnswers :
          asked' = asked \cup {[id |-> id, kind |-> "initial", cursor |-> NoCursor]}
    BY <1>6 DEF OpenFeed
  <2> DEFINE new == [id |-> id, kind |-> "initial", cursor |-> NoCursor]
  <2>2. /\ new \in [id : Nat, kind : {"initial", "more"}, cursor : Int]
        /\ new.kind = "initial" /\ new.cursor = NoCursor
    BY <1>b
  <2>3. /\ feed' = [feed EXCEPT !.isOpen = TRUE, !.isLoading = TRUE]
        /\ UNCHANGED <<auditClock, stamp, log>>
    BY <1>6 DEF OpenFeed, tables
  <2> HIDE DEF new
  <2>4. asked' = asked \cup {new}
    BY <2>1 DEF new
  <2>5. AuditTyped' /\ FeedRight'
    BY <1>5, <1>a, <2>2, <2>3, <2>4 DEF AuditTyped
  <2>6. feed'.crossed = feed.crossed /\ feed'.nextCursor = feed.nextCursor
    BY <1>a, <2>3 DEF AuditTyped
  <2>7. RequestsFit'
    BY <1>a, <2>2, <2>4, <2>6 DEF RequestsFit, NoCursor
  <2> QED BY <2>5, <2>7 DEF AuditIInv
<1>7. CASE CloseFeed
  <2>1. /\ feed' = [feed EXCEPT !.isOpen = FALSE]
        /\ UNCHANGED <<auditClock, stamp, log, asked>>
    BY <1>7 DEF CloseFeed, tables
  <2>2. AuditTyped' /\ FeedRight'
    BY <1>5, <1>a, <2>1 DEF AuditTyped
  <2>3. feed'.crossed = feed.crossed /\ feed'.nextCursor = feed.nextCursor
    BY <1>a, <2>1 DEF AuditTyped
  <2>4. RequestsFit'
    BY <1>a, <2>1, <2>3 DEF RequestsFit, NoCursor
  <2> QED BY <2>2, <2>4 DEF AuditIInv
<1>8. CASE ScrollFeed
  <2>1. PICK id \in 1 .. MaxAnswers :
          asked' = asked \cup {[id |-> id, kind |-> "more", cursor |-> feed.nextCursor]}
    BY <1>8 DEF ScrollFeed
  <2> DEFINE new == [id |-> id, kind |-> "more", cursor |-> feed.nextCursor]
  <2>2. feed.nextCursor \in Int /\ feed.crossed \in BOOLEAN
    BY <1>a DEF AuditTyped
  <2>3. /\ new \in [id : Nat, kind : {"initial", "more"}, cursor : Int]
        /\ new.kind = "more" /\ new.cursor = feed.nextCursor
    BY <2>2
  <2>4. /\ feed' = [feed EXCEPT !.isLoading = TRUE,
                                !.crossed = feed.crossed \/ asked # {}]
        /\ feed.nextCursor # NoCursor
        /\ UNCHANGED <<auditClock, stamp, log>>
    BY <1>8 DEF ScrollFeed, tables
  <2> HIDE DEF new
  <2>5. asked' = asked \cup {new}
    BY <2>1 DEF new
  <2>6. /\ feed'.crossed = (feed.crossed \/ asked # {})
        /\ feed'.nextCursor = feed.nextCursor
    BY <1>a, <2>4 DEF AuditTyped
  <2>7. AuditTyped' /\ FeedRight'
    BY <1>5, <1>a, <2>2, <2>3, <2>4, <2>5 DEF AuditTyped
  <2>8. \A p \in asked' : p.kind = "initial" => p.cursor = NoCursor
    BY <1>a, <2>3, <2>5 DEF RequestsFit
  <2>9. ~feed'.crossed => asked' = {new}
    BY <2>5, <2>6
  <2>10. RequestsFit'
    BY <2>3, <2>4, <2>6, <2>8, <2>9 DEF RequestsFit, NoCursor
  <2> QED BY <2>7, <2>10 DEF AuditIInv
<1>9. ASSUME NEW q \in asked, FeedFailed(q) PROVE AuditIInv'
  <2>1. /\ feed' = [feed EXCEPT !.isLoading = FALSE] /\ asked' = asked \ {q}
        /\ UNCHANGED <<auditClock, stamp, log>>
    BY <1>9 DEF FeedFailed, tables
  <2>2. AuditTyped' /\ FeedRight'
    BY <1>5, <1>a, <2>1 DEF AuditTyped
  <2>3. feed'.crossed = feed.crossed /\ feed'.nextCursor = feed.nextCursor
    BY <1>a, <2>1 DEF AuditTyped
  <2>4. RequestsFit'
    BY <1>a, <2>1, <2>3 DEF RequestsFit, NoCursor
  <2> QED BY <2>2, <2>4 DEF AuditIInv
<1>10. CASE CopyBatch
  BY <1>1, <1>10, <1>a DEF CopyBatch, AuditTyped
<1>11. CASE DeleteBatch
  BY <1>1, <1>11, <1>a DEF DeleteBatch, tables, AuditTyped
<1>12. CASE UNCHANGED auditVars
  BY <1>1, <1>12, <1>a DEF auditVars, tables, AuditTyped
<1> QED BY <1>2, <1>3, <1>4, <1>6, <1>7, <1>8, <1>9, <1>10, <1>11, <1>12, AnswerIsRight
        DEF AuditNext

\* The invariant of the feed holds.
LEMMA FeedStaysRight == AuditSpec => []AuditIInv
  BY AuditStarts, AuditNextKeeps, PTL DEF AuditSpec

\* However the feed's requests, new rows and the archive job interleave, while
\* no two of its requests cross the feed is in order and what it skips shares
\* its stamp with another row.
THEOREM NothingSkipped == AuditSpec => []FeedSkipsNothing
<1>1. AuditIInv => FeedSkipsNothing
  BY FeedRightIsEnough DEF AuditIInv
<1> QED BY <1>1, FeedStaysRight, PTL

(***************************************************************************)
(* Dead letters                                                            *)
(***************************************************************************)

Sweeps == [at : 0 .. Len(Queues), receiver : {"none", "open", "used"},
           todo : SUBSET Letter, told : SUBSET Letter]

LettersTyped ==
  /\ letters \in [Letter -> {"live", "dead", "gone"}]
  /\ lockedBy \in [Letter -> Sweep \cup {Nobody}]
  /\ sweep \in [Sweep -> Sweeps]
  /\ receivers \in 0 .. MaxHandles
  /\ reports \in [Letter -> 0 .. MaxReports] /\ lost \subseteq Letter

\* A sweep works on letters it received; the one it completes it has reported.
SweepsAreSound ==
  \A w \in Sweep :
    /\ sweep[w].told \subseteq sweep[w].todo
    /\ sweep[w].receiver # "used" => sweep[w].todo = {}
    /\ \A m, l \in sweep[w].told : reports[m] > 0 /\ l = m

\* A letter that was never let go of is held by the sweep that works on it, and
\* once it is reported no sweep is about to report it.
NeverLetGo(m) ==
  /\ reports[m] < 2
  /\ \A w \in Sweep : m \in sweep[w].todo => letters[m] = "dead" /\ lockedBy[m] = w
  /\ reports[m] > 0 =>
       /\ \A w \in Sweep : m \in sweep[w].todo => m \in sweep[w].told
       /\ letters[m] = "gone" \/ (letters[m] = "dead" /\ lockedBy[m] # Nobody)

GoneAreReported == \A m \in Letter : letters[m] = "gone" => reports[m] > 0
KeptAreSound == \A m \in Letter \ lost : NeverLetGo(m)

DeadIInv == LettersTyped /\ SweepsAreSound /\ GoneAreReported /\ KeptAreSound

LEMMA LettersStart == DeadInit => DeadIInv
<1>. SUFFICES ASSUME DeadInit PROVE DeadIInv
  OBVIOUS
<1>1. Resting \in Sweeps
  BY LettersAssumption DEF LettersAssumption, Resting, At, Sweeps
<1>2. LettersTyped
  BY <1>1, LettersAssumption DEF LettersAssumption, DeadInit, LettersTyped
<1>3. \A w \in Sweep : sweep[w].todo = {} /\ sweep[w].told = {}
  BY DEF DeadInit, Resting, At
<1>. QED
  BY <1>2, <1>3
     DEF DeadInit, DeadIInv, SweepsAreSound, GoneAreReported, KeptAreSound, NeverLetGo

\* Letters let go of are lost unless they are gone, or were never received.
LEMMA LettingGo ==
  ASSUME DeadIInv, NEW ms \in SUBSET Letter, LetGo(ms), LettersTyped',
         \A w \in Sweep : sweep'[w] = sweep[w] \/ (sweep'[w].todo = {} /\ sweep'[w].told = {})
  PROVE  DeadIInv'
<1>1. UNCHANGED <<letters, reports>> /\ lost' = lost \cup {m \in ms : letters[m] = "dead"}
      /\ \A m \in Letter : m \notin ms => lockedBy'[m] = lockedBy[m]
  BY DEF LetGo
<1>2. SweepsAreSound' /\ GoneAreReported'
  BY <1>1 DEF DeadIInv, SweepsAreSound, GoneAreReported
<1>3. ASSUME NEW m \in Letter \ lost' PROVE NeverLetGo(m)'
  <2>1. m \in Letter \ lost /\ NeverLetGo(m)
    BY <1>1 DEF DeadIInv, KeptAreSound
  <2>2. CASE m \in ms
    BY <1>1, <1>3, <2>1, <2>2 DEF NeverLetGo
  <2>3. CASE m \notin ms
    BY <1>1, <2>1, <2>3 DEF NeverLetGo
  <2>. QED BY <2>2, <2>3
<1>. QED
  BY <1>2, <1>3 DEF DeadIInv, KeptAreSound

LEMMA ReportKeeps ==
  ASSUME DeadIInv, NEW w \in Sweep, NEW m \in Letter, Begin(w, m), Report(m)
  PROVE  DeadIInv'
<1>. USE DEF DeadIInv
<1>1. /\ UNCHANGED <<letters, lockedBy, receivers, lost>>
      /\ m \in sweep[w].todo /\ sweep[w].told = {} /\ sweep[w] \in Sweeps
      /\ sweep' = [sweep EXCEPT ![w] = [sweep[w] EXCEPT !.told = {m}]]
      /\ sweep' \in [Sweep -> Sweeps]
      /\ sweep'[w].told = {m} /\ sweep'[w].todo = sweep[w].todo
      /\ sweep'[w].receiver = sweep[w].receiver
      /\ \A v \in Sweep \ {w} : sweep'[v] = sweep[v]
  BY DEF Begin, Report, LettersTyped, Sweeps
<1>2. /\ MaxReports \in Nat \ {0} /\ reports' \in [Letter -> 0 .. MaxReports]
      /\ reports'[m] > 0 /\ (reports[m] = 0 => reports'[m] = 1)
      /\ \A l \in Letter \ {m} : reports'[l] = reports[l]
      /\ \A l \in Letter : reports[l] \in Nat /\ reports'[l] \in Nat
      /\ \A l \in Letter : reports[l] > 0 => reports'[l] > 0
  BY LettersAssumption DEF LettersAssumption, Report, LettersTyped
<1>3. LettersTyped'
  BY <1>1, <1>2 DEF LettersTyped
<1>4. SweepsAreSound'
  BY <1>1, <1>2 DEF SweepsAreSound, Sweeps, LettersTyped
<1>5. GoneAreReported'
  BY <1>1, <1>2 DEF GoneAreReported
<1>6. ASSUME NEW l \in Letter \ lost PROVE NeverLetGo(l)'
  <2>1. NeverLetGo(l)
    BY DEF KeptAreSound
  <2>2. CASE l = m
    <3>1. reports[m] = 0 /\ reports'[m] = 1 /\ letters[m] = "dead" /\ lockedBy[m] = w
      BY <1>1, <1>2, <2>1, <2>2 DEF NeverLetGo
    <3>2. \A v \in Sweep : m \in sweep'[v].todo => v = w
      BY <1>1, <2>1, <2>2, <3>1 DEF NeverLetGo
    <3>. QED
      BY <1>1, <2>1, <2>2, <3>1, <3>2, SweepsAssumption DEF NeverLetGo, SweepsAssumption
  <2>3. CASE l # m
    BY <1>1, <1>2, <2>1, <2>3 DEF NeverLetGo
  <2>. QED BY <2>2, <2>3
<1>. QED
  BY <1>1, <1>3, <1>4, <1>5, <1>6 DEF KeptAreSound

LEMMA CompleteKeeps ==
  ASSUME DeadIInv, NEW w \in Sweep, NEW m \in Letter, End(w, m), CompleteMessage(w, m)
  PROVE  DeadIInv'
<1>. USE DEF DeadIInv
<1>1. /\ UNCHANGED <<reports, lockedBy, receivers, lost>>
      /\ m \in sweep[w].told /\ m \in sweep[w].todo /\ reports[m] > 0
      /\ sweep[w].told = {m} /\ sweep[w] \in Sweeps
      /\ sweep' = [sweep EXCEPT ![w] = [sweep[w] EXCEPT !.told = {}, !.todo = @ \ {m}]]
      /\ sweep' \in [Sweep -> Sweeps]
      /\ sweep'[w].told = {} /\ sweep'[w].todo = sweep[w].todo \ {m}
      /\ sweep'[w].receiver = sweep[w].receiver
      /\ \A v \in Sweep \ {w} : sweep'[v] = sweep[v]
  BY DEF End, CompleteMessage, LettersTyped, Sweeps, SweepsAreSound
<1>2. /\ letters' \in [Letter -> {"live", "dead", "gone"}]
      /\ letters'[m] = "gone" \/ letters'[m] = letters[m]
      /\ \A l \in Letter \ {m} : letters'[l] = letters[l]
  BY DEF CompleteMessage, LettersTyped
<1>3. LettersTyped'
  BY <1>1, <1>2 DEF LettersTyped
<1>4. SweepsAreSound'
  BY <1>1 DEF SweepsAreSound
<1>5. GoneAreReported'
  BY <1>1, <1>2 DEF GoneAreReported
<1>6. ASSUME NEW l \in Letter \ lost PROVE NeverLetGo(l)'
  <2>1. NeverLetGo(l)
    BY DEF KeptAreSound
  <2>2. CASE l = m
    <3>1. letters[m] = "dead" /\ lockedBy[m] = w
      BY <1>1, <2>1, <2>2 DEF NeverLetGo
    <3>2. \A v \in Sweep : m \notin sweep'[v].todo
      BY <1>1, <2>1, <2>2, <3>1 DEF NeverLetGo
    <3>. QED
      BY <1>1, <1>2, <2>1, <2>2, <3>1, <3>2, SweepsAssumption
         DEF NeverLetGo, SweepsAssumption
  <2>3. CASE l # m
    BY <1>1, <1>2, <2>1, <2>3 DEF NeverLetGo
  <2>. QED BY <2>2, <2>3
<1>. QED
  BY <1>1, <1>3, <1>4, <1>5, <1>6 DEF KeptAreSound

\* What a sweep is given nobody holds: it was never received, or let go of.
LEMMA ReceiveKeeps ==
  ASSUME DeadIInv, NEW w \in Sweep, Receive(w)
  PROVE  DeadIInv'
<1>. USE DEF DeadIInv
<1>1. PICK got \in SUBSET Available(w) \ {{}} :
        /\ lockedBy' = [m \in Letter |-> IF m \in got THEN w ELSE lockedBy[m]]
        /\ sweep' = [sweep EXCEPT ![w].todo = got, ![w].receiver = "used"]
  BY DEF Receive
<1>2. /\ UNCHANGED <<letters, receivers, bus, reports, lost>>
      /\ got \subseteq Letter
      /\ \A m \in got : letters[m] = "dead" /\ lockedBy[m] = Nobody
      /\ sweep[w].todo = {} /\ sweep[w].told = {} /\ sweep[w] \in Sweeps
  BY <1>1 DEF Receive, Available, SweepsAreSound, LettersTyped
<1>3. /\ sweep' = [sweep EXCEPT ![w] = [sweep[w] EXCEPT !.todo = got, !.receiver = "used"]]
      /\ sweep' \in [Sweep -> Sweeps]
      /\ sweep'[w].told = {} /\ sweep'[w].todo = got /\ sweep'[w].receiver = "used"
      /\ \A v \in Sweep \ {w} : sweep'[v] = sweep[v]
  BY <1>1, <1>2 DEF LettersTyped, Sweeps
<1>4. LettersTyped'
  BY <1>1, <1>2, <1>3 DEF LettersTyped
<1>5. SweepsAreSound' /\ GoneAreReported'
  BY <1>2, <1>3 DEF SweepsAreSound, GoneAreReported
<1>6. ASSUME NEW m \in Letter \ lost PROVE NeverLetGo(m)'
  <2>1. NeverLetGo(m) /\ reports[m] \in Nat
    BY LettersAssumption DEF KeptAreSound, LettersTyped, LettersAssumption
  <2>2. CASE m \in got
    <3>1. reports[m] = 0
      BY <1>2, <2>1, <2>2 DEF NeverLetGo
    <3>2. \A v \in Sweep : m \in sweep'[v].todo => v = w
      BY <1>2, <1>3, <2>1, <2>2, SweepsAssumption DEF NeverLetGo, SweepsAssumption
    <3>3. lockedBy'[m] = w /\ letters'[m] = "dead" /\ reports'[m] = 0
      BY <1>1, <1>2, <2>2, <3>1
    <3>. QED
      BY <3>2, <3>3 DEF NeverLetGo
  <2>3. CASE m \notin got
    BY <1>1, <1>2, <1>3, <2>1, <2>3 DEF NeverLetGo
  <2>. QED BY <2>2, <2>3
<1>. QED
  BY <1>2, <1>4, <1>5, <1>6 DEF KeptAreSound

LEMMA LettersKeep == DeadIInv /\ [DeadNext]_letterVars => DeadIInv'
<1>. SUFFICES ASSUME DeadIInv, [DeadNext]_letterVars PROVE DeadIInv'
  OBVIOUS
<1>0. /\ LettersTyped /\ Len(Queues) \in Nat \ {0} /\ MaxHandles \in Nat
      /\ Resting \in Sweeps /\ Resting.todo = {} /\ Resting.told = {}
      /\ \A q \in 1 .. Len(Queues), r \in {"none", "open"} :
           At(q, r) \in Sweeps /\ At(q, r).todo = {} /\ At(q, r).told = {}
  BY LettersAssumption DEF LettersAssumption, DeadIInv, Resting, At, Sweeps
<1>1. ASSUME NEW m \in Letter, DeadLettered(m) PROVE DeadIInv'
  BY <1>1 DEF DeadLettered, DeadIInv, LettersTyped, SweepsAreSound, GoneAreReported,
              KeptAreSound, NeverLetGo
<1>2. ASSUME NEW m \in Letter, LockRunsOut(m) PROVE DeadIInv'
  <2>1. LetGo({m}) /\ UNCHANGED <<sweep, receivers>>
    BY <1>2 DEF LockRunsOut
  <2>2. LettersTyped'
    BY <1>0, <2>1 DEF LetGo, LettersTyped
  <2>. QED BY <2>1, <2>2, LettingGo
<1>3. ASSUME NEW w \in Sweep, OpenReceiver(w) PROVE DeadIInv'
  <2>1. /\ UNCHANGED <<letters, lockedBy, reports, lost>>
        /\ receivers' \in 0 .. MaxHandles
        /\ sweep[w].todo = {} /\ sweep[w].told = {}
    BY <1>0, <1>3 DEF OpenReceiver, DeadIInv, LettersTyped, SweepsAreSound
  <2>2. PICK to \in Sweeps : /\ sweep' = [sweep EXCEPT ![w] = to]
                             /\ to.todo = {} /\ to.told = {}
    <3>1. (IF sweep[w].at = 0 THEN 1 ELSE sweep[w].at) \in 1 .. Len(Queues)
      BY <1>0 DEF LettersTyped, Sweeps
    <3>. QED BY <1>0, <1>3, <3>1 DEF OpenReceiver
  <2>3. \A v \in Sweep : sweep'[v].todo = sweep[v].todo /\ sweep'[v].told = sweep[v].told
                         /\ (sweep'[v].todo = {} \/ sweep'[v] = sweep[v])
    BY <1>0, <2>1, <2>2 DEF LettersTyped
  <2>4. LettersTyped'
    BY <1>0, <2>1, <2>2 DEF LettersTyped
  <2>. QED
    BY <2>1, <2>3, <2>4
       DEF DeadIInv, SweepsAreSound, GoneAreReported, KeptAreSound, NeverLetGo
<1>4. ASSUME NEW w \in Sweep, CloseReceiver(w) PROVE DeadIInv'
  <2>1. /\ LetGo({m \in Held : lockedBy[m] = w}) /\ UNCHANGED receivers
        /\ {m \in Held : lockedBy[m] = w} \subseteq Letter
    BY <1>4 DEF CloseReceiver, Held
  <2>2. PICK to \in Sweeps : /\ sweep' = [sweep EXCEPT ![w] = to]
                             /\ to.todo = {} /\ to.told = {}
    <3>1. sweep[w].at # Len(Queues) => sweep[w].at + 1 \in 1 .. Len(Queues)
      BY <1>0 DEF LettersTyped, Sweeps
    <3>. QED BY <1>0, <1>4, <3>1 DEF CloseReceiver
  <2>3. LettersTyped'
    BY <1>0, <2>1, <2>2 DEF LetGo, LettersTyped
  <2>4. \A v \in Sweep : sweep'[v] = sweep[v] \/ (sweep'[v].todo = {} /\ sweep'[v].told = {})
    BY <1>0, <2>2 DEF LettersTyped
  <2>. QED BY <2>1, <2>3, <2>4, LettingGo
<1>5. ASSUME LetGo(Held), sweep' \in {sweep, [w \in Sweep |-> Resting]},
             receivers' \in {receivers, 0}
      PROVE  DeadIInv'
  <2>1. Held \subseteq Letter
    BY DEF Held
  <2>2. LettersTyped'
    <3>1. sweep' \in [Sweep -> Sweeps] /\ receivers' \in 0 .. MaxHandles
      BY <1>0, <1>5 DEF LettersTyped
    <3>2. /\ UNCHANGED <<letters, reports>> /\ lost' \subseteq Letter
          /\ lockedBy' \in [Letter -> Sweep \cup {Nobody}]
      BY <1>0, <1>5, <2>1 DEF LetGo, LettersTyped
    <3>. QED
      BY <1>0, <3>1, <3>2 DEF LettersTyped
  <2>3. \A v \in Sweep : sweep'[v] = sweep[v] \/ (sweep'[v].todo = {} /\ sweep'[v].told = {})
    BY <1>0, <1>5
  <2>. QED BY <1>5, <2>1, <2>2, <2>3, LettingGo
<1>6. CASE CloseBus \/ RestartWorker
  BY <1>5, <1>6 DEF CloseBus, RestartWorker
<1>7. ASSUME NEW w \in Sweep, NEW m \in Letter, ProcessLetter(w, m) PROVE DeadIInv'
  BY <1>7, ReportKeeps, CompleteKeeps DEF ProcessLetter
<1>8. CASE UNCHANGED letterVars
  BY <1>8 DEF letterVars, DeadIInv, LettersTyped, SweepsAreSound, GoneAreReported,
              KeptAreSound, NeverLetGo
<1>. QED
  BY <1>1, <1>2, <1>3, <1>4, <1>6, <1>7, <1>8, ReceiveKeeps DEF DeadNext

LEMMA LettersStaySound == DeadSpec => []DeadIInv
  BY LettersStart, LettersKeep, PTL DEF DeadSpec

\* A dead letter leaves its queue after it was reported, and it is reported again
\* only if it had been let go of, wherever sweeps, locks and the worker stop.
THEOREM LettersReported == DeadSpec => []LettersAreReported
<1>1. DeadIInv => LettersAreReported
  BY DEF DeadIInv, LettersTyped, GoneAreReported, KeptAreSound, NeverLetGo,
         LettersAreReported
<1>. QED
  BY <1>1, LettersStaySound, PTL

(***************************************************************************)
(* The authentication guard                                                *)
(***************************************************************************)

Heading == Token \cup {NoToken}
Step == {"before", "delayed", "sent", "checked", "handling", "over", "refused"}

Contexts == [Visit -> [org : Org \cup {NoToken}, token : Heading]]

GuardTyped ==
  /\ authBearer \in Heading
  /\ visit \in [Visit -> [pc : Step, token : Heading, org : Org \cup {NoToken},
                          seen : Heading]]
  /\ context \in Contexts
  /\ disturbed \subseteq Visit

\* A request no other one overlapped is alone in the guard, and the client,
\* and so FSP, has seen no token but its own.
Undisturbed ==
  \A v \in Inside \ disturbed :
    /\ Inside = {v}
    /\ authBearer = visit[v].token /\ visit[v].seen = visit[v].token
    /\ visit[v].pc = "checked" => <<visit[v].token, visit[v].org>> \in Manages

GuardIInv == GuardTyped /\ Undisturbed /\ HandlersSeeTheirOwn

LEMMA GuardTypesKept ==
  ASSUME GuardTyped, [GuardNext]_guardVars
  PROVE  GuardTyped'
<1>. USE DEF GuardTyped, Step, Heading, Contexts
<1>1. ASSUME NEW v \in Visit, TurnedAway(v)
      PROVE  GuardTyped'
  BY <1>1 DEF TurnedAway
<1>2. ASSUME NEW v \in Visit, Delayed(v)
      PROVE  GuardTyped'
  BY <1>2 DEF Delayed
<1>3. ASSUME NEW v \in Visit, AskAgain(v)
      PROVE  GuardTyped'
  <2>1. visit' = [visit EXCEPT ![v] = [visit[v] EXCEPT !.pc = "sent", !.seen = authBearer]]
    BY <1>3 DEF AskAgain
  <2>. QED
    BY <1>3, <2>1 DEF AskAgain
<1>4. ASSUME NEW v \in Visit, PermissionsAnswered(v)
      PROVE  GuardTyped'
  BY <1>4, SMTT(30) DEF PermissionsAnswered
<1>5. ASSUME NEW v \in Visit, OperatorLookedUp(v)
      PROVE  GuardTyped'
  BY <1>5 DEF OperatorLookedUp, SetContext
<1>6. ASSUME NEW v \in Visit, Handled(v)
      PROVE  GuardTyped'
  BY <1>6 DEF Handled
<1>7. ASSUME NEW v \in Visit, NEW t \in Token, NEW o \in Org, SetTokenAndAsk(v, t, o)
      PROVE  GuardTyped'
  BY <1>7 DEF SetTokenAndAsk, Inside
<1>8. CASE UNCHANGED guardVars
  BY <1>8 DEF guardVars
<1>. QED
  BY <1>1, <1>2, <1>3, <1>4, <1>5, <1>6, <1>7, <1>8 DEF GuardNext

LEMMA UnchangedContext ==
  ASSUME GuardTyped, UNCHANGED context
  PROVE  context' \in Contexts /\ \A w \in Visit : context'[w] = context[w]
BY DEF GuardTyped, Contexts

\* A step of the request v that leaves the client's token and the record of
\* overlaps alone, and changes of v at most where it is and what FSP saw.
LEMMA StepsAlone ==
  ASSUME GuardIInv, NEW v \in Visit, NEW pc \in Step, NEW seen \in Heading,
         visit' = [visit EXCEPT ![v] = [visit[v] EXCEPT !.pc = pc, !.seen = seen]],
         authBearer' = authBearer, disturbed' = disturbed, context' \in Contexts,
         \A w \in Visit \ {v} : context'[w] = context[w],
         v \in Inside \/ pc \notin {"delayed", "sent", "checked"},
         v \in Inside \ disturbed => seen = authBearer,
         pc = "checked" => <<visit[v].seen, visit[v].org>> \in Manages,
         pc = "handling" => /\ visit[v].pc = "checked" /\ visit[v].org \in Known
                            /\ context'[v] = [org |-> visit[v].org, token |-> visit[v].token]
  PROVE  Undisturbed' /\ HandlersSeeTheirOwn'
<1>. USE DEF GuardIInv, GuardTyped
<1>1. /\ visit'[v].pc = pc /\ visit'[v].seen = seen
      /\ visit'[v].token = visit[v].token /\ visit'[v].org = visit[v].org
      /\ \A w \in Visit \ {v} : visit'[w] = visit[w]
  OBVIOUS
<1>2. Inside' \subseteq Inside
  BY <1>1 DEF Inside
<1>3. ASSUME NEW w \in Inside' \ disturbed'
      PROVE  /\ Inside' = {w}
             /\ authBearer' = visit'[w].token /\ visit'[w].seen = visit'[w].token
             /\ visit'[w].pc = "checked" => <<visit'[w].token, visit'[w].org>> \in Manages
  <2>1. /\ w \in Visit /\ Inside = {w}
        /\ authBearer = visit[w].token /\ visit[w].seen = visit[w].token
        /\ visit[w].pc = "checked" => <<visit[w].token, visit[w].org>> \in Manages
    BY <1>2, <1>3 DEF Undisturbed, Inside
  <2>. QED
    BY <1>1, <1>2, <1>3, <2>1
<1>4. HandlersSeeTheirOwn'
  BY <1>1 DEF HandlersSeeTheirOwn, Undisturbed, Inside
<1>. QED
  BY <1>3, <1>4 DEF Undisturbed

\* The invariant of the guard holds.
LEMMA GuardStaysSound == GuardSpec => []GuardIInv
<1>1. GuardInit => GuardIInv
  BY DEF GuardInit, GuardIInv, GuardTyped, Undisturbed, HandlersSeeTheirOwn, Inside, Step,
         Heading, Contexts, Outside, NoContext
<1>2. GuardIInv /\ [GuardNext]_guardVars => GuardIInv'
  <2>. SUFFICES ASSUME GuardIInv, [GuardNext]_guardVars
                PROVE  Undisturbed' /\ HandlersSeeTheirOwn'
    BY GuardTypesKept DEF GuardIInv
  <2>0. GuardTyped /\ Undisturbed /\ HandlersSeeTheirOwn
    BY DEF GuardIInv
  <2>1. ASSUME NEW v \in Visit, TurnedAway(v) \/ Handled(v)
        PROVE  Undisturbed' /\ HandlersSeeTheirOwn'
    <3>1. PICK pc \in {"refused", "over"} :
            visit' = [visit EXCEPT ![v] = [visit[v] EXCEPT !.pc = pc]]
      BY <2>0, <2>1 DEF TurnedAway, Handled, GuardTyped
    <3>2. visit' = [visit EXCEPT ![v] =
                      [visit[v] EXCEPT !.pc = pc, !.seen = visit[v].seen]]
      BY <2>0, <3>1 DEF GuardTyped
    <3>4. visit[v].seen \in Heading
      BY <2>0 DEF GuardTyped
    <3>5. v \notin Inside /\ UNCHANGED <<authBearer, context, disturbed>>
      BY <2>1 DEF TurnedAway, Handled, Inside
    <3>7. pc \in Step /\ pc \notin {"delayed", "sent", "checked", "handling"}
      BY <3>1 DEF Step
    <3>8. context' \in Contexts /\ \A w \in Visit : context'[w] = context[w]
      BY <2>0, <3>5, UnchangedContext
    <3>. QED
      BY <3>2, <3>4, <3>5, <3>7, <3>8, StepsAlone
  <2>2. ASSUME NEW v \in Visit, Delayed(v) \/ AskAgain(v)
        PROVE  Undisturbed' /\ HandlersSeeTheirOwn'
    <3>1. PICK pc \in {"delayed", "sent"}, seen \in {visit[v].seen, authBearer} :
            visit' = [visit EXCEPT ![v] = [visit[v] EXCEPT !.pc = pc, !.seen = seen]]
      BY <2>0, <2>2 DEF Delayed, AskAgain, GuardTyped
    <3>5. v \in Inside
      BY <2>2 DEF Delayed, AskAgain, Inside
    <3>. QED
      BY <2>0, <2>2, <3>1, <3>5, StepsAlone, UnchangedContext
      DEF Delayed, AskAgain, Step, Undisturbed, GuardTyped
  <2>3. ASSUME NEW v \in Visit, PermissionsAnswered(v)
        PROVE  Undisturbed' /\ HandlersSeeTheirOwn'
    <3>1. PICK pc \in {"refused", "checked"} :
            /\ visit' = [visit EXCEPT ![v] = [visit[v] EXCEPT !.pc = pc]]
            /\ pc = "checked" => <<visit[v].seen, visit[v].org>> \in Manages
      BY <2>0, <2>3 DEF PermissionsAnswered, MayManage, GuardTyped
    <3>2. visit' = [visit EXCEPT ![v] =
                      [visit[v] EXCEPT !.pc = pc, !.seen = visit[v].seen]]
      BY <2>0, <3>1 DEF GuardTyped
    <3>5. /\ v \in Inside /\ authBearer' = authBearer /\ disturbed' = disturbed
          /\ context' = context /\ visit[v].pc = "sent"
      BY <2>3 DEF PermissionsAnswered, Inside
    <3>6. v \in Inside \ disturbed => visit[v].seen = authBearer
      BY <2>0, <3>5 DEF Undisturbed
    <3>7. pc \in Step /\ pc # "handling"
      BY <3>1 DEF Step
    <3>8. context' \in Contexts /\ \A w \in Visit : context'[w] = context[w]
      BY <2>0, <3>5, UnchangedContext
    <3>4. visit[v].seen \in Heading
      BY <2>0 DEF GuardTyped
    <3>. QED
      <4>1. CASE pc = "refused"
        BY <3>2, <3>4, <3>5, <3>6, <3>7, <3>8, <4>1, StepsAlone
      <4>2. CASE pc = "checked"
        <5>1. <<visit[v].seen, visit[v].org>> \in Manages
          BY <3>1, <4>2
        <5>. QED
          BY <3>2, <3>4, <3>5, <3>6, <3>7, <3>8, <4>2, <5>1, StepsAlone
      <4>. QED
        BY <4>1, <4>2
  <2>4. ASSUME NEW v \in Visit, OperatorLookedUp(v)
        PROVE  Undisturbed' /\ HandlersSeeTheirOwn'
    <3>1. PICK pc \in {"refused", "handling"} :
            /\ visit' = [visit EXCEPT ![v] = [visit[v] EXCEPT !.pc = pc]]
            /\ pc = "handling" =>
                 /\ visit[v].org \in Known
                 /\ context'[v] = [org |-> visit[v].org, token |-> visit[v].token]
      BY <2>0, <2>4 DEF OperatorLookedUp, SetContext, GuardTyped, Contexts
    <3>2. visit' = [visit EXCEPT ![v] =
                      [visit[v] EXCEPT !.pc = pc, !.seen = visit[v].seen]]
      BY <2>0, <3>1 DEF GuardTyped
    <3>3. context' \in Contexts /\ \A w \in Visit \ {v} : context'[w] = context[w]
      <4>1. /\ visit[v].org \in Org \cup {NoToken} /\ visit[v].token \in Heading
            /\ visit[v].seen \in Heading
        BY <2>0 DEF GuardTyped
      <4>2. CASE SetContext(v)
        BY <2>0, <4>1, <4>2 DEF SetContext, Contexts, GuardTyped
      <4>. QED
        BY <2>0, <2>4, <4>2 DEF OperatorLookedUp, GuardTyped
    <3>4. visit[v].seen \in Heading
      BY <2>0 DEF GuardTyped
    <3>5. v \in Inside /\ visit[v].pc = "checked" /\ UNCHANGED <<authBearer, disturbed>>
      BY <2>4 DEF OperatorLookedUp, Inside
    <3>6. v \in Inside \ disturbed => visit[v].seen = authBearer
      BY <2>0, <3>5 DEF Undisturbed
    <3>7. pc \in Step /\ pc # "checked"
      BY <3>1 DEF Step
    <3>. QED
      BY <3>1, <3>2, <3>3, <3>4, <3>5, <3>6, <3>7, StepsAlone, ZenonT(60)
  <2>5. ASSUME NEW v \in Visit, NEW t \in Token, NEW o \in Org, SetTokenAndAsk(v, t, o)
        PROVE  Undisturbed' /\ HandlersSeeTheirOwn'
    <3>1. /\ visit'[v] = [pc |-> "sent", token |-> t, org |-> o, seen |-> t]
          /\ \A w \in Visit \ {v} : visit'[w] = visit[w]
          /\ visit[v].pc = "before" /\ context' = context /\ authBearer' = t
      BY <2>0, <2>5 DEF SetTokenAndAsk, GuardTyped
    <3>2. Inside' = Inside \cup {v}
      BY <3>1 DEF Inside
    <3>3. Inside # {} => Inside' \subseteq disturbed'
      BY <2>5, <3>2 DEF SetTokenAndAsk
    <3>4. disturbed \subseteq disturbed'
      BY <2>5 DEF SetTokenAndAsk
    <3>5. Undisturbed'
      BY <2>0, <3>1, <3>2, <3>3 DEF Undisturbed
    <3>6. HandlersSeeTheirOwn'
      BY <2>0, <3>1, <3>4 DEF HandlersSeeTheirOwn
    <3>. QED
      BY <3>5, <3>6
  <2>6. CASE UNCHANGED guardVars
    BY <2>0, <2>6 DEF guardVars, Undisturbed, HandlersSeeTheirOwn, Inside
  <2>. QED
    BY <2>1, <2>2, <2>3, <2>4, <2>5, <2>6 DEF GuardNext
<1>. QED
  BY <1>1, <1>2, PTL DEF GuardSpec

\* Whatever other requests do while one waits, its handler runs for its own
\* operator, one that is known, with its own token; and when no other was in
\* the guard with it, on the rights of that token.
THEOREM HandlersKeepTheirOwn == GuardSpec => []HandlersSeeTheirOwn
<1>1. GuardIInv => HandlersSeeTheirOwn
  BY DEF GuardIInv
<1>. QED
  BY <1>1, GuardStaysSound, PTL

(***************************************************************************)
(* The rationale generator                                                 *)
(***************************************************************************)

RationaleTyped ==
  /\ ticks \in Nat
  /\ ask \in [Ask -> [racing : BOOLEAN, begun : Int, passRate : Int]]
  /\ model \in [Ask -> {"none", "open", "done"}]
  /\ result \in [Ask -> [by : {"nobody", "model", "fallback"},
                         reason : {"none", "timeout", "malformed_json", "api_error"},
                         confidence : Int, at : Int]]

\* A call that was not made has no race; one that races has no answer yet and
\* is not late, as the clock waits for its timer.
Races ==
  \A a \in Ask :
    /\ ask[a].begun = -1 => ~ask[a].racing /\ result[a] = NoResult /\ model[a] = "none"
    /\ ask[a].begun # -1 => 0 <= ask[a].begun /\ ask[a].begun <= ticks
    /\ ask[a].racing => result[a] = NoResult /\ ticks <= ask[a].begun + Timeout
    /\ ask[a].begun # -1 /\ ~ask[a].racing => result[a].by # "nobody"

RationaleIInv == RationaleTyped /\ Races /\ RationaleIsSettledOnce

LEMMA PassRateIsNumber ==
  ASSUME NEW passed \in Nat, NEW total \in Nat
  PROVE  ConstraintPassRate(passed, total) \in Int
<1>1. CASE total = 0
  BY <1>1 DEF ConstraintPassRate
<1>2. CASE total # 0
  BY <1>2 DEF ConstraintPassRate
<1>. QED
  BY <1>1, <1>2

\* Whoever settles the call keeps the invariant, if the answer is one that may
\* be given at that moment.
LEMMA SettlingOnce ==
  ASSUME RationaleIInv, NEW a \in Ask, model[a] # "none" \/ ask[a].racing,
         NEW by \in {"model", "fallback"},
         NEW reason \in {"none", "timeout", "malformed_json", "api_error"},
         NEW confidence \in 0 .. 10,
         Settle(a, by, reason, confidence), ticks' = ticks,
         model' \in [Ask -> {"none", "open", "done"}],
         \A b \in Ask \ {a} : model'[b] = model[b],
         model'[a] \in {model[a], "done"},
         by = "model" => confidence <= Override \/ ask[a].passRate >= EnoughPassed,
         reason = "timeout" => ticks >= ask[a].begun + Timeout,
         by = "fallback" /\ reason # "timeout" => model'[a] = "done"
  PROVE  RationaleIInv'
<1>. USE RationaleAssumption DEF RationaleIInv, RationaleTyped
<1>1. CASE ask[a].racing
  <2>1. /\ ask' = [ask EXCEPT ![a] = [ask[a] EXCEPT !.racing = FALSE]]
        /\ result' = [result EXCEPT ![a] =
             [by |-> by, reason |-> reason, confidence |-> confidence, at |-> ticks]]
    BY <1>1 DEF Settle
  <2>2. RationaleTyped'
    <3>1. [ask[a] EXCEPT !.racing = FALSE] \in [racing : BOOLEAN, begun : Int, passRate : Int]
      BY ZenonT(60)
    <3>2. ask' \in [Ask -> [racing : BOOLEAN, begun : Int, passRate : Int]]
      BY <2>1, <3>1
    <3>. QED
      BY <2>1, <3>2
  <2>3. /\ ~ask'[a].racing /\ ask'[a].begun = ask[a].begun
        /\ ask'[a].passRate = ask[a].passRate
        /\ result'[a] = [by |-> by, reason |-> reason, confidence |-> confidence, at |-> ticks]
    BY <2>1
  <2>4. \A b \in Ask \ {a} : ask'[b] = ask[b] /\ result'[b] = result[b]
    BY <2>1
  <2>5. ask[a].begun # -1 /\ ticks <= ask[a].begun + Timeout
    BY <1>1 DEF Races
  <2>6. Races'
    BY <2>3, <2>4, <2>5 DEF Races
  <2>7. RationaleIsSettledOnce'
    BY <2>3, <2>4, <2>5 DEF RationaleIsSettledOnce
  <2>. QED
    BY <2>2, <2>6, <2>7
<1>2. CASE ~ask[a].racing
  <2>1. ask' = ask /\ result' = result /\ model[a] # "none"
    BY <1>2 DEF Settle
  <2>2. Races'
    BY <2>1 DEF Races
  <2>3. RationaleIsSettledOnce'
    BY <2>1 DEF RationaleIsSettledOnce
  <2>. QED
    BY <2>1, <2>2, <2>3
<1>. QED
  BY <1>1, <1>2

\* The invariant of the races holds.
LEMMA RacesStaySound == RationaleSpec => []RationaleIInv
<1>. USE RationaleAssumption
<1>1. RationaleInit => RationaleIInv
  BY DEF RationaleInit, RationaleIInv, RationaleTyped, Races, RationaleIsSettledOnce, NoResult
<1>2. RationaleIInv /\ [RationaleNext]_rationaleVars => RationaleIInv'
  <2>. SUFFICES ASSUME RationaleIInv, [RationaleNext]_rationaleVars
                PROVE  RationaleIInv'
    OBVIOUS
  <2>0. RationaleTyped /\ Races /\ RationaleIsSettledOnce
    BY DEF RationaleIInv
  <2>1. ASSUME NEW a \in Ask, NEW check \in Checks, Generate(a, check)
        PROVE  RationaleIInv'
    <3>1. PICK rate \in Int :
            ask' = [ask EXCEPT ![a] = [racing |-> TRUE, begun |-> ticks, passRate |-> rate]]
      <4>1. check[1] \in Nat /\ check[2] \in Nat
        OBVIOUS
      <4>. QED
        BY <2>1, <4>1, PassRateIsNumber DEF Generate
    <3>2. /\ ask[a].begun = -1 /\ UNCHANGED <<ticks, result>>
          /\ model' = [model EXCEPT ![a] = "open"]
      BY <2>1 DEF Generate
    <3>3. RationaleTyped'
      BY <2>0, <3>1, <3>2 DEF RationaleTyped
    <3>4. Races'
      BY <2>0, <3>1, <3>2 DEF RationaleTyped, Races
    <3>5. RationaleIsSettledOnce'
      <4>1. result[a] = NoResult /\ ask'[a].begun = ticks
        BY <2>0, <3>1, <3>2 DEF Races, RationaleTyped
      <4>2. \A b \in Ask \ {a} : ask'[b] = ask[b] /\ model'[b] = model[b]
        BY <2>0, <3>1, <3>2 DEF RationaleTyped
      <4>. QED
        BY <2>0, <3>2, <4>1, <4>2 DEF RationaleTyped, RationaleIsSettledOnce, NoResult
    <3>. QED
      BY <3>3, <3>4, <3>5 DEF RationaleIInv
  <2>2. ASSUME NEW a \in Ask, ModelAnswers(a) \/ ModelFails(a)
        PROVE  RationaleIInv'
    <3>1. /\ ticks' = ticks /\ model[a] = "open" /\ model'[a] = "done"
          /\ model' \in [Ask -> {"none", "open", "done"}]
          /\ \A b \in Ask \ {a} : model'[b] = model[b]
      BY <2>0, <2>2 DEF ModelAnswers, ModelFails, RationaleTyped
    <3>2. CASE FallBack(a, "malformed_json") \/ FallBack(a, "api_error")
      BY <3>1, <3>2, SettlingOnce DEF FallBack
    <3>3. ASSUME NEW claim \in Claims, claim \in 0 .. 10,
                 Settle(a, "model", "none", Confidence(a, claim))
          PROVE  RationaleIInv'
      <4>1. /\ Confidence(a, claim) \in 0 .. 10
            /\ Confidence(a, claim) <= Override \/ ask[a].passRate >= EnoughPassed
        BY <2>0, <3>3 DEF Confidence, RationaleTyped
      <4>. QED
        BY <3>1, <3>3, <4>1, SettlingOnce
    <3>. QED
      BY <2>2, <3>2, <3>3 DEF ModelAnswers, ModelFails, IsValidLlmResponse
  <2>3. ASSUME NEW a \in Ask, TimerFires(a)
        PROVE  RationaleIInv'
    <3>1. /\ ticks' = ticks /\ model' = model /\ model \in [Ask -> {"none", "open", "done"}]
          /\ ask[a].racing /\ ticks >= ask[a].begun + Timeout
          /\ Settle(a, "fallback", "timeout", Fallback)
      BY <2>0, <2>3 DEF TimerFires, TimerDue, FallBack, RationaleTyped
    <3>. QED
      BY <3>1, SettlingOnce
  <2>4. CASE RationaleTick
    BY <2>0, <2>4
    DEF RationaleTick, TimerDue, RationaleIInv, RationaleTyped, Races, RationaleIsSettledOnce
  <2>5. CASE UNCHANGED rationaleVars
    BY <2>0, <2>5
    DEF rationaleVars, RationaleIInv, RationaleTyped, Races, RationaleIsSettledOnce
  <2>. QED
    BY <2>1, <2>2, <2>3, <2>4, <2>5 DEF RationaleNext
<1>. QED
  BY <1>1, <1>2, PTL DEF RationaleSpec

\* Each call is answered once and in time, by the model or by the fallback and
\* with the reason that fits, and never with a high confidence that its
\* constraints do not bear out.
THEOREM SettledOnce == RationaleSpec => []RationaleIsSettledOnce
<1>. USE RationaleAssumption
<1>1. RationaleIInv => RationaleIsSettledOnce
  BY DEF RationaleIInv
<1>. QED
  BY <1>1, RacesStaySound, PTL

(***************************************************************************)
(* The services of the FSP client                                          *)
(***************************************************************************)

FspServicesInv ==
  /\ effects \in Nat /\ blamed \in Nat
  /\ fspCall = NoCall => told = NoCall /\ effects = 0 /\ blamed = 0
  /\ told = NoCall => effects <= blamed \/ (effects <= 1 /\ fspCall.verb # "post")
  /\ CallsAreAccounted

LEMMA ResultsAreNoCalls ==
  ASSUME NEW success, NEW errors
  PROVE  [success |-> success, fspErrors |-> errors] # NoCall
<1>1. DOMAIN [success |-> success, fspErrors |-> errors] = {"success", "fspErrors"}
  OBVIOUS
<1>2. DOMAIN NoCall = {"none"}
  BY DEF NoCall
<1>. QED
  BY <1>1, <1>2

\* What the poll consumer takes for a rate limit FSP has called one.
LEMMA RateLimitsAreNamed ==
  ASSUME NEW answer \in FspAnswers, Is429Error(BuildError(Thrown(answer)))
  PROVE  "429" \in answer.body.codes
BY DEF FspAnswers, ErrorBody, Blank, Is429Error, BuildError, Thrown, ExtractFspErrors, NoCode

LEMMA AboutItsOperator ==
  ASSUME NEW way, NEW tenant \in FspOperator, NEW request \in [operatorId : FspOperator]
  PROVE  AboutOperator(way, request, tenant) \in {tenant, "nobody"}
BY DEF AboutOperator, OverRequest

\* The invariant of a call holds.
LEMMA CallsStaySound == FspServicesSpec => []FspServicesInv
<1>1. FspInit => FspServicesInv
  BY DEF FspInit, FspServicesInv, CallsAreAccounted
<1>2. FspServicesInv /\ [FspServicesNext]_fspVars => FspServicesInv'
  <2>. SUFFICES ASSUME FspServicesInv, [FspServicesNext]_fspVars
                PROVE  FspServicesInv'
    OBVIOUS
  <2>1. ASSUME NEW s \in Services, NEW m \in DOMAIN ClientWith(s)[s],
               NEW tenant \in FspOperator, NEW request \in [operatorId : FspOperator],
               CallFsp(s, m, tenant, request)
        PROVE  FspServicesInv'
    <3>1. /\ fspCall'.meant = tenant
          /\ fspCall'.about \in {tenant, "nobody"}
          /\ fspCall = NoCall /\ UNCHANGED <<effects, blamed, told>>
      BY <2>1, AboutItsOperator DEF CallFsp
    <3>. QED
      BY <3>1 DEF FspServicesInv, CallsAreAccounted
  <2>2. ASSUME NEW answer \in FspAnswers, NEW changed \in MayHaveChanged(answer),
               AttemptFsp(answer, changed)
        PROVE  FspServicesInv'
    <3>1. /\ fspCall # NoCall /\ told = NoCall /\ fspCall' = fspCall /\ heard' = answer
          /\ answer.status \in {0, 200, 400, 429, 503}
      BY <2>2 DEF AttemptFsp, FspAnswers
    <3>2. CASE answer.status = 200
      <4>0. changed = TRUE
        <5>1. answer.status \notin {0, 503} /\ (answer.status = 200) = TRUE
          BY <3>2
        <5>2. MayHaveChanged(answer) = {TRUE}
          BY <5>1 DEF MayHaveChanged
        <5>. QED
          BY <2>2, <5>2
      <4>1. told' = Done /\ blamed' = blamed
        BY <2>2, <3>2 DEF AttemptFsp
      <4>2. told' # NoCall /\ ~Is429Error(told')
        BY <4>1, ResultsAreNoCalls DEF Done, Is429Error
      <4>3. effects' = IF ~fspCall.changes THEN effects
                       ELSE IF fspCall.verb = "post" THEN effects + 1 ELSE 1
        BY <2>2, <4>0 DEF AttemptFsp
      <4>. QED
        BY <3>1, <4>1, <4>2, <4>3 DEF FspServicesInv, CallsAreAccounted
    <3>3. CASE answer.status # 200
      <4>1. told' = told \/ told' = BuildError(Thrown(answer))
        BY <2>2, <3>3 DEF AttemptFsp
      <4>2. told' # NoCall => /\ ~told'.success
                              /\ Is429Error(told') => "429" \in heard'.body.codes
        BY <3>1, <4>1, RateLimitsAreNamed DEF BuildError
      <4>3. /\ effects' \in Nat /\ blamed' \in Nat /\ effects' <= blamed' + 1
            /\ told' = NoCall =>
                 effects' <= blamed' \/ (effects' <= 1 /\ fspCall.verb # "post")
        <5>1. CASE changed = FALSE
          BY <2>2, <3>1, <5>1 DEF AttemptFsp, FspServicesInv, CallsAreAccounted
        <5>2. CASE changed = TRUE /\ answer.status = 503
          BY <2>2, <3>1, <5>2 DEF AttemptFsp, FspServicesInv, CallsAreAccounted
        <5>3. CASE changed = TRUE /\ answer.status = 0
          <6>1. told' # NoCall
            BY <2>2, <5>3, ResultsAreNoCalls DEF AttemptFsp, BuildError, Retried
          <6>. QED
            BY <2>2, <3>1, <5>3, <6>1 DEF AttemptFsp, FspServicesInv, CallsAreAccounted
        <5>4. changed \in BOOLEAN /\ (changed = TRUE => answer.status \in {0, 503})
          BY <3>1, <3>3, ZenonT(60) DEF MayHaveChanged
        <5>. QED
          BY <5>1, <5>2, <5>3, <5>4, ZenonT(60)
      <4>. QED
        BY <3>1, <4>2, <4>3, ZenonT(60) DEF FspServicesInv, CallsAreAccounted
    <3>. QED
      BY <3>2, <3>3
  <2>3. CASE UNCHANGED fspVars
    BY <2>3 DEF fspVars, FspServicesInv, CallsAreAccounted, Is429Error
  <2>. QED
    BY <2>1, <2>2, <2>3 DEF FspServicesNext
<1>. QED
  BY <1>1, <1>2, PTL DEF FspServicesSpec

\* For any method of any service: a write that was carried out goes out again
\* only when FSP has called the attempt its own failure.
THEOREM CallsAccounted == FspServicesSpec => []CallsAreAccounted
<1>1. FspServicesInv => CallsAreAccounted
  BY DEF FspServicesInv
<1>. QED
  BY <1>1, CallsStaySound, PTL

(***************************************************************************)
(* The dashboard                                                           *)
(***************************************************************************)

Reading == [current : SUBSET Booking, previous : SUBSET Booking, trend : SUBSET Booking,
            at : Int]
Figures == [Figure -> Reading]

\* Each figure was read at or after "from", or stands for a failed query.
ReadSince(figures, from) ==
  \A f \in Figure : figures[f].at = -1 \/
                      (from <= figures[f].at /\ figures[f].at <= dashClock)

DashTyped ==
  /\ dashClock \in Nat /\ shown \in Int
  /\ cache \in [figures : Figures, at : Int]
  /\ viewer \in [Viewer -> [pc : {"away", "reading", "waiting"}, begun : Nat,
                            figures : Figures]]

\* A computation under way is within its time and has read only since it began.
RunsAreShort ==
  \A v \in Viewer : viewer[v].pc # "away" =>
    /\ viewer[v].begun <= dashClock /\ dashClock <= viewer[v].begun + MaxRun
    /\ ReadSince(viewer[v].figures, viewer[v].begun)

\* What is stored was read at most a computation's time before, whichever of
\* the requests that missed the cache together stored it.
CacheIsOfARun ==
  cache.at # -1 => cache.at <= dashClock /\ ReadSince(cache.figures, cache.at - MaxRun)

DashIInv == DashTyped /\ RunsAreShort /\ CacheIsOfARun /\ FiguresAreFresh

LEMMA FiveHaveAMaximum ==
  ASSUME NEW x1 \in Int, NEW x2 \in Int, NEW x3 \in Int, NEW x4 \in Int, NEW x5 \in Int
  PROVE  \E m \in {x1, x2, x3, x4, x5} : x1 <= m /\ x2 <= m /\ x3 <= m /\ x4 <= m /\ x5 <= m
OBVIOUS

\* The age of the oldest figure is one of the ages there are.
LEMMA OldestAgeIsBounded ==
  ASSUME dashClock \in Nat, NEW figures \in Figures, NEW from \in Int, from <= dashClock,
         ReadSince(figures, from)
  PROVE  OldestAge(figures) \in Nat /\ OldestAge(figures) <= dashClock - from
<1>. DEFINE aged == {g \in DOMAIN figures : figures[g].at # -1}
            ages == {0} \cup {dashClock - figures[f].at : f \in aged}
            age(f) == IF figures[f].at = -1 THEN 0 ELSE dashClock - figures[f].at
<1>1. \A f \in Figure : figures[f].at \in Int /\ age(f) \in Int /\ age(f) >= 0
                          /\ (f \in aged => age(f) = dashClock - figures[f].at)
                          /\ (f \notin aged => age(f) = 0) /\ age(f) <= dashClock - from
  BY DEF Figures, Reading, ReadSince
<1>2. aged \subseteq Figure
  BY DEF Figures
<1>3. \A f \in Figure : age(f) \in ages
  BY <1>1, <1>2
<1>4. ages \subseteq {0} \cup {age(f) : f \in Figure}
  BY <1>1, <1>2
<1>. HIDE DEF aged, ages, age
<1>5. PICK m \in {age("cUtil"), age("acceptance"), age("timeToFill"), age("queue"),
                  age("weekly")} :
        /\ age("cUtil") <= m /\ age("acceptance") <= m /\ age("timeToFill") <= m
        /\ age("queue") <= m /\ age("weekly") <= m
  BY <1>1, FiveHaveAMaximum DEF Figure
<1>6. \E f \in Figure : m = age(f)
  BY <1>5 DEF Figure
<1>7. \A f \in Figure : age(f) <= m
  BY <1>5 DEF Figure
<1>8. m \in ages /\ \A b \in ages : b <= m
  <2>1. m \in ages /\ m \in Int /\ m >= 0
    BY <1>1, <1>3, <1>6
  <2>. QED
    BY <1>1, <1>4, <1>7, <2>1
<1>9. OldestAge(figures) = CHOOSE a \in ages : \A b \in ages : b <= a
  BY DEF OldestAge, aged, ages
<1>10. OldestAge(figures) \in ages
  BY <1>8, <1>9
<1>11. \A b \in ages : b \in Nat /\ b <= dashClock - from
  BY <1>1, <1>4
<1>. QED
  BY <1>10, <1>11

LEMMA QueriesFindBookings ==
  /\ \A t : \A f \in DOMAIN FirstQueries(t) : FirstQueries(t)[f] \in SUBSET Booking
  /\ \A t : \A f \in DOMAIN SecondQueries(t) : SecondQueries(t)[f] \in SUBSET Booking
  /\ \A f \in DOMAIN TrendQueries : TrendQueries[f] \in SUBSET Booking
  /\ UtilisationQuery \in SUBSET Booking
<1>1. \A ss : WithStatus(ss) \in SUBSET Booking
  BY DEF WithStatus
<1>2. \A ss, from, to : Resolved(ss, from, to) \in SUBSET Booking
  BY DEF WithStatus, Resolved
<1>3. \A ss, from, to : Made(ss, from, to) \in SUBSET Booking
  BY DEF WithStatus, Made
<1>4. \A ss : Trend(ss) \in SUBSET Booking
  BY <1>2 DEF Trend
<1>5. ASSUME NEW t, NEW f \in DOMAIN FirstQueries(t)
      PROVE  FirstQueries(t)[f] \in SUBSET Booking
  BY <1>1, <1>2, <1>3, <1>5 DEF FirstQueries
<1>6. ASSUME NEW t, NEW f \in DOMAIN SecondQueries(t)
      PROVE  SecondQueries(t)[f] \in SUBSET Booking
  BY <1>1, <1>2, <1>3, <1>6 DEF SecondQueries
<1>7. ASSUME NEW f \in DOMAIN TrendQueries
      PROVE  TrendQueries[f] \in SUBSET Booking
  BY <1>4, <1>7 DEF TrendQueries
<1>8. UtilisationQuery \in SUBSET Booking
  BY <1>3 DEF UtilisationQuery
<1>. QED
  BY <1>5, <1>6, <1>7, <1>8

\* What the queries make of a figure.
AsRead(found, t) == [Unread EXCEPT !.current = found, !.at = t]
WithPast(r, before, days) == [r EXCEPT !.previous = before, !.trend = days]

LEMMA ReadingsOf ==
  /\ Unread \in Reading /\ Unread.at = -1
  /\ \A found \in SUBSET Booking, t \in Int :
       AsRead(found, t) \in Reading /\ AsRead(found, t).at = t
  /\ \A r \in Reading, before \in SUBSET Booking, days \in SUBSET Booking :
       WithPast(r, before, days) \in Reading /\ WithPast(r, before, days).at = r.at
<1>1. Unread \in Reading /\ Unread.at = -1
  BY DEF Unread, Reading
<1>2. ASSUME NEW r \in Reading, NEW found \in SUBSET Booking, NEW t \in Int
      PROVE  /\ [r EXCEPT !.current = found, !.at = t] \in Reading
             /\ [r EXCEPT !.current = found, !.at = t].at = t
  BY DEF Reading
<1>3. ASSUME NEW found \in SUBSET Booking, NEW t \in Int
      PROVE  AsRead(found, t) \in Reading /\ AsRead(found, t).at = t
  BY <1>1, <1>2, ZenonT(60) DEF AsRead
<1>4. ASSUME NEW r \in Reading, NEW before \in SUBSET Booking, NEW days \in SUBSET Booking
      PROVE  WithPast(r, before, days) \in Reading /\ WithPast(r, before, days).at = r.at
  BY DEF Reading, WithPast
<1>. QED
  BY <1>1, <1>3, <1>4

\* Figures that are each unread, read now, or read as far as they were.
LEMMA ReadOnSince ==
  ASSUME dashClock \in Nat, NEW from \in Int, from <= dashClock,
         NEW old \in Figures, ReadSince(old, from), NEW figures \in Figures,
         \A f \in Figure : figures[f].at \in {-1, dashClock, old[f].at}
  PROVE  ReadSince(figures, from)
BY DEF ReadSince, Figures, Reading

\* The invariant of the dashboard holds.
LEMMA DashboardStaysSound == DashSpec => []DashIInv
<1>. USE DashAssumption
<1>1. DashInit => DashIInv
  <2>. SUFFICES ASSUME DashInit
                PROVE  DashIInv
    OBVIOUS
  <2>1. NoFigures \in Figures
    BY DEF NoFigures, Figures, Reading, Unread
  <2>2. DashTyped
    BY <2>1 DEF DashInit, DashTyped, Nothing, Away
  <2>3. RunsAreShort /\ CacheIsOfARun /\ FiguresAreFresh
    BY DEF DashInit, RunsAreShort, CacheIsOfARun, FiguresAreFresh, Nothing, Away
  <2>. QED
    BY <2>2, <2>3 DEF DashIInv
<1>2. DashIInv /\ [DashNext]_dashVars => DashIInv'
  <2>. SUFFICES ASSUME DashIInv, [DashNext]_dashVars
                PROVE  DashIInv'
    OBVIOUS
  <2>0. DashTyped /\ RunsAreShort /\ CacheIsOfARun /\ FiguresAreFresh
    BY DEF DashIInv
  <2>1. CASE UNCHANGED <<dashClock, cache, viewer, shown>>
    BY <2>0, <2>1
    DEF DashIInv, DashTyped, RunsAreShort, CacheIsOfARun, FiguresAreFresh, ReadSince
  <2>2. CASE DashTick
    <3>1. /\ dashClock' = dashClock + 1 /\ UNCHANGED <<cache, viewer, shown>>
          /\ \A v \in Viewer : viewer[v].pc # "away" =>
               dashClock + 1 <= viewer[v].begun + MaxRun
      BY <2>0, <2>2 DEF DashTick, DashTyped
    <3>2. DashTyped'
      BY <2>0, <3>1 DEF DashTyped
    <3>3. \A figures \in Figures, from \in Int :
            ReadSince(figures, from) => ReadSince(figures, from)'
      BY <2>0, <3>1 DEF DashTyped, ReadSince, Figures, Reading
    <3>4. RunsAreShort'
      BY <2>0, <3>1, <3>3 DEF RunsAreShort, DashTyped
    <3>5. CacheIsOfARun'
      BY <2>0, <3>1, <3>3 DEF CacheIsOfARun, DashTyped
    <3>. QED
      BY <2>0, <3>1, <3>2, <3>4, <3>5 DEF DashIInv, FiguresAreFresh
  <2>3. ASSUME NEW v \in Viewer, CacheHit(v)
        PROVE  DashIInv'
    <3>1. /\ cache.at # -1 /\ dashClock - cache.at < Life
          /\ shown' = OldestAge(cache.figures)
          /\ UNCHANGED <<dashClock, cache, viewer>>
      BY <2>3 DEF CacheHit, AfterHit
    <3>2. /\ cache.figures \in Figures /\ cache.at \in Int /\ dashClock \in Nat
          /\ ReadSince(cache.figures, cache.at - MaxRun) /\ cache.at - MaxRun <= dashClock
      BY <2>0, <3>1 DEF DashTyped, CacheIsOfARun
    <3>3. shown' \in Int /\ shown' <= dashClock - (cache.at - MaxRun)
      BY <3>1, <3>2, OldestAgeIsBounded
    <3>. QED
      BY <2>0, <3>1, <3>2, <3>3
      DEF DashIInv, DashTyped, RunsAreShort, CacheIsOfARun, FiguresAreFresh, ReadSince
  <2>4. ASSUME NEW v \in Viewer, CacheMiss(v)
        PROVE  DashIInv'
    <3>1. PICK figures \in Figures :
            /\ ReadSince(figures, dashClock)
            /\ viewer' = [viewer EXCEPT ![v] =
                 [pc |-> "reading", begun |-> dashClock, figures |-> figures]]
      <4>. DEFINE q == FirstQueries(dashClock)
                  read(f) == IF f \in DOMAIN q THEN AsRead(q[f], dashClock) ELSE Unread
                  figures == [f \in Figure |-> read(f)]
      <4>1. dashClock \in Nat
        BY <2>0 DEF DashTyped
      <4>2. ASSUME NEW f \in Figure
            PROVE  read(f) \in Reading /\ read(f).at \in {-1, dashClock}
        BY <4>1, QueriesFindBookings, ReadingsOf
      <4>3. viewer' = [viewer EXCEPT ![v] =
              [pc |-> "reading", begun |-> dashClock, figures |-> figures]]
        BY <2>4 DEF CacheMiss, AsRead
      <4>. HIDE DEF read
      <4>4. figures \in Figures
        BY <4>2 DEF Figures
      <4>5. ReadSince(figures, dashClock)
        BY <4>1, <4>2 DEF ReadSince
      <4>. QED
        BY <4>3, <4>4, <4>5
    <3>2. UNCHANGED <<dashClock, cache, shown>>
      BY <2>4 DEF CacheMiss
    <3>3. DashTyped'
      BY <2>0, <3>1, <3>2 DEF DashTyped
    <3>4. RunsAreShort'
      BY <2>0, <3>1, <3>2 DEF DashTyped, RunsAreShort, ReadSince
    <3>. QED
      BY <2>0, <3>2, <3>3, <3>4 DEF DashIInv, CacheIsOfARun, FiguresAreFresh, ReadSince
  <2>5. ASSUME NEW v \in Viewer, ReadOn(v)
        PROVE  DashIInv'
    <3>1. /\ viewer[v].pc = "reading" /\ UNCHANGED <<dashClock, cache, shown>>
          /\ dashClock \in Nat /\ viewer[v].figures \in Figures /\ viewer[v].begun \in Nat
          /\ viewer[v].begun <= dashClock /\ ReadSince(viewer[v].figures, viewer[v].begun)
      BY <2>0, <2>5 DEF ReadOn, DashTyped, RunsAreShort
    <3>2. PICK figures \in Figures :
            /\ ReadSince(figures, viewer[v].begun)
            /\ viewer' = [viewer EXCEPT ![v] =
                 [viewer[v] EXCEPT !.pc = "waiting", !.figures = figures]]
      <4>. DEFINE u == viewer[v].figures
                  q == SecondQueries(viewer[v].begun)
                  Later(f) == IF f \in DOMAIN q THEN q[f] ELSE {}
                  Days(f) ==
                    IF f \in DOMAIN TrendQueries /\ (f = "acceptance" \/ u[f].current # {})
                      THEN TrendQueries[f] ELSE {}
                  read(failed, f) ==
                    IF f \in failed THEN Unread
                    ELSE IF f = "cUtil" THEN AsRead(UtilisationQuery, dashClock)
                    ELSE WithPast(u[f], Later(f), Days(f))
      <4>1. PICK failed \in {{}, {"cUtil"}, Figure} :
              viewer' = [viewer EXCEPT ![v].pc = "waiting",
                           ![v].figures = [f \in Figure |-> read(failed, f)]]
        BY <2>5 DEF ReadOn, AsRead, WithPast
      <4>2. ASSUME NEW f \in Figure
            PROVE  read(failed, f) \in Reading
                     /\ read(failed, f).at \in {-1, dashClock, u[f].at}
        <5>1. Later(f) \in SUBSET Booking /\ Days(f) \in SUBSET Booking
          BY QueriesFindBookings
        <5>2. u[f] \in Reading
          BY <3>1 DEF Figures
        <5>. HIDE DEF Later, Days
        <5>. QED
          BY <3>1, <5>1, <5>2, ReadingsOf, QueriesFindBookings
      <4>. HIDE DEF read
      <4>. DEFINE figures == [f \in Figure |-> read(failed, f)]
      <4>3. figures \in Figures
        BY <4>2 DEF Figures
      <4>4. \A f \in Figure : figures[f].at \in {-1, dashClock, u[f].at}
        BY <4>2
      <4>5. viewer' = [viewer EXCEPT ![v] =
              [viewer[v] EXCEPT !.pc = "waiting", !.figures = figures]]
        BY <2>0, <4>1 DEF DashTyped
      <4>. HIDE DEF figures, u
      <4>6. ReadSince(figures, viewer[v].begun)
        <5>1. /\ u \in Figures /\ ReadSince(u, viewer[v].begun)
              /\ dashClock \in Nat /\ viewer[v].begun \in Int
              /\ viewer[v].begun <= dashClock
          BY <3>1 DEF u
        <5>. QED
          BY <4>3, <4>4, <5>1, ReadOnSince
      <4>. QED
        BY <4>3, <4>5, <4>6
    <3>3. DashTyped'
      BY <2>0, <3>1, <3>2 DEF DashTyped
    <3>4. RunsAreShort'
      BY <2>0, <3>1, <3>2 DEF DashTyped, RunsAreShort, ReadSince
    <3>. QED
      BY <2>0, <3>1, <3>3, <3>4 DEF DashIInv, CacheIsOfARun, FiguresAreFresh, ReadSince
  <2>6. ASSUME NEW v \in Viewer, StoreAndServe(v)
        PROVE  DashIInv'
    <3>1. /\ viewer[v].pc = "waiting" /\ dashClock' = dashClock
          /\ cache' = [figures |-> viewer[v].figures, at |-> dashClock]
          /\ shown' = OldestAge(viewer[v].figures)
          /\ viewer' = [viewer EXCEPT ![v] = Away]
      BY <2>6 DEF StoreAndServe
    <3>2. /\ dashClock \in Nat /\ viewer[v].figures \in Figures /\ viewer[v].begun \in Nat
          /\ viewer[v].begun <= dashClock /\ dashClock <= viewer[v].begun + MaxRun
          /\ ReadSince(viewer[v].figures, viewer[v].begun)
      BY <2>0, <3>1 DEF DashTyped, RunsAreShort
    <3>3. shown' \in Int /\ shown' <= dashClock - viewer[v].begun
      BY <3>1, <3>2, OldestAgeIsBounded
    <3>4. Away \in [pc : {"away", "reading", "waiting"}, begun : Nat, figures : Figures]
      BY DEF Away, NoFigures, Figures, Reading, Unread
    <3>5. DashTyped'
      BY <2>0, <3>1, <3>2, <3>3, <3>4 DEF DashTyped
    <3>6. RunsAreShort'
      BY <2>0, <3>1 DEF DashTyped, RunsAreShort, ReadSince, Away
    <3>7. ReadSince(viewer[v].figures, dashClock - MaxRun)
      BY <3>2 DEF ReadSince, Figures, Reading
    <3>8. CacheIsOfARun'
      BY <3>1, <3>2, <3>7 DEF CacheIsOfARun, ReadSince
    <3>. QED
      BY <3>2, <3>3, <3>5, <3>6, <3>8 DEF DashIInv, FiguresAreFresh
  <2>7. ASSUME NEW b \in Booking, NEW s \in {"APPROVED", "REJECTED"},
               BookingMade(b) \/ BookingResolved(b, s)
        PROVE  UNCHANGED <<dashClock, cache, viewer, shown>>
    BY <2>7 DEF BookingMade, BookingResolved
  <2>8. CASE UNCHANGED dashVars
    BY <2>1, <2>8 DEF dashVars
  <2>. QED
    BY <2>1, <2>2, <2>3, <2>4, <2>5, <2>6, <2>7, <2>8 DEF DashNext
<1>. QED
  BY <1>1, <1>2, PTL DEF DashSpec

\* Any figure that is shown was read less than the cache's life and one
\* computation ago, also when requests missed the cache together and the one
\* that read first stored last.
THEOREM FiguresStayFresh == DashSpec => []FiguresAreFresh
<1>. USE DashAssumption
<1>1. DashIInv => FiguresAreFresh
  BY DEF DashIInv
<1>. QED
  BY <1>1, DashboardStaysSound, PTL

(***************************************************************************)
(* The operator's settings                                                 *)
(***************************************************************************)

Column == [Field -> AllValues \cup {Null}]
OperatorRow == [Section -> {Null} \cup Column]
Merging == [pc : {"merge"}, section : Section, req : Column, current : Column,
            overtaken : BOOLEAN]

FormTyped ==
  form \in [config : [Section -> Column], error : BOOLEAN, saving : SUBSET Section]

\* An update about to be written is of a row that is there, and unless another
\* one has written its section since, what it has read is what readers are
\* told now.
UpdateSound(p) ==
  /\ put[p].pc = "merge" =>
       /\ put[p] \in Merging /\ operator # Null
       /\ ~put[p].overtaken => put[p].current = Told(put[p].section)
  /\ put[p].pc = "done" => put[p].config \in Column

SettingsInv ==
  /\ operator = Null \/ operator \in OperatorRow
  /\ FormTyped
  /\ put = [p \in Put |-> put[p]]
  /\ \A p \in Put : UpdateSound(p)

LEMMA DefaultsAreAColumn ==
  /\ Defaults \in Column
  /\ \A f \in Field : Value(f) \subseteq AllValues
  /\ \A column : Parse(column) = IF column = Null THEN Defaults
       ELSE [f \in Field |-> IF column[f] = Null THEN Defaults[f] ELSE column[f]]
<1>1. \A f \in Field : Value(f) \subseteq AllValues
  BY DEF AllValues
<1>2. \A f \in Field \ MapEntry : "default" \in Value(f)
  BY DEF Value
<1>3. \A f \in Field : (IF f \in MapEntry THEN Null ELSE "default") \in AllValues \cup {Null}
  BY <1>1, <1>2
<1>. QED
  BY <1>1, <1>3 DEF Defaults, Column, Parse

LEMMA ToldIsAColumn ==
  ASSUME operator \in OperatorRow, NEW s \in Section
  PROVE  Told(s) \in Column
<1>1. operator[s] \in {Null} \cup Column
  BY DEF OperatorRow
<1>. QED
  BY <1>1, DefaultsAreAColumn DEF Told, Column

LEMMA MergedIsAColumn ==
  ASSUME NEW u \in Merging
  PROVE  /\ Merged(u) \in Column /\ Merged(u) # Null
         /\ \A f \in Field : Merged(u)[f] = IF u.req[f] # Null THEN u.req[f] ELSE u.current[f]
<1>1. u.req \in Column /\ u.current \in Column
  BY DEF Merging
<1>2. Merged(u) \in Column
  BY <1>1 DEF Merged, Column
<1>. QED
  BY <1>2, SettingsAssumption DEF Merged, Column

\* Readers of what an update that read the current column has written are told
\* what it names and, of the rest, what they were told before.
LEMMA MergeIsExact ==
  ASSUME NEW s \in Section, operator \in OperatorRow, NEW u \in Merging, u.section = s,
         u.current = Told(s), operator' = [operator EXCEPT ![s] = Merged(u)],
         NEW t \in Section, NEW f \in Field
  PROVE  Told(t)'[f] = IF t = s /\ u.req[f] # Null THEN u.req[f] ELSE Told(t)[f]
<1>1. CASE t = s
  <2>1. operator'[t] = Merged(u)
    BY <1>1 DEF OperatorRow
  <2>2. Told(t)' = [g \in Field |-> IF Merged(u)[g] = Null THEN Defaults[g] ELSE Merged(u)[g]]
    BY <2>1, DefaultsAreAColumn, MergedIsAColumn DEF Told
  <2>3. Told(s)[f] = Null => Defaults[f] = Null
    <3>1. CASE operator[s] = Null
      BY <3>1, DefaultsAreAColumn DEF Told
    <3>2. CASE operator[s] # Null
      BY <3>2, DefaultsAreAColumn DEF Told
    <3>. QED
      BY <3>1, <3>2
  <2>4. Merged(u)[f] = IF u.req[f] # Null THEN u.req[f] ELSE Told(s)[f]
    BY MergedIsAColumn
  <2>. QED
    BY <1>1, <2>2, <2>3, <2>4
<1>2. CASE t # s
  <2>1. operator'[t] = operator[t]
    BY <1>2 DEF OperatorRow
  <2>. QED
    BY <1>2, <2>1 DEF Told
<1>. QED
  BY <1>1, <1>2

NoneWritten == \A p \in Put : put[p].pc = "merge" => put'[p].pc # "done"

\* A step of one update that leaves the row alone.
LEMMA OneUpdateMoves ==
  ASSUME SettingsInv, NEW p \in Put, NEW u, put' = [put EXCEPT ![p] = u],
         operator' = operator, FormTyped', u.pc # "done",
         u.pc = "merge" => u \in Merging /\ operator # Null /\ u.current = Told(u.section)
  PROVE  SettingsInv' /\ NoneWritten
<1>1. put'[p] = u /\ \A q \in Put \ {p} : put'[q] = put[q]
  BY DEF SettingsInv
<1>2. put' = [q \in Put |-> put'[q]]
  BY DEF SettingsInv
<1>3. \A s : Told(s)' = Told(s)
  BY DEF Told
<1>4. ASSUME NEW q \in Put
      PROVE  UpdateSound(q)'
  <2>1. CASE q = p
    BY <1>1, <1>3, <2>1 DEF UpdateSound
  <2>2. CASE q # p
    BY <1>1, <1>3, <2>2 DEF UpdateSound, SettingsInv
  <2>. QED
    BY <2>1, <2>2
<1>5. NoneWritten
  BY <1>1 DEF NoneWritten
<1>. QED
  BY <1>2, <1>4, <1>5 DEF SettingsInv

\* A step that leaves the updates alone.
LEMMA NoUpdateMoves ==
  ASSUME SettingsInv, put' = put, FormTyped',
         operator' = operator \/ (operator = Null /\ operator' \in OperatorRow)
  PROVE  SettingsInv' /\ NoneWritten
<1>1. CASE operator' = operator
  <2>1. \A q \in Put : UpdateSound(q)'
    BY <1>1 DEF SettingsInv, UpdateSound, Told
  <2>. QED
    BY <1>1, <2>1 DEF SettingsInv, NoneWritten
<1>2. CASE operator = Null /\ operator' \in OperatorRow
  <2>1. \A q \in Put : put[q].pc # "merge" /\ UpdateSound(q)'
    BY <1>2 DEF SettingsInv, UpdateSound
  <2>2. put' = [q \in Put |-> put'[q]]
    BY DEF SettingsInv
  <2>. QED
    BY <1>2, <2>1, <2>2 DEF SettingsInv, NoneWritten
<1>. QED
  BY <1>1, <1>2

LEMMA BeginsSound ==
  ASSUME SettingsInv, NEW p \in Put, NEW s \in Section, NEW req \in Column,
         BeginUpdate(p, s, req), operator' = operator, FormTyped'
  PROVE  SettingsInv' /\ NoneWritten
<1>1. CASE RefusedBy(req) \/ operator = Null
  <2>. DEFINE u == [pc |-> "failed", section |-> s]
  <2>1. put' = [put EXCEPT ![p] = u] /\ u.pc = "failed"
    BY <1>1 DEF BeginUpdate
  <2>. HIDE DEF u
  <2>. QED
    BY <2>1, OneUpdateMoves
<1>2. CASE ~(RefusedBy(req) \/ operator = Null)
  <2>. DEFINE u == [pc |-> "merge", section |-> s, req |-> req,
                    current |-> Told(s), overtaken |-> FALSE]
  <2>1. put' = [put EXCEPT ![p] = u]
    BY <1>2 DEF BeginUpdate
  <2>2. operator \in OperatorRow
    BY <1>2 DEF SettingsInv
  <2>3. u \in Merging
    BY <2>2, ToldIsAColumn DEF Merging
  <2>4. u.pc = "merge" /\ u.current = Told(u.section)
    OBVIOUS
  <2>. HIDE DEF u
  <2>. QED
    BY <1>2, <2>1, <2>3, <2>4, OneUpdateMoves
<1>. QED
  BY <1>1, <1>2

LEMMA WritesSound ==
  ASSUME SettingsInv, NEW p \in Put, WriteUpdate(p)
  PROVE  /\ SettingsInv'
         /\ \A q \in Put : put[q].pc = "merge" /\ put'[q].pc = "done" => q = p
         /\ put[p] \in Merging /\ operator \in OperatorRow
         /\ operator' = [operator EXCEPT ![put[p].section] = Merged(put[p])]
<1>. DEFINE u == put[p]
<1>1. /\ u \in Merging /\ u.section \in Section /\ operator \in OperatorRow
      /\ form' = form /\ operator' = [operator EXCEPT ![u.section] = Merged(u)]
      /\ put' = [q \in Put |->
           IF q = p THEN [pc |-> "done", section |-> u.section, config |-> Merged(u)]
           ELSE IF put[q].pc = "merge" /\ put[q].section = u.section
             THEN [put[q] EXCEPT !.overtaken = TRUE] ELSE put[q]]
  BY DEF WriteUpdate, SettingsInv, UpdateSound, Merging
<1>2. Merged(u) \in Column
  BY <1>1, MergedIsAColumn
<1>3. operator' \in OperatorRow /\ operator' # Null
  BY <1>1, <1>2, SettingsAssumption DEF OperatorRow, Column
<1>4. ASSUME NEW q \in Put
      PROVE  UpdateSound(q)' /\ (put[q].pc = "merge" /\ put'[q].pc = "done" => q = p)
  <2>1. CASE q = p
    <3>1. put'[q] = [pc |-> "done", section |-> u.section, config |-> Merged(u)]
      BY <1>1, <2>1
    <3>. QED
      BY <1>2, <2>1, <3>1 DEF UpdateSound
  <2>2. CASE q # p /\ put[q].pc = "merge" /\ put[q].section = u.section
    <3>1. put'[q] = [put[q] EXCEPT !.overtaken = TRUE] /\ put[q] \in Merging
      BY <1>1, <2>2 DEF SettingsInv, UpdateSound
    <3>2. put'[q] \in Merging /\ put'[q].overtaken /\ put'[q].pc = "merge"
      BY <3>1 DEF Merging
    <3>. QED
      BY <1>3, <3>2 DEF UpdateSound
  <2>3. CASE q # p /\ put[q].pc = "merge" /\ put[q].section # u.section
    <3>1. put'[q] = put[q] /\ put[q] \in Merging /\ put[q].section \in Section
      BY <1>1, <2>3 DEF SettingsInv, UpdateSound, Merging
    <3>2. operator'[put[q].section] = operator[put[q].section]
      BY <1>1, <2>3, <3>1 DEF OperatorRow
    <3>. QED
      BY <1>3, <2>3, <3>1, <3>2 DEF SettingsInv, UpdateSound, Told
  <2>4. CASE q # p /\ put[q].pc # "merge"
    BY <1>1, <2>4 DEF SettingsInv, UpdateSound
  <2>. QED
    BY <2>1, <2>2, <2>3, <2>4
<1>5. put' = [q \in Put |-> put'[q]]
  BY <1>1
<1>6. FormTyped'
  BY <1>1 DEF SettingsInv, FormTyped
<1>. QED
  BY <1>1, <1>3, <1>4, <1>5, <1>6 DEF SettingsInv

LEMMA SettingsStart ==
  ASSUME SettingsInit
  PROVE  SettingsInv
<1>1. FormTyped
  BY DefaultsAreAColumn DEF SettingsInit, FormTyped
<1>2. \A p \in Put : put[p].pc = "idle"
  BY DEF SettingsInit, NoUpdate
<1>3. \A p \in Put : UpdateSound(p)
  BY <1>2 DEF UpdateSound
<1>. QED
  BY <1>1, <1>3 DEF SettingsInit, SettingsInv

\* What the page does to its forms.
LEMMA PageSteps ==
  ASSUME SettingsInv, NEW s \in Section, SaveForm(s) \/ SaveAnswered(s)
  PROVE  SettingsInv' /\ NoneWritten
<1>0. /\ s \in Put /\ operator' = operator
      /\ form \in [config : [Section -> Column], error : BOOLEAN, saving : SUBSET Section]
  BY DEF SaveForm, SaveAnswered, Put, SettingsInv, FormTyped
<1>1. CASE SaveForm(s) /\ RefusedBy(form.config[s])
  <2>1. put' = put /\ form' = [form EXCEPT !.error = TRUE]
    BY <1>1 DEF SaveForm
  <2>2. FormTyped'
    BY <1>0, <2>1 DEF FormTyped
  <2>. QED
    BY <1>0, <2>1, <2>2, NoUpdateMoves
<1>2. CASE SaveForm(s) /\ ~RefusedBy(form.config[s])
  <2>1. BeginUpdate(s, s, form.config[s]) /\ form' = [form EXCEPT !.saving = @ \cup {s}]
    BY <1>2 DEF SaveForm
  <2>2. FormTyped' /\ form.config[s] \in Column
    BY <1>0, <2>1 DEF FormTyped
  <2>. QED
    BY <1>0, <2>1, <2>2, BeginsSound
<1>3. CASE SaveAnswered(s)
  <2>1. put' = [put EXCEPT ![s] = NoUpdate] /\ NoUpdate.pc = "idle"
    BY <1>3 DEF SaveAnswered, NoUpdate
  <2>2. FormTyped'
    <3>1. CASE /\ put[s].pc = "done"
               /\ form' = [form EXCEPT !.config[s] = put[s].config, !.saving = @ \ {s}]
      <4>1. put[s].config \in Column
        BY <1>0, <3>1 DEF SettingsInv, UpdateSound
      <4>2. [form.config EXCEPT ![s] = put[s].config] \in [Section -> Column]
        BY <1>0, <4>1
      <4>3. form' = [form EXCEPT !.config = [form.config EXCEPT ![s] = put[s].config],
                                 !.saving = form.saving \ {s}]
        BY <1>0, <3>1
      <4>. QED
        BY <1>0, <4>2, <4>3 DEF FormTyped
    <3>2. CASE form' = [form EXCEPT !.error = TRUE, !.saving = @ \ {s}]
      BY <1>0, <3>2 DEF FormTyped
    <3>. QED
      BY <1>3, <3>1, <3>2 DEF SaveAnswered
  <2>. QED
    BY <1>0, <2>1, <2>2, OneUpdateMoves
<1>. QED
  BY <1>1, <1>2, <1>3

LEMMA EditSound ==
  ASSUME SettingsInv, NEW s \in Section, NEW f \in Field, NEW x \in Value(f), EditForm(s, f, x)
  PROVE  SettingsInv' /\ NoneWritten
<1>1. /\ put' = put /\ operator' = operator /\ form' = [form EXCEPT !.config[s][f] = x]
      /\ form \in [config : [Section -> Column], error : BOOLEAN, saving : SUBSET Section]
      /\ x \in AllValues
  BY DefaultsAreAColumn DEF EditForm, SettingsInv, FormTyped
<1>2. [form.config[s] EXCEPT ![f] = x] \in Column
  BY <1>1 DEF Column
<1>3. [form.config EXCEPT ![s] = [form.config[s] EXCEPT ![f] = x]] \in [Section -> Column]
  BY <1>1, <1>2
<1>4. form' = [form EXCEPT !.config =
                 [form.config EXCEPT ![s] = [form.config[s] EXCEPT ![f] = x]]]
  BY <1>1
<1>5. FormTyped'
  BY <1>1, <1>3, <1>4 DEF FormTyped
<1>. QED
  BY <1>1, <1>5, NoUpdateMoves

\* The invariant of the updates holds, and with it what they write is exact.
LEMMA SettingsStaySound == SettingsSpec => []SettingsInv /\ LoneUpdateIsExact
<1>. DEFINE Exact ==
       \A p \in Put :
         put[p].pc = "merge" /\ put'[p].pc = "done" /\ ~put[p].overtaken =>
           \A s \in Section, f \in Field :
             Told(s)'[f] = (IF s = put[p].section /\ put[p].req[f] # Null
                              THEN put[p].req[f] ELSE Told(s)[f])
<1>1. SettingsInit => SettingsInv
  BY SettingsStart
<1>2. SettingsInv /\ [SettingsNext]_settingsVars => SettingsInv' /\ [Exact]_settingsVars
  <2>. SUFFICES ASSUME SettingsInv, SettingsNext \/ UNCHANGED settingsVars
                PROVE  SettingsInv' /\ Exact
    OBVIOUS
  <2>0. NoneWritten => Exact
    BY DEF NoneWritten
  <2>1. CASE Bootstrap
    <3>1. /\ put' = put /\ form' = form
          /\ operator' = operator \/ (operator = Null /\ operator' \in OperatorRow)
      BY <2>1 DEF Bootstrap, OperatorRow
    <3>2. FormTyped'
      BY <3>1 DEF SettingsInv, FormTyped
    <3>. QED
      BY <2>0, <3>1, <3>2, NoUpdateMoves
  <2>2. ASSUME NEW p \in Put, UpdateByOther(p)
        PROVE  SettingsInv' /\ Exact
    <3>1. PICK s \in Section, req \in Requests : BeginUpdate(p, s, req)
      BY <2>2 DEF UpdateByOther
    <3>2. req \in Column
      BY DEF Requests, Column
    <3>3. FormTyped' /\ operator' = operator
      BY <2>2 DEF UpdateByOther, SettingsInv, FormTyped
    <3>. QED
      BY <2>0, <3>1, <3>2, <3>3, BeginsSound
  <2>3. ASSUME NEW p \in Put, WriteUpdate(p)
        PROVE  SettingsInv' /\ Exact
    <3>1. SettingsInv'
      BY <2>3, WritesSound
    <3>2. /\ put[p] \in Merging /\ operator \in OperatorRow /\ put[p].section \in Section
          /\ operator' = [operator EXCEPT ![put[p].section] = Merged(put[p])]
          /\ \A q \in Put : put[q].pc = "merge" /\ put'[q].pc = "done" => q = p
      BY <2>3, WritesSound DEF Merging
    <3>3. ASSUME ~put[p].overtaken, NEW s \in Section, NEW f \in Field
          PROVE  Told(s)'[f] = (IF s = put[p].section /\ put[p].req[f] # Null
                                  THEN put[p].req[f] ELSE Told(s)[f])
      <4>1. put[p].current = Told(put[p].section)
        BY <2>3, <3>3 DEF WriteUpdate, SettingsInv, UpdateSound
      <4>. QED
        BY <3>2, <4>1, MergeIsExact
    <3>4. Exact
      BY <3>2, <3>3
    <3>. QED
      BY <3>1, <3>4
  <2>4. ASSUME NEW p \in Put, UpdateFails(p) \/ AnswerOther(p)
        PROVE  SettingsInv' /\ Exact
    <3>1. /\ operator' = operator /\ form' = form
          /\ put' = [put EXCEPT ![p] = put'[p]]
          /\ put'[p].pc \in {"idle", "failed"}
      BY <2>4 DEF UpdateFails, AnswerOther, SettingsInv, NoUpdate
    <3>2. FormTyped'
      BY <3>1 DEF SettingsInv, FormTyped
    <3>. QED
      BY <2>0, <3>1, <3>2, OneUpdateMoves
  <2>5. CASE OpenPage
    <3>1. put' = put /\ operator' = operator
      BY <2>5 DEF OpenPage
    <3>2. FormTyped'
      BY <2>5, DefaultsAreAColumn DEF OpenPage, FormTyped
    <3>. QED
      BY <2>0, <3>1, <3>2, NoUpdateMoves
  <2>6. ASSUME NEW s \in Section, SaveForm(s) \/ SaveAnswered(s)
        PROVE  SettingsInv' /\ Exact
    BY <2>0, <2>6, PageSteps
  <2>7. ASSUME NEW s \in Section, NEW f \in Field, NEW x \in Value(f), EditForm(s, f, x)
        PROVE  SettingsInv' /\ Exact
    BY <2>0, <2>7, EditSound
  <2>8. CASE UNCHANGED settingsVars
    <3>1. put' = put /\ operator' = operator /\ FormTyped'
      BY <2>8 DEF settingsVars, SettingsInv, FormTyped
    <3>. QED
      BY <2>0, <3>1, NoUpdateMoves
  <2>. HIDE DEF Exact
  <2>. QED
    BY <2>1, <2>2, <2>3, <2>4, <2>5, <2>6, <2>7, <2>8 DEF SettingsNext
<1>. QED
  BY <1>1, <1>2, PTL DEF SettingsSpec, LoneUpdateIsExact

\* After an update that no other one overtook, readers are told what it names
\* of its section and what they were told before of everything else.
THEOREM LoneUpdates == SettingsSpec => LoneUpdateIsExact
<1>. QED
  BY SettingsStaySound, PTL

(***************************************************************************)
(* The worker's tokens                                                     *)
(***************************************************************************)

TokenTyped ==
  /\ minute \in Nat /\ jobRan \in BOOLEAN /\ refreshFailed \in BOOLEAN
  /\ stored \in [ends : Nat, expiresAt : Nat]
  /\ refreshes \subseteq [asked : Nat, ends : Nat]

\* A renewal is answered within the delay; what FSP has issued for it lasts
\* from when it was issued.
RenewalsInTime ==
  \A r \in refreshes :
    /\ r.asked <= minute /\ minute <= r.asked + MaxDelay
    /\ r.ends # 0 => r.asked + TokenLife <= r.ends /\ r.ends <= minute + TokenLife

\* The store counts a token's life from at most one delay later than FSP.
StoreCountsLate ==
  stored # Absent =>
    stored.ends <= stored.expiresAt /\ stored.expiresAt <= stored.ends + MaxDelay

\* From the first job that took what is stored for expiring, and as long as
\* that is stored, the renewal this job asked for is under way.
RenewalUnderWay ==
  LET due == stored.expiresAt - Buffer IN
  stored # Absent /\ ~refreshFailed /\ (due < minute \/ (due = minute /\ jobRan)) =>
    \E r \in refreshes : r.asked = due

TokenIInv == TokenTyped /\ RenewalsInTime /\ StoreCountsLate /\ RenewalUnderWay

\* The invariant of the store holds.
LEMMA TokensStaySound == TokenSpec => []TokenIInv
<1>. USE TokenAssumption
<1>1. TokenInit => TokenIInv
  <2>. SUFFICES ASSUME TokenInit
                PROVE  TokenIInv
    OBVIOUS
  <2>1. TokenTyped
    BY DEF TokenInit, TokenTyped, Absent
  <2>2. RenewalsInTime /\ StoreCountsLate /\ RenewalUnderWay
    BY DEF TokenInit, RenewalsInTime, StoreCountsLate, RenewalUnderWay
  <2>. QED
    BY <2>1, <2>2 DEF TokenIInv
<1>2. TokenIInv /\ [TokenNext]_tokenVars => TokenIInv'
  <2>. SUFFICES ASSUME TokenIInv, [TokenNext]_tokenVars
                PROVE  TokenIInv'
    OBVIOUS
  <2>0. TokenTyped /\ RenewalsInTime /\ StoreCountsLate /\ RenewalUnderWay
    BY DEF TokenIInv
  <2>1. CASE Seed
    <3>1. stored'.ends = minute + TokenLife /\ stored'.expiresAt = minute + TokenLife
      BY <2>1 DEF Seed
    <3>2. TokenTyped' /\ RenewalsInTime'
      BY <2>0, <2>1 DEF Seed, TokenTyped, RenewalsInTime
    <3>3. StoreCountsLate' /\ RenewalUnderWay'
      BY <2>0, <2>1, <3>1 DEF Seed, TokenTyped, StoreCountsLate, RenewalUnderWay
    <3>. QED
      BY <3>2, <3>3 DEF TokenIInv
  <2>2. CASE RefreshJob
    <3>. DEFINE new == [asked |-> minute, ends |-> 0]
    <3>1. /\ jobRan' = TRUE /\ UNCHANGED <<minute, stored, refreshFailed>>
          /\ refreshes \subseteq refreshes' /\ refreshes' \subseteq refreshes \cup {new}
      BY <2>2 DEF RefreshJob
    <3>2. new \in [asked : Nat, ends : Nat] /\ new.asked = minute /\ new.ends = 0
      BY <2>0 DEF TokenTyped
    <3>3. stored # Absent /\ stored.expiresAt - Buffer = minute => new \in refreshes'
      <4>1. stored # Absent /\ stored.expiresAt - Buffer = minute => IsExpiringSoon /\ HasToken
        BY <2>0 DEF IsExpiringSoon, HasToken, TokenTyped
      <4>. QED
        BY <2>2, <4>1 DEF RefreshJob
    <3>. HIDE DEF new
    <3>4. TokenTyped' /\ RenewalsInTime'
      BY <2>0, <3>1, <3>2 DEF TokenTyped, RenewalsInTime
    <3>5. StoreCountsLate'
      BY <2>0, <3>1 DEF StoreCountsLate
    <3>6. RenewalUnderWay'
      BY <2>0, <3>1, <3>2, <3>3 DEF RenewalUnderWay, TokenTyped
    <3>. QED
      BY <3>4, <3>5, <3>6 DEF TokenIInv
  <2>3. CASE TokenTick
    <3>1. /\ minute' = minute + 1 /\ jobRan' = FALSE /\ jobRan
          /\ UNCHANGED <<stored, refreshes, refreshFailed>>
          /\ \A r \in refreshes : minute < r.asked + MaxDelay
      BY <2>3 DEF TokenTick
    <3>2. TokenTyped'
      <4>1. minute' \in Nat
        BY <2>0, <3>1 DEF TokenTyped
      <4>2. jobRan' \in BOOLEAN
        BY <3>1
      <4>. QED
        BY <2>0, <3>1, <4>1, <4>2 DEF TokenTyped
    <3>3. RenewalsInTime'
      BY <2>0, <3>1 DEF TokenTyped, RenewalsInTime
    <3>4. StoreCountsLate'
      BY <2>0, <3>1 DEF StoreCountsLate
    <3>5. RenewalUnderWay'
      BY <2>0, <3>1 DEF RenewalUnderWay, TokenTyped
    <3>. QED
      BY <3>2, <3>3, <3>4, <3>5 DEF TokenIInv
  <2>4. ASSUME NEW r \in refreshes, Issue(r)
        PROVE  TokenIInv'
    <3>. DEFINE new == [r EXCEPT !.ends = minute + TokenLife]
    <3>1. /\ UNCHANGED <<minute, jobRan, stored, refreshFailed>>
          /\ refreshes' = (refreshes \ {r}) \cup {new}
      BY <2>4 DEF Issue
    <3>2. /\ new \in [asked : Nat, ends : Nat]
          /\ new.asked = r.asked /\ new.ends = minute + TokenLife
      BY <2>0 DEF TokenTyped
    <3>. HIDE DEF new
    <3>3. TokenTyped' /\ RenewalsInTime'
      BY <2>0, <3>1, <3>2 DEF TokenTyped, RenewalsInTime
    <3>4. StoreCountsLate'
      BY <2>0, <3>1 DEF StoreCountsLate
    <3>5. RenewalUnderWay'
      BY <2>0, <3>1, <3>2 DEF RenewalUnderWay, TokenTyped
    <3>. QED
      BY <3>3, <3>4, <3>5 DEF TokenIInv
  <2>5. ASSUME NEW r \in refreshes, RefreshAnswered(r)
        PROVE  TokenIInv'
    <3>1. /\ UNCHANGED <<minute, jobRan, refreshFailed>> /\ refreshes' = refreshes \ {r}
          /\ stored' = [ends |-> r.ends, expiresAt |-> minute + TokenLife] /\ r.ends # 0
      BY <2>5 DEF RefreshAnswered
    <3>2. r \in [asked : Nat, ends : Nat]
      BY <2>0 DEF TokenTyped
    <3>3. TokenTyped' /\ RenewalsInTime'
      BY <2>0, <3>1, <3>2 DEF TokenTyped, RenewalsInTime
    <3>4. r.ends <= minute + TokenLife /\ minute + TokenLife <= r.ends + MaxDelay
      BY <2>0, <3>1, <3>2 DEF TokenTyped, RenewalsInTime
    <3>5. StoreCountsLate' /\ RenewalUnderWay'
      BY <2>0, <3>1, <3>2, <3>4 DEF TokenTyped, StoreCountsLate, RenewalUnderWay
    <3>. QED
      BY <3>3, <3>5 DEF TokenIInv
  <2>6. ASSUME NEW r \in refreshes, RefreshFails(r)
        PROVE  TokenIInv'
    BY <2>0, <2>6
    DEF RefreshFails, TokenIInv, TokenTyped, RenewalsInTime, StoreCountsLate, RenewalUnderWay
  <2>7. CASE UNCHANGED tokenVars
    BY <2>0, <2>7
    DEF tokenVars, TokenIInv, TokenTyped, RenewalsInTime, StoreCountsLate, RenewalUnderWay
  <2>. QED
    BY <2>1, <2>2, <2>3, <2>4, <2>5, <2>6, <2>7 DEF TokenNext
<1>. QED
  BY <1>1, <1>2, PTL DEF TokenSpec

\* As long as FSP answers each renewal within less than half the buffer, the
\* store always has a token that FSP takes; if renewals fail, one it hands out
\* is at most a delay too old.
THEOREM TokensKeepWorking == TokenSpec => []TokenKeepsWorking
<1>. USE TokenAssumption
<1>1. TokenIInv => TokenKeepsWorking
  BY DEF TokenIInv, TokenTyped, RenewalsInTime, StoreCountsLate, RenewalUnderWay,
         TokenKeepsWorking, HasToken
<1>. QED
  BY <1>1, TokensStaySound, PTL

(***************************************************************************)
(* Notices                                                                 *)
(***************************************************************************)

NoticeSteps ==
  Over \cup {"start", "template", "send", "record", "audit", "failing", "caught"}

\* A message that may be handed to the SMS provider.
Fit(m) ==
  /\ E164(m.to) /\ m.size <= 160
  /\ m.type \notin DOMAIN OwnTemplates => m.left = {}

\* What the table, the provider and the audit log have of a call at each of
\* its steps; "refused": the database refused one of its statements.
Agree(step, sms, sent, failed, taken, audited, refused) ==
  /\ sent \in {0, 1} /\ failed \in {0, 1}
  /\ step \in {"start", "template", "send", "record", "failing", "skipped", "threw"} =>
       sent = 0 /\ failed = 0
  /\ step \in {"start", "template", "send"} => ~taken
  /\ step \in {"start", "template", "send", "record", "audit", "failing"} => ~refused
  /\ step \in {"audit", "succeeded"} => sent = 1 /\ failed = 0
  /\ sms /\ (step = "record" \/ sent = 1) => taken
  /\ step = "succeeded" => audited
  /\ step = "caught" => failed = 0 /\ (~refused => sent = 0)
  /\ step = "failed" /\ ~refused => sent = 0 /\ failed = 1
  /\ step = "threw" => refused

Taken(n) == \E d \in delivered : d.call = n

CallAgrees(n) ==
  Agree(notice[n], n \in Sms, rows[n]["SENT"], rows[n]["FAILED"], Taken(n),
        n \in noticeAudits, n \in dbRefused)

MessageFits(n) ==
  /\ notice[n] = "template" /\ n \in Sms => E164(message[n].to)
  /\ notice[n] = "send" => n \in Sms /\ Fit(message[n])

Deliveries ==
  /\ \A d, e \in delivered : d.call = e.call => d = e
  /\ \A d \in delivered : Fit(d.message)

NoticeShape ==
  /\ notice \in [Notice -> NoticeSteps]
  /\ message = [n \in Notice |-> message[n]]
  /\ rows \in [Notice -> [Status -> Nat]]

NoticeInv ==
  /\ NoticeShape /\ Deliveries
  /\ \A n \in Notice : CallAgrees(n) /\ MessageFits(n)

\* A step of one call leaves what there is of the others alone.
LEMMA OneNoticeMoves ==
  ASSUME NoticeInv, NEW n \in Notice, NEW step \in NoticeSteps, NEW m, GoWith(n, step, m),
         NEW r \in [Status -> Nat], rows' = [rows EXCEPT ![n] = r],
         delivered \subseteq delivered', \A d \in delivered' \ delivered : d.call = n,
         noticeAudits \subseteq noticeAudits', noticeAudits' \subseteq noticeAudits \cup {n},
         dbRefused \subseteq dbRefused', dbRefused' \subseteq dbRefused \cup {n},
         Deliveries',
         step = "template" /\ n \in Sms => E164(m.to),
         step = "send" => n \in Sms /\ Fit(m),
         Agree(step, n \in Sms, r["SENT"], r["FAILED"], Taken(n)', n \in noticeAudits',
               n \in dbRefused')
  PROVE  NoticeInv'
<1>1. /\ notice'[n] = step /\ message'[n] = m /\ rows'[n] = r
      /\ \A k \in Notice \ {n} :
           notice'[k] = notice[k] /\ message'[k] = message[k] /\ rows'[k] = rows[k]
  BY DEF NoticeInv, NoticeShape, GoWith, Go
<1>2. NoticeShape'
  <2>1. notice' \in [Notice -> NoticeSteps] /\ rows' \in [Notice -> [Status -> Nat]]
    BY DEF NoticeInv, NoticeShape, GoWith, Go
  <2>2. message' = [k \in Notice |-> message'[k]]
    BY DEF NoticeInv, NoticeShape, GoWith
  <2>. QED
    BY <2>1, <2>2 DEF NoticeShape
<1>3. ASSUME NEW k \in Notice
      PROVE  CallAgrees(k)' /\ MessageFits(k)'
  <2>1. CASE k = n
    BY <1>1, <2>1 DEF CallAgrees, MessageFits
  <2>2. CASE k # n
    <3>1. Taken(k)' <=> Taken(k)
      BY <2>2 DEF Taken
    <3>2. /\ k \in noticeAudits' <=> k \in noticeAudits
          /\ k \in dbRefused' <=> k \in dbRefused
      BY <2>2
    <3>3. CallAgrees(k) /\ MessageFits(k)
      BY DEF NoticeInv
    <3>4. CallAgrees(k)'
      BY <1>1, <2>2, <3>1, <3>2, <3>3 DEF CallAgrees, Agree
    <3>5. MessageFits(k)'
      BY <1>1, <2>2, <3>3 DEF MessageFits
    <3>. QED
      BY <3>4, <3>5
  <2>. QED
    BY <2>1, <2>2
<1>. QED
  BY <1>2, <1>3 DEF NoticeInv

\* A step that writes no row, no audit entry and sends nothing.
LEMMA QuietNoticeMoves ==
  ASSUME NoticeInv, NEW n \in Notice, NEW step \in NoticeSteps, NEW m, GoWith(n, step, m),
         rows' = rows, delivered' = delivered, noticeAudits' = noticeAudits,
         dbRefused \subseteq dbRefused', dbRefused' \subseteq dbRefused \cup {n},
         step = "template" /\ n \in Sms => E164(m.to),
         step = "send" => n \in Sms /\ Fit(m),
         Agree(step, n \in Sms, rows[n]["SENT"], rows[n]["FAILED"], Taken(n), n \in noticeAudits,
               n \in dbRefused')
  PROVE  NoticeInv'
<1>1. /\ rows[n] \in [Status -> Nat] /\ rows' = [rows EXCEPT ![n] = rows[n]]
  BY DEF NoticeInv, NoticeShape
<1>2. Deliveries' /\ (Taken(n)' <=> Taken(n)) /\ (n \in noticeAudits' <=> n \in noticeAudits)
  BY DEF NoticeInv, Deliveries, Taken
<1>3. Agree(step, n \in Sms, rows[n]["SENT"], rows[n]["FAILED"], Taken(n)', n \in noticeAudits',
            n \in dbRefused')
  BY <1>2 DEF Agree
<1>. QED
  BY <1>1, <1>2, <1>3, OneNoticeMoves

LEMMA NumbersAreE164 ==
  ASSUME NEW phone, NEW p \in NormaliseToE164(phone)
  PROVE  E164(p)
BY DEF NormaliseToE164

\* What is rendered for a text message may be handed over: it is cut to size,
\* and the default text has only placeholders that have a value.
LEMMA RenderedFits ==
  ASSUME NEW n \in Sms, NEW m, E164(m.to), NEW size \in Nat
  PROVE  Fit([to |-> m.to, type |-> m.type, left |-> LeftIn(n, Template(n, m.type)),
              size |-> Truncated(size)])
<1>1. Truncated(size) <= 160
  BY DEF Truncated
<1>2. m.type \notin DOMAIN OwnTemplates => LeftIn(n, Template(n, m.type)) = {}
  BY DEF LeftIn, Template, DefaultSmsTemplate, Variables, DefaultTemplate
<1>. QED
  BY <1>1, <1>2 DEF Fit

LEMMA FetchesSound ==
  ASSUME NoticeInv, NEW n \in Notice, FetchForEmail(n) \/ FetchForSms(n)
  PROVE  NoticeInv'
<1>1. /\ notice[n] = "start" /\ CallAgrees(n)
      /\ UNCHANGED <<rows, delivered, noticeAudits>> /\ dbRefused' = dbRefused
  BY DEF FetchForEmail, FetchForSms, NoticeInv, noticeRest
<1>2. ASSUME NEW step \in {"template", "failing", "skipped"}
      PROVE  /\ step \in NoticeSteps /\ step # "send"
             /\ Agree(step, n \in Sms, rows[n]["SENT"], rows[n]["FAILED"], Taken(n),
                      n \in noticeAudits, n \in dbRefused')
  BY <1>1 DEF CallAgrees, Agree, NoticeSteps, Over
<1>3. CASE FetchForEmail(n)
  <2>1. n \notin Sms
    BY <1>3 DEF FetchForEmail
  <2>2. PICK step, m : step \in {"template", "failing"} /\ GoWith(n, step, m)
    BY <1>3 DEF FetchForEmail, GoWithout
  <2>. QED
    BY <1>1, <1>2, <2>1, <2>2, QuietNoticeMoves
<1>4. CASE FetchForSms(n)
  <2>1. CASE GoWithout(n, "failing") \/ GoWithout(n, "skipped")
    BY <1>1, <1>2, <2>1, QuietNoticeMoves DEF GoWithout
  <2>2. ASSUME NEW o \in Offer, NEW c \in Contact, NEW p \in NormaliseToE164(c.phone),
               GoWith(n, "template", Addressed(p, NotificationType(o.useCase)))
        PROVE  NoticeInv'
    <3>1. E164(Addressed(p, NotificationType(o.useCase)).to)
      BY NumbersAreE164 DEF Addressed
    <3>. QED
      BY <1>1, <1>2, <2>2, <3>1, QuietNoticeMoves
  <2>. QED
    BY <1>4, <2>1, <2>2 DEF FetchForSms
<1>. QED
  BY <1>3, <1>4

LEMMA RendersSound ==
  ASSUME NoticeInv, NEW n \in Notice, Render(n)
  PROVE  NoticeInv'
<1>1. /\ notice[n] = "template" /\ CallAgrees(n) /\ (n \in Sms => E164(message[n].to))
      /\ UNCHANGED <<rows, delivered, noticeAudits>> /\ dbRefused' = dbRefused
  BY DEF Render, NoticeInv, MessageFits, noticeRest
<1>2. ASSUME NEW step \in {"send", "record", "caught"}, step = "record" => n \notin Sms
      PROVE  /\ step \in NoticeSteps /\ step # "template"
             /\ Agree(step, n \in Sms, rows[n]["SENT"], rows[n]["FAILED"], Taken(n),
                      n \in noticeAudits, n \in dbRefused')
  BY <1>1, <1>2 DEF CallAgrees, Agree, NoticeSteps, Over
<1>3. CASE GoWithout(n, "caught")
  BY <1>1, <1>2, <1>3, QuietNoticeMoves DEF GoWithout
<1>4. ASSUME NEW size \in Size,
             GoWith(n, IF n \in Sms THEN "send" ELSE "record",
               [to |-> message[n].to, type |-> message[n].type,
                left |-> LeftIn(n, Template(n, message[n].type)),
                size |-> IF n \in Sms THEN Truncated(size) ELSE size])
      PROVE  NoticeInv'
  <2>0. size \in Nat
    BY NoticeAssumption
  <2>1. CASE n \in Sms
    <3>. DEFINE m == [to |-> message[n].to, type |-> message[n].type,
                      left |-> LeftIn(n, Template(n, message[n].type)),
                      size |-> Truncated(size)]
    <3>1. GoWith(n, "send", m)
      BY <1>4, <2>1
    <3>2. Fit(m)
      BY <1>1, <2>0, <2>1, RenderedFits
    <3>. HIDE DEF m
    <3>. QED
      BY <1>1, <1>2, <2>1, <3>1, <3>2, QuietNoticeMoves
  <2>2. CASE n \notin Sms
    <3>1. PICK m : GoWith(n, "record", m)
      BY <1>4, <2>2
    <3>. QED
      BY <1>1, <1>2, <2>2, <3>1, QuietNoticeMoves
  <2>. QED
    BY <2>1, <2>2
<1>. QED
  BY <1>3, <1>4 DEF Render

LEMMA SendsSound ==
  ASSUME NoticeInv, NEW n \in Notice, SendSms(n)
  PROVE  NoticeInv'
<1>1. /\ notice[n] = "send" /\ CallAgrees(n) /\ n \in Sms /\ Fit(message[n])
      /\ rows' = rows /\ noticeAudits' = noticeAudits /\ dbRefused' = dbRefused
      /\ rows[n] \in [Status -> Nat] /\ rows' = [rows EXCEPT ![n] = rows[n]]
  BY DEF SendSms, NoticeInv, NoticeShape, MessageFits
<1>2. "record" \in NoticeSteps /\ "failing" \in NoticeSteps
  BY DEF NoticeSteps
<1>3. CASE GoWithout(n, "failing") /\ delivered' = delivered
  <2>1. Agree("failing", n \in Sms, rows[n]["SENT"], rows[n]["FAILED"], Taken(n),
              n \in noticeAudits, n \in dbRefused')
    BY <1>1 DEF CallAgrees, Agree
  <2>. QED
    BY <1>1, <1>2, <1>3, <2>1, QuietNoticeMoves DEF GoWithout
<1>4. CASE /\ GoWith(n, "record", message[n])
           /\ delivered' = delivered \cup {[call |-> n, message |-> message[n]]}
  <2>. DEFINE new == [call |-> n, message |-> message[n]]
  <2>1. delivered' = delivered \cup {new} /\ new.call = n /\ new.message = message[n]
    BY <1>4
  <2>. HIDE DEF new
  <2>2. ~Taken(n)
    BY <1>1 DEF CallAgrees, Agree
  <2>3. Deliveries' /\ Taken(n)' = TRUE
    BY <1>1, <2>1, <2>2 DEF NoticeInv, Deliveries, Taken
  <2>4. Agree("record", n \in Sms, rows[n]["SENT"], rows[n]["FAILED"], Taken(n)',
              n \in noticeAudits', n \in dbRefused')
    BY <1>1, <2>3 DEF CallAgrees, Agree
  <2>5. \A d \in delivered' \ delivered : d.call = n
    BY <2>1
  <2>. QED
    BY <1>1, <1>2, <1>4, <2>1, <2>3, <2>4, <2>5, OneNoticeMoves
<1>. QED
  BY <1>3, <1>4 DEF SendSms

\* A row is added, and nothing sent.
LEMMA RowsSound ==
  ASSUME NoticeInv, NEW n \in Notice, NEW step \in NoticeSteps \ {"template", "send"},
         NEW status \in Status, AddRow(n, status), GoWithout(n, step),
         delivered' = delivered, noticeAudits' = noticeAudits, dbRefused' = dbRefused,
         Agree(step, n \in Sms,
               IF status = "SENT" THEN rows[n]["SENT"] + 1 ELSE rows[n]["SENT"],
               IF status = "FAILED" THEN rows[n]["FAILED"] + 1 ELSE rows[n]["FAILED"],
               Taken(n), n \in noticeAudits, n \in dbRefused)
  PROVE  NoticeInv'
<1>. DEFINE r == [rows[n] EXCEPT ![status] = @ + 1]
<1>1. /\ rows[n] \in [Status -> Nat] /\ rows' = [rows EXCEPT ![n] = r]
  BY DEF NoticeInv, NoticeShape, AddRow
<1>2. /\ r \in [Status -> Nat]
      /\ r["SENT"] = IF status = "SENT" THEN rows[n]["SENT"] + 1 ELSE rows[n]["SENT"]
      /\ r["FAILED"] = IF status = "FAILED" THEN rows[n]["FAILED"] + 1 ELSE rows[n]["FAILED"]
  BY <1>1 DEF Status
<1>. HIDE DEF r
<1>3. Deliveries' /\ (Taken(n)' <=> Taken(n))
  BY DEF NoticeInv, Deliveries, Taken
<1>4. Agree(step, n \in Sms, r["SENT"], r["FAILED"], Taken(n)', n \in noticeAudits',
            n \in dbRefused')
  BY <1>2, <1>3 DEF Agree
<1>5. GoWith(n, step, NoMessage)
  BY DEF GoWithout
<1>. QED
  BY <1>1, <1>2, <1>3, <1>4, <1>5, OneNoticeMoves

\* The invariant of the notices holds.
LEMMA NoticesStaySound == NoticeSpec => []NoticeInv
<1>1. NoticeInit => NoticeInv
  <2>. SUFFICES ASSUME NoticeInit
                PROVE  NoticeInv
    OBVIOUS
  <2>1. NoticeShape /\ Deliveries
    BY DEF NoticeInit, NoticeShape, Deliveries, NoticeSteps, Status
  <2>2. ASSUME NEW n \in Notice
        PROVE  CallAgrees(n) /\ MessageFits(n)
    <3>1. notice[n] = "start" /\ rows[n]["SENT"] = 0 /\ rows[n]["FAILED"] = 0 /\ ~Taken(n)
      BY DEF NoticeInit, Taken, Status
    <3>. QED
      BY <3>1 DEF NoticeInit, CallAgrees, MessageFits, Agree
  <2>. QED
    BY <2>1, <2>2 DEF NoticeInv
<1>2. NoticeInv /\ [NoticeNext]_noticeVars => NoticeInv'
  <2>. SUFFICES ASSUME NoticeInv, [NoticeNext]_noticeVars
                PROVE  NoticeInv'
    OBVIOUS
  <2>1. ASSUME NEW n \in Notice, RecordSent(n)
        PROVE  NoticeInv'
    <3>1. /\ notice[n] = "record" /\ CallAgrees(n) /\ AddRow(n, "SENT") /\ GoWithout(n, "audit")
          /\ UNCHANGED <<noticeAudits, delivered>> /\ dbRefused' = dbRefused
          /\ rows[n]["SENT"] \in Nat /\ rows[n]["FAILED"] \in Nat
      BY <2>1 DEF RecordSent, NoticeInv, NoticeShape, Status
    <3>2. Agree("audit", n \in Sms, rows[n]["SENT"] + 1, rows[n]["FAILED"], Taken(n),
                n \in noticeAudits, n \in dbRefused)
      BY <3>1 DEF CallAgrees, Agree
    <3>3. "audit" \in NoticeSteps \ {"template", "send"} /\ "SENT" \in Status
      BY DEF NoticeSteps, Status
    <3>. QED
      BY <3>1, <3>2, <3>3, RowsSound
  <2>2. ASSUME NEW n \in Notice, RecordFailure(n)
        PROVE  NoticeInv'
    <3>1. /\ notice[n] \in {"failing", "caught"} /\ CallAgrees(n) /\ AddRow(n, "FAILED")
          /\ GoWithout(n, "failed") /\ UNCHANGED <<noticeAudits, delivered>>
          /\ dbRefused' = dbRefused /\ rows[n]["SENT"] \in Nat /\ rows[n]["FAILED"] \in Nat
      BY <2>2 DEF RecordFailure, NoticeInv, NoticeShape, Status
    <3>2. Agree("failed", n \in Sms, rows[n]["SENT"], rows[n]["FAILED"] + 1, Taken(n),
                n \in noticeAudits, n \in dbRefused)
      BY <3>1 DEF CallAgrees, Agree
    <3>3. "failed" \in NoticeSteps \ {"template", "send"} /\ "FAILED" \in Status
      BY DEF NoticeSteps, Status, Over
    <3>. QED
      BY <3>1, <3>2, <3>3, RowsSound
  <2>3. ASSUME NEW n \in Notice, WriteNoticeAudit(n)
        PROVE  NoticeInv'
    <3>1. /\ notice[n] = "audit" /\ CallAgrees(n) /\ GoWith(n, "succeeded", NoMessage)
          /\ rows' = rows /\ delivered' = delivered /\ dbRefused' = dbRefused
          /\ noticeAudits' = noticeAudits \cup {n}
          /\ rows[n] \in [Status -> Nat] /\ rows' = [rows EXCEPT ![n] = rows[n]]
      BY <2>3 DEF WriteNoticeAudit, NoticeInv, NoticeShape, GoWithout
    <3>2. Deliveries' /\ (Taken(n)' <=> Taken(n))
      BY <3>1 DEF NoticeInv, Deliveries, Taken
    <3>3. Agree("succeeded", n \in Sms, rows[n]["SENT"], rows[n]["FAILED"], Taken(n)',
                n \in noticeAudits', n \in dbRefused')
      BY <3>1, <3>2 DEF CallAgrees, Agree
    <3>4. "succeeded" \in NoticeSteps
      BY DEF NoticeSteps, Over
    <3>. QED
      BY <3>1, <3>2, <3>3, <3>4, OneNoticeMoves
  <2>4. ASSUME NEW n \in Notice, DatabaseRefuses(n)
        PROVE  NoticeInv'
    <3>. DEFINE step == AfterRefusal(notice[n])
    <3>1. /\ notice[n] \in {"template", "record", "audit", "failing", "caught"}
          /\ CallAgrees(n) /\ GoWith(n, step, NoMessage) /\ dbRefused' = dbRefused \cup {n}
          /\ rows' = rows /\ delivered' = delivered /\ noticeAudits' = noticeAudits
      BY <2>4 DEF DatabaseRefuses, NoticeInv, GoWithout, noticeRest
    <3>2. /\ step \in NoticeSteps \ {"template", "send"}
          /\ Agree(step, n \in Sms, rows[n]["SENT"], rows[n]["FAILED"], Taken(n),
                   n \in noticeAudits, n \in dbRefused')
      BY <3>1 DEF CallAgrees, Agree, AfterRefusal, NoticeSteps, Over
    <3>. HIDE DEF step
    <3>. QED
      BY <3>1, <3>2, QuietNoticeMoves
  <2>5. CASE UNCHANGED noticeVars
    <3>1. /\ notice' = notice /\ message' = message /\ rows' = rows /\ delivered' = delivered
          /\ noticeAudits' = noticeAudits /\ dbRefused' = dbRefused
      BY <2>5 DEF noticeVars, noticeRest
    <3>2. NoticeShape' /\ Deliveries'
      BY <3>1 DEF NoticeInv, NoticeShape, Deliveries
    <3>3. \A n \in Notice : CallAgrees(n)' /\ MessageFits(n)'
      BY <3>1 DEF NoticeInv, CallAgrees, MessageFits, Taken
    <3>. QED
      BY <3>2, <3>3 DEF NoticeInv
  <2>. QED
    BY <2>1, <2>2, <2>3, <2>4, <2>5, FetchesSound, RendersSound, SendsSound DEF NoticeNext
<1>. QED
  BY <1>1, <1>2, PTL DEF NoticeSpec

\* What the calls answer, what the table and the audit log have and what the
\* provider took agree, and the provider is asked once at most, for a proper
\* number and a text that fits.
THEOREM HonestRecords == NoticeSpec => []RecordsAreHonest
<1>1. NoticeInv => RecordsAreHonest
  <2>. SUFFICES ASSUME NoticeInv
                PROVE  RecordsAreHonest
    OBVIOUS
  <2>1. ASSUME NEW n \in Notice
        PROVE  /\ notice[n] = "succeeded" =>
                    n \in noticeAudits /\ RowsOf(n) = 1 /\ rows[n]["SENT"] = 1
               /\ n \in Sms /\ rows[n]["SENT"] > 0 => \E d \in delivered : d.call = n
               /\ notice[n] \in Over /\ n \notin dbRefused =>
                    RowsOf(n) = (IF notice[n] = "skipped" THEN 0 ELSE 1)
               /\ notice[n] = "threw" => n \in dbRefused /\ RowsOf(n) = 0
    <3>1. CallAgrees(n)
      BY DEF NoticeInv
    <3>. QED
      BY <3>1 DEF CallAgrees, Agree, RowsOf, Taken, Over
  <2>2. /\ \A d, e \in delivered : d.call = e.call => d = e
        /\ \A d \in delivered : Fit(d.message)
    BY DEF NoticeInv, Deliveries
  <2>. QED
    BY <2>1, <2>2 DEF RecordsAreHonest, Fit
<1>. QED
  BY <1>1, NoticesStaySound, PTL

(***************************************************************************)
(* The diff of two polls.  A list that names no reservation twice has one  *)
(* table, whichever of an id's entries wins; the rest is a comparison of   *)
(* two tables, reservation by reservation.                                 *)
(***************************************************************************)

PollsTyped == previousPoll \in Seq(Entry) /\ currentPoll \in Seq(Entry)

LEMMA ListsAreLists == Lists \subseteq Seq(Entry)
<1> SUFFICES ASSUME NEW list \in Lists PROVE list \in Seq(Entry)
  OBVIOUS
<1>1. PICK n \in 0 .. MaxList : list \in [1 .. n -> Entry]
  BY DEF Lists, BoundedSeq, SeqOf
<1>2. n \in Nat
  OBVIOUS
<1> QED BY <1>1, <1>2

LEMMA CleanIdsDiffer ==
  ASSUME NEW list \in Seq(Entry), Clean(list)
  PROVE  \A i, j \in DOMAIN list : list[i].id = list[j].id => i = j
<1> DEFINE n == Len(list)
           f == [i \in 1 .. n |-> list[i].id]
<1>1. n \in Nat /\ DOMAIN list = 1 .. n
  OBVIOUS
<1>2. \A i \in 1 .. n : f[i] = list[i].id
  OBVIOUS
<1>3. f \in [1 .. n -> Ids(list)]
  BY <1>1 DEF Ids
<1>4. \A r \in Ids(list) : \E i \in 1 .. n : f[i] = r
  BY <1>1, <1>2 DEF Ids
<1> HIDE DEF f
<1>5. f \in Surjection(1 .. n, Ids(list))
  BY <1>3, <1>4 DEF Surjection
<1>6. IsFiniteSet(1 .. n) /\ Cardinality(1 .. n) = n
  BY <1>1, FS_Interval, SMTT(30)
<1>7. Cardinality(1 .. n) = Cardinality(Ids(list))
  BY <1>6 DEF Clean
<1>8. f \in Injection(1 .. n, Ids(list))
  BY <1>5, <1>6, <1>7, FS_SurjSameCardinalityImpliesInj
<1>9. \A i, j \in 1 .. n : f[i] = f[j] => i = j
  BY <1>8 DEF Injection, IsInjective
<1> QED BY <1>1, <1>2, <1>9

\* First and last entry of an id are one.
LEMMA CleanTable ==
  ASSUME NEW list \in Seq(Entry), Clean(list)
  PROVE  /\ DeduplicateById(list) = ToMap(list)
         /\ DOMAIN ToMap(list) = Ids(list) /\ Ids(list) \subseteq Reservation
<1>1. \A i, j \in DOMAIN list : list[i].id = list[j].id => i = j
  BY CleanIdsDiffer
<1>2. DOMAIN list = 1 .. Len(list) /\ Len(list) \in Nat
      /\ \A i \in DOMAIN list : list[i] \in Entry
  OBVIOUS
<1>3. ASSUME NEW r \in Ids(list)
      PROVE  ToMap(list)[r] = DeduplicateById(list)[r]
  <2>1. PICK k \in DOMAIN list : list[k].id = r
    BY <1>3 DEF Ids
  <2>2. \A i \in DOMAIN list : list[i].id = r <=> i = k
    BY <1>1, <2>1
  <2>3. k = CHOOSE i \in DOMAIN list :
              list[i].id = r /\ \A j \in DOMAIN list : list[j].id = r => j <= i
    BY <1>2, <2>2
  <2>4. k = CHOOSE i \in DOMAIN list :
              list[i].id = r /\ \A j \in DOMAIN list : list[j].id = r => i <= j
    BY <1>2, <2>2
  <2>5. ToMap(list)[r] = list[CHOOSE i \in DOMAIN list :
              list[i].id = r /\ \A j \in DOMAIN list : list[j].id = r => j <= i].status
    BY <1>3 DEF ToMap
  <2>6. DeduplicateById(list)[r] = list[CHOOSE i \in DOMAIN list :
              list[i].id = r /\ \A j \in DOMAIN list : list[j].id = r => i <= j].status
    BY <1>3 DEF DeduplicateById
  <2>7. ToMap(list)[r] = list[k].status /\ DeduplicateById(list)[r] = list[k].status
    BY <2>3, <2>4, <2>5, <2>6, Zenon
  <2> QED BY <2>7
<1>4. Ids(list) \subseteq Reservation
  BY <1>2 DEF Ids, Entry
<1> QED BY <1>3, <1>4 DEF ToMap, DeduplicateById

\* What the service says of the changes of two polls holds for lists of any
\* length about any reservations.
THEOREM DiffKeepsItsPromise == DiffSpec => []DiffIsAsDescribed
<1>1. DiffInit => PollsTyped
  BY DEF DiffInit, PollsTyped
<1>2. PollsTyped /\ [Poll]_polls => PollsTyped'
  BY ListsAreLists DEF PollsTyped, Poll, polls
<1>3. PollsTyped => DiffIsAsDescribed
  <2> SUFFICES ASSUME PollsTyped, Clean(previousPoll), Clean(currentPoll),
                      NEW r \in Open(previousPoll)
               PROVE
      /\ [type |-> "CANCELLATION", id |-> r] \in Changes
           <=> r \in Gone(currentPoll) /\ r \in Student
      /\ [type |-> "NEW_OPENING", id |-> r] \in Changes
           <=> r \in Gone(currentPoll) /\ r \in Crewed
      /\ [type |-> "STATUS_CHANGE", id |-> r] \in Changes
           <=> r \in Open(currentPoll) /\ ToMap(previousPoll)[r] # ToMap(currentPoll)[r]
      /\ ComputeHash(previousPoll) = ComputeHash(currentPoll)
           => \A c \in Changes : c.id # r
    BY DEF DiffIsAsDescribed
  <2> DEFINE prev == ToMap(previousPoll)
             next == ToMap(currentPoll)
  <2>1. /\ DeduplicateById(previousPoll) = prev /\ DeduplicateById(currentPoll) = next
        /\ DOMAIN prev = Ids(previousPoll) /\ DOMAIN next = Ids(currentPoll)
        /\ Ids(previousPoll) \subseteq Reservation
    BY CleanTable DEF PollsTyped
  <2>2. r \in DOMAIN prev /\ prev[r] # "cancelled" /\ r \in Reservation
    BY <2>1 DEF Open
  <2>3. r \in Gone(currentPoll) <=> Freed(next, r)
    BY <2>1, <2>2 DEF Gone, Open, Freed
  <2>4. r \in Open(currentPoll) <=> ~Freed(next, r)
    BY <2>1, <2>2 DEF Open, Freed
  <2>5. Changes = DetectChanges(prev, next)
    BY <2>1 DEF Changes
  <2>6. ComputeHash(previousPoll) = ComputeHash(currentPoll) => prev = next
    BY <2>1 DEF ComputeHash
  <2> HIDE DEF prev, next
  <2>7. /\ [type |-> "CANCELLATION", id |-> r] \in Changes <=> Freed(next, r) /\ r \in Student
        /\ [type |-> "NEW_OPENING", id |-> r] \in Changes <=> Freed(next, r) /\ r \in Crewed
        /\ [type |-> "STATUS_CHANGE", id |-> r] \in Changes
             <=> ~Freed(next, r) /\ prev[r] # next[r]
    BY <2>2, <2>5 DEF DetectChanges
  <2>8. ASSUME prev = next, NEW c \in Changes, c.id = r PROVE FALSE
    <3>1. ~Freed(next, r)
      BY <2>2, <2>8 DEF Freed
    <3> QED BY <2>5, <2>8, <3>1 DEF DetectChanges
  <2> QED BY <2>3, <2>4, <2>6, <2>7, <2>8 DEF prev, next
<1> QED BY <1>1, <1>2, <1>3, PTL DEF DiffSpec

(***************************************************************************)
(* What a suggestion is about.  Each path builds request, payload and the  *)
(* slot the model is told of from one slot and one place, so that they     *)
(* agree; the row keeps the agreement.                                     *)
(***************************************************************************)

Hands == {"instructorId", "aircraftId"}
ToldFields == Hands \cup {"locationId", "slotStart", "slotEnd"}

\* A request as validateReservation would have it anyway: a function, with the
\* tenant and both times.
IsRequest(request) ==
  /\ request = [k \in DOMAIN request |-> request[k]]
  /\ {"operatorId", "startDateTime", "endDateTime"} \subseteq DOMAIN request
  /\ request["operatorId"] = Tenant

\* The request, the payload and the told slot of one offer.
OfferAgrees(request, payload, said) ==
  /\ request["startDateTime"] # Nil \/ request["startDateTime"] = ""
  /\ {"slotStart", "slotEnd"} \subseteq DOMAIN payload
  /\ payload["slotStart"] = request["startDateTime"]
  /\ payload["slotEnd"] = request["endDateTime"]
  /\ \A k \in (Hands \cup {"locationId", "studentId"}) \cap DOMAIN request :
       payload[k] = request[k]
  /\ payload["validateRequest"] = request
  /\ \A k \in DOMAIN said : said[k] = (IF payload[k] = Nil THEN "" ELSE payload[k])

\* A slot has its times and a place may have a location; neither says null.
SlotFits(slot) ==
  /\ "startDateTime" \in DOMAIN slot /\ "endDateTime" \in DOMAIN slot
  /\ \A k \in DOMAIN slot : slot[k] # Nil \/ slot[k] = ""

PlaceFits(place) == "locationId" \in DOMAIN place => place["locationId"] # Nil

\* How the three are built from a slot and a place.
BuiltFrom(slot, place, request, payload, said) ==
  /\ request["startDateTime"] = slot["startDateTime"]
  /\ request["endDateTime"] = slot["endDateTime"]
  /\ \A k \in Hands \cap DOMAIN request : k \in DOMAIN slot /\ request[k] = slot[k]
  /\ "locationId" \in DOMAIN request =>
       "locationId" \in DOMAIN place /\ request["locationId"] = place["locationId"]
  /\ "studentId" \in DOMAIN request => payload["studentId"] = request["studentId"]
  /\ {"slotStart", "slotEnd"} \subseteq DOMAIN payload
  /\ payload["slotStart"] = slot["startDateTime"]
  /\ payload["slotEnd"] = slot["endDateTime"]
  /\ \A k \in Hands : payload[k] = IF k \in DOMAIN slot THEN slot[k] ELSE Nil
  /\ payload["locationId"] = IF "locationId" \in DOMAIN place THEN place["locationId"] ELSE Nil
  /\ payload["validateRequest"] = request
  /\ DOMAIN said = ToldFields
  /\ said["slotStart"] = slot["startDateTime"] /\ said["slotEnd"] = slot["endDateTime"]
  /\ \A k \in Hands : said[k] = IF k \in DOMAIN slot THEN slot[k] ELSE ""
  /\ said["locationId"] = IF "locationId" \in DOMAIN place THEN place["locationId"] ELSE ""

LEMMA BuiltFromOne ==
  ASSUME NEW slot, SlotFits(slot), NEW place, PlaceFits(place),
         NEW request, NEW payload, NEW said,
         BuiltFrom(slot, place, request, payload, said)
  PROVE  OfferAgrees(request, payload, said)
<1>1. \A k \in (Hands \cup {"locationId", "studentId"}) \cap DOMAIN request :
        payload[k] = request[k]
  BY DEF BuiltFrom
<1>2. \A k \in Hands : said[k] = (IF payload[k] = Nil THEN "" ELSE payload[k])
  BY DEF BuiltFrom, SlotFits
<1>3. said["locationId"] = (IF payload["locationId"] = Nil THEN "" ELSE payload["locationId"])
  BY DEF BuiltFrom, PlaceFits
<1>4. /\ said["slotStart"] = (IF payload["slotStart"] = Nil THEN "" ELSE payload["slotStart"])
      /\ said["slotEnd"] = (IF payload["slotEnd"] = Nil THEN "" ELSE payload["slotEnd"])
  BY DEF BuiltFrom, SlotFits
<1>5. \A k \in ToldFields : said[k] = (IF payload[k] = Nil THEN "" ELSE payload[k])
  BY <1>2, <1>3, <1>4 DEF ToldFields
<1> QED BY <1>1, <1>5 DEF BuiltFrom, SlotFits, OfferAgrees

\* An opening that was detected: no times, no resources.
LEMMA OpeningAgrees ==
  ASSUME NEW diff, DOMAIN diff = {"freedSlot", "source"}, NEW student
  PROVE  /\ IsRequest(WaitlistRequest(diff, student))
         /\ OfferAgrees(WaitlistRequest(diff, student), WaitlistPayload(diff, student),
                        WaitlistTold(diff))
<1> DEFINE request == WaitlistRequest(diff, student)
           payload == WaitlistPayload(diff, student)
           said == WaitlistTold(diff)
           slot == [startDateTime |-> "", endDateTime |-> ""]
<1>a. SlotFits(slot) /\ PlaceFits(diff)
  <2>1. /\ DOMAIN slot = {"startDateTime", "endDateTime"}
        /\ slot["startDateTime"] = "" /\ slot["endDateTime"] = ""
    OBVIOUS
  <2> HIDE DEF slot
  <2> QED BY <2>1 DEF SlotFits, PlaceFits
<1>1. /\ {"operatorId", "startDateTime", "endDateTime"} \subseteq DOMAIN request
      /\ request = [k \in DOMAIN request |-> request[k]]
  BY DEF WaitlistRequest, Given, Restrict, OrBlank, ++
<1>2. /\ request["operatorId"] = Tenant
      /\ request["startDateTime"] = slot["startDateTime"]
      /\ request["endDateTime"] = slot["endDateTime"]
  BY DEF WaitlistRequest, Given, Restrict, OrBlank, ++
<1>3. /\ "locationId" \in DOMAIN request =>
           "locationId" \in DOMAIN diff /\ request["locationId"] = diff["locationId"]
      /\ \A k \in Hands \cap DOMAIN request : k \in DOMAIN slot /\ request[k] = slot[k]
  BY DEF WaitlistRequest, Given, Restrict, OrBlank, ++, Hands
<1>4. request["studentId"] = student /\ payload["studentId"] = student
  BY DEF WaitlistRequest, WaitlistPayload, OrNil, Given, Restrict, OrBlank, ++
<1>5. /\ {"slotStart", "slotEnd"} \subseteq DOMAIN payload
      /\ payload["slotStart"] = slot["startDateTime"]
      /\ payload["slotEnd"] = slot["endDateTime"]
      /\ payload["validateRequest"] = request
  BY DEF WaitlistPayload, FromTo, OrNil, Given, Restrict, OrBlank, ++
<1>6. /\ payload["locationId"] =
           IF "locationId" \in DOMAIN diff THEN diff["locationId"] ELSE Nil
      /\ \A k \in Hands : payload[k] = IF k \in DOMAIN slot THEN slot[k] ELSE Nil
  BY DEF WaitlistPayload, FromTo, OrNil, Given, Restrict, OrBlank, ++, Hands
<1>7. /\ DOMAIN said = ToldFields
      /\ said["slotStart"] = slot["startDateTime"] /\ said["slotEnd"] = slot["endDateTime"]
  BY DEF WaitlistTold, OrBlanks, FromTo, Given, Restrict, OrBlank, ++, ToldFields, Hands
<1>8. /\ said["locationId"] =
           IF "locationId" \in DOMAIN diff THEN diff["locationId"] ELSE ""
      /\ \A k \in Hands : said[k] = IF k \in DOMAIN slot THEN slot[k] ELSE ""
  BY DEF WaitlistTold, OrBlanks, FromTo, Given, Restrict, OrBlank, ++, Hands
<1> HIDE DEF request, payload, said
<1>9. BuiltFrom(slot, diff, request, payload, said)
  BY <1>2, <1>3, <1>4, <1>5, <1>6, <1>7, <1>8 DEF BuiltFrom
<1>10. OfferAgrees(request, payload, said)
  BY <1>9, <1>a, BuiltFromOne
<1>11. IsRequest(request)
  BY <1>1, <1>2 DEF IsRequest
<1> QED BY <1>10, <1>11 DEF request, payload, said

LEMMA SlotsFit == \A slot \in Slots : SlotFits(slot)
  BY PayloadAssumption DEF PayloadAssumption, SlotFits

LEMMA RescheduleAgrees ==
  ASSUME NEW slot \in Slots, NEW diff, DOMAIN diff = {"studentId", "previous"}
  PROVE  /\ IsRequest(RescheduleRequest(diff, slot))
         /\ OfferAgrees(RescheduleRequest(diff, slot), ReschedulePayload(diff, slot),
                        RescheduleTold(diff, slot))
<1> DEFINE request == RescheduleRequest(diff, slot)
           payload == ReschedulePayload(diff, slot)
           said == RescheduleTold(diff, slot)
<1>a. PlaceFits(diff)
  BY DEF PlaceFits
<1>1. /\ {"operatorId", "startDateTime", "endDateTime"} \subseteq DOMAIN request
      /\ request = [k \in DOMAIN request |-> request[k]]
  BY DEF RescheduleRequest, Given, Restrict, OrBlank, ++
<1>2. /\ request["operatorId"] = Tenant
      /\ request["startDateTime"] = slot["startDateTime"]
      /\ request["endDateTime"] = slot["endDateTime"]
  BY DEF RescheduleRequest, Given, Restrict, OrBlank, ++
<1>3. /\ "locationId" \in DOMAIN request =>
           "locationId" \in DOMAIN diff /\ request["locationId"] = diff["locationId"]
      /\ \A k \in Hands \cap DOMAIN request : k \in DOMAIN slot /\ request[k] = slot[k]
  BY DEF RescheduleRequest, Given, Restrict, OrBlank, ++, Hands
<1>4. request["studentId"] = diff["studentId"] /\ payload["studentId"] = diff["studentId"]
  BY DEF RescheduleRequest, ReschedulePayload, FromTo, OrNil, Given, Restrict, OrBlank, ++
<1>5. /\ {"slotStart", "slotEnd"} \subseteq DOMAIN payload
      /\ payload["slotStart"] = slot["startDateTime"]
      /\ payload["slotEnd"] = slot["endDateTime"]
      /\ payload["validateRequest"] = request
  BY DEF ReschedulePayload, FromTo, OrNil, Given, Restrict, OrBlank, ++
<1>6. /\ payload["locationId"] =
           IF "locationId" \in DOMAIN diff THEN diff["locationId"] ELSE Nil
      /\ \A k \in Hands : payload[k] = IF k \in DOMAIN slot THEN slot[k] ELSE Nil
  BY DEF ReschedulePayload, FromTo, OrNil, Given, Restrict, OrBlank, ++, Hands
<1>7. /\ DOMAIN said = ToldFields
      /\ said["slotStart"] = slot["startDateTime"] /\ said["slotEnd"] = slot["endDateTime"]
  BY DEF RescheduleTold, OrBlanks, FromTo, Given, Restrict, OrBlank, ++, ToldFields, Hands
<1>8. /\ said["locationId"] =
           IF "locationId" \in DOMAIN diff THEN diff["locationId"] ELSE ""
      /\ \A k \in Hands : said[k] = IF k \in DOMAIN slot THEN slot[k] ELSE ""
  BY DEF RescheduleTold, OrBlanks, FromTo, Given, Restrict, OrBlank, ++, Hands
<1> HIDE DEF request, payload, said
<1>9. BuiltFrom(slot, diff, request, payload, said)
  BY <1>2, <1>3, <1>4, <1>5, <1>6, <1>7, <1>8 DEF BuiltFrom
<1>10. OfferAgrees(request, payload, said)
  BY <1>9, <1>a, SlotsFit, BuiltFromOne
<1>11. IsRequest(request)
  BY <1>1, <1>2 DEF IsRequest
<1> QED BY <1>10, <1>11 DEF request, payload, said

LEMMA DiscoveryAgrees ==
  ASSUME NEW slot \in Slots, NEW diff, PlaceFits(diff),
         DOMAIN diff \subseteq {"prospectId", "locationId"}
  PROVE  /\ IsRequest(DiscoveryRequest(diff, slot))
         /\ OfferAgrees(DiscoveryRequest(diff, slot), DiscoveryPayload(diff, slot),
                        DiscoveryTold(diff, slot))
<1> DEFINE request == DiscoveryRequest(diff, slot)
           payload == DiscoveryPayload(diff, slot)
           said == DiscoveryTold(diff, slot)
<1>1. /\ {"operatorId", "startDateTime", "endDateTime"} \subseteq DOMAIN request
      /\ request = [k \in DOMAIN request |-> request[k]]
  BY DEF DiscoveryRequest, Given, Restrict, OrBlank, ++
<1>2. /\ request["operatorId"] = Tenant
      /\ request["startDateTime"] = slot["startDateTime"]
      /\ request["endDateTime"] = slot["endDateTime"]
  BY DEF DiscoveryRequest, Given, Restrict, OrBlank, ++
<1>3. /\ "locationId" \in DOMAIN request =>
           "locationId" \in DOMAIN diff /\ request["locationId"] = diff["locationId"]
      /\ \A k \in Hands \cap DOMAIN request : k \in DOMAIN slot /\ request[k] = slot[k]
  BY DEF DiscoveryRequest, Given, Restrict, OrBlank, ++, Hands
<1>4. "studentId" \notin DOMAIN request
  BY DEF DiscoveryRequest, Given, Restrict, ++
<1>5. /\ {"slotStart", "slotEnd"} \subseteq DOMAIN payload
      /\ payload["slotStart"] = slot["startDateTime"]
      /\ payload["slotEnd"] = slot["endDateTime"]
      /\ payload["validateRequest"] = request
  BY DEF DiscoveryPayload, FromTo, OrNil, Given, Restrict, OrBlank, ++
<1>6. /\ payload["locationId"] =
           IF "locationId" \in DOMAIN diff THEN diff["locationId"] ELSE Nil
      /\ \A k \in Hands : payload[k] = IF k \in DOMAIN slot THEN slot[k] ELSE Nil
  BY DEF DiscoveryPayload, FromTo, OrNil, Given, Restrict, OrBlank, ++, Hands
<1>7. /\ DOMAIN said = ToldFields
      /\ said["slotStart"] = slot["startDateTime"] /\ said["slotEnd"] = slot["endDateTime"]
  BY DEF DiscoveryTold, OrBlanks, FromTo, Given, Restrict, OrBlank, ++, ToldFields, Hands
<1>8. /\ said["locationId"] =
           IF "locationId" \in DOMAIN diff THEN diff["locationId"] ELSE ""
      /\ \A k \in Hands : said[k] = IF k \in DOMAIN slot THEN slot[k] ELSE ""
  BY DEF DiscoveryTold, OrBlanks, FromTo, Given, Restrict, OrBlank, ++, Hands
<1> HIDE DEF request, payload, said
<1>9. BuiltFrom(slot, diff, request, payload, said)
  BY <1>2, <1>3, <1>4, <1>5, <1>6, <1>7, <1>8 DEF BuiltFrom
<1>10. OfferAgrees(request, payload, said)
  BY <1>9, SlotsFit, BuiltFromOne
<1>11. IsRequest(request)
  BY <1>1, <1>2 DEF IsRequest
<1> QED BY <1>10, <1>11 DEF request, payload, said

LEMMA LessonAgrees ==
  ASSUME NEW slot \in Slots, NEW params, PlaceFits(params), NEW lesson,
         DOMAIN params \subseteq {"previous", "studentId", "enrollmentId", "locationId"}
  PROVE  /\ IsRequest(LessonRequest(params, slot))
         /\ OfferAgrees(LessonRequest(params, slot), LessonPayload(params, lesson, slot),
                        LessonTold(params, slot))
<1> DEFINE request == LessonRequest(params, slot)
           payload == LessonPayload(params, lesson, slot)
           said == LessonTold(params, slot)
<1>1. /\ {"operatorId", "startDateTime", "endDateTime"} \subseteq DOMAIN request
      /\ request = [k \in DOMAIN request |-> request[k]]
  BY DEF LessonRequest, Given, Restrict, OrBlank, ++
<1>2. /\ request["operatorId"] = Tenant
      /\ request["startDateTime"] = slot["startDateTime"]
      /\ request["endDateTime"] = slot["endDateTime"]
  BY DEF LessonRequest, Given, Restrict, OrBlank, ++
<1>3. /\ "locationId" \in DOMAIN request =>
           "locationId" \in DOMAIN params /\ request["locationId"] = params["locationId"]
      /\ \A k \in Hands \cap DOMAIN request : k \in DOMAIN slot /\ request[k] = slot[k]
  BY DEF LessonRequest, Given, Restrict, OrBlank, ++, Hands
<1>4. "studentId" \notin DOMAIN request
  BY DEF LessonRequest, Given, Restrict, ++
<1>5. /\ {"slotStart", "slotEnd"} \subseteq DOMAIN payload
      /\ payload["slotStart"] = slot["startDateTime"]
      /\ payload["slotEnd"] = slot["endDateTime"]
      /\ payload["validateRequest"] = request
  BY DEF LessonPayload, FromTo, OrNil, Given, Restrict, OrBlank, ++
<1>6. /\ payload["locationId"] =
           IF "locationId" \in DOMAIN params THEN params["locationId"] ELSE Nil
      /\ \A k \in Hands : payload[k] = IF k \in DOMAIN slot THEN slot[k] ELSE Nil
  BY DEF LessonPayload, FromTo, OrNil, Given, Restrict, OrBlank, ++, Hands
<1>7. /\ DOMAIN said = ToldFields
      /\ said["slotStart"] = slot["startDateTime"] /\ said["slotEnd"] = slot["endDateTime"]
  BY DEF LessonTold, OrBlanks, FromTo, Given, Restrict, OrBlank, ++, ToldFields, Hands
<1>8. /\ said["locationId"] =
           IF "locationId" \in DOMAIN params THEN params["locationId"] ELSE ""
      /\ \A k \in Hands : said[k] = IF k \in DOMAIN slot THEN slot[k] ELSE ""
  BY DEF LessonTold, OrBlanks, FromTo, Given, Restrict, OrBlank, ++, Hands
<1> HIDE DEF request, payload, said
<1>9. BuiltFrom(slot, params, request, payload, said)
  BY <1>2, <1>3, <1>4, <1>5, <1>6, <1>7, <1>8 DEF BuiltFrom
<1>10. OfferAgrees(request, payload, said)
  BY <1>9, SlotsFit, BuiltFromOne
<1>11. IsRequest(request)
  BY <1>1, <1>2 DEF IsRequest
<1> QED BY <1>10, <1>11 DEF request, payload, said

\* The draft of an offer FSP was asked about.
DraftAgrees ==
  /\ IsRequest(draft.request)
  /\ OfferAgrees(draft.request, draft.payload, draft.told)

PayloadIInv ==
  /\ stage \in {"none", "asked"} => accepted = Empty
  /\ stage \in {"asked", "accepted"} => DraftAgrees
  /\ stage = "accepted" => accepted = draft.request
  /\ stage \in {"PENDING", "APPROVED"} /\ accepted # Empty =>
       OfferAgrees(accepted, candidatePayload, llmResponse)
  /\ approval # Empty => approval["operatorId"] = Tenant

LEMMA Asking ==
  ASSUME PayloadIInv, NEW path, NEW request, NEW said, NEW payload,
         AskFsp(path, request, said, payload),
         IsRequest(request), OfferAgrees(request, payload, said)
  PROVE  PayloadIInv'
<1>1. draft'.request = request /\ draft'.payload = payload /\ draft'.told = said
  BY DEF AskFsp
<1>2. DraftAgrees'
  BY <1>1 DEF DraftAgrees, IsRequest, OfferAgrees
<1> QED BY <1>2 DEF AskFsp, PayloadIInv, rowVars

LEMMA PlacesFit ==
  ASSUME NEW place \in Places
  PROVE  PlaceFits(place) /\ DOMAIN place \subseteq {"locationId"}
  BY PayloadAssumption DEF PayloadAssumption, Places, PlaceFits, Empty

LEMMA ParamsFit ==
  ASSUME NEW due \in LessonsDue
  PROVE  /\ PlaceFits(due.params)
         /\ DOMAIN due.params \subseteq {"previous", "studentId", "enrollmentId", "locationId"}
<1>1. CASE \E res \in Reservations : due.params = CompletionParams(res)
  BY <1>1 DEF CompletionParams, PlaceFits
<1>2. CASE \E p \in Pupil, place \in Places : due.params = ScanParams(p, place)
  <2>1. PICK p \in Pupil, place \in Places : due.params = ScanParams(p, place)
    BY <1>2
  <2>2. PlaceFits(place) /\ DOMAIN place \subseteq {"locationId"}
    BY PlacesFit
  <2>3. /\ DOMAIN due.params = {"studentId", "enrollmentId"} \cup DOMAIN place
        /\ "locationId" \in DOMAIN place => due.params["locationId"] = place["locationId"]
    BY <2>1 DEF ScanParams, ++
  <2> QED BY <2>2, <2>3 DEF PlaceFits
<1> QED BY <1>1, <1>2 DEF LessonsDue

\* Putting the tenant over a request of the tenant changes nothing.
LEMMA ValidatedAsIs ==
  ASSUME NEW request, IsRequest(request)
  PROVE  ValidateReservation(request) = request
  BY DEF IsRequest, ValidateReservation, ++

LEMMA TenantFirst ==
  ASSUME NEW request
  PROVE  ValidateReservation(request)["operatorId"] = Tenant
  BY DEF ValidateReservation, ++

LEMMA PayloadNextKeeps == PayloadIInv /\ [PayloadNext]_payloadVars => PayloadIInv'
<1> SUFFICES ASSUME PayloadIInv, [PayloadNext]_payloadVars PROVE PayloadIInv'
  OBVIOUS
<1>1. CASE OfferOpening
  <2>1. PICK res \in Reservations, student \in Pupil :
          AskFsp("waitlist", WaitlistRequest(OpeningDiff(res), student),
                 WaitlistTold(OpeningDiff(res)), WaitlistPayload(OpeningDiff(res), student))
    BY <1>1 DEF OfferOpening
  <2>2. DOMAIN OpeningDiff(res) = {"freedSlot", "source"}
    BY DEF OpeningDiff
  <2> QED BY <2>1, <2>2, OpeningAgrees, Asking
<1>2. CASE OfferReschedule
  <2>1. PICK res \in Reservations, slot \in Slots :
          AskFsp("reschedule", RescheduleRequest(CancellationDiff(res), slot),
                 RescheduleTold(CancellationDiff(res), slot),
                 ReschedulePayload(CancellationDiff(res), slot))
    BY <1>2 DEF OfferReschedule
  <2>2. DOMAIN CancellationDiff(res) = {"studentId", "previous"}
    BY DEF CancellationDiff
  <2> QED BY <2>1, <2>2, RescheduleAgrees, Asking
<1>3. CASE OfferDiscovery
  <2>1. PICK pupil \in Pupil, place \in Places, slot \in Slots :
          AskFsp("discovery", DiscoveryRequest(DiscoveryDiff(pupil, place), slot),
                 DiscoveryTold(DiscoveryDiff(pupil, place), slot),
                 DiscoveryPayload(DiscoveryDiff(pupil, place), slot))
    BY <1>3 DEF OfferDiscovery
  <2>2. PlaceFits(place) /\ DOMAIN place \subseteq {"locationId"}
    BY PlacesFit
  <2>3. /\ PlaceFits(DiscoveryDiff(pupil, place))
        /\ DOMAIN DiscoveryDiff(pupil, place) \subseteq {"prospectId", "locationId"}
    BY <2>2 DEF DiscoveryDiff, PlaceFits, ++
  <2> QED BY <2>1, <2>3, DiscoveryAgrees, Asking
<1>4. CASE OfferLesson
  <2>1. PICK due \in LessonsDue, slot \in Slots :
          AskFsp("lesson", LessonRequest(due.params, slot), LessonTold(due.params, slot),
                 LessonPayload(due.params, due.lesson, slot))
    BY <1>4 DEF OfferLesson
  <2> QED BY <2>1, ParamsFit, LessonAgrees, Asking
<1>5. CASE StoreSolverEvent
  BY <1>5 DEF StoreSolverEvent, PayloadIInv
<1>6. CASE FspAccepts
  <2>1. /\ stage = "asked" /\ stage' = "accepted" /\ DraftAgrees
        /\ accepted' = ValidateReservation(draft.request) /\ UNCHANGED <<draft, approval>>
    BY <1>6 DEF FspAccepts, PayloadIInv
  <2>2. accepted' = draft.request
    BY <2>1, ValidatedAsIs DEF DraftAgrees
  <2> QED BY <2>1, <2>2 DEF PayloadIInv, DraftAgrees
<1>7. CASE FspRefuses
  BY <1>7 DEF FspRefuses, PayloadIInv
<1>8. CASE Persist
  BY <1>8 DEF Persist, PayloadIInv, DraftAgrees
<1>9. CASE PersistFails
  BY <1>9 DEF PersistFails, PayloadIInv
<1>10. CASE CreateSuggestion
  BY <1>10 DEF CreateSuggestion, PayloadIInv
<1>11. CASE Approve
  <2>1. approval'["operatorId"] = Tenant
    BY <1>11, TenantFirst DEF Approve, ApprovalRequest
  <2> QED BY <1>11, <2>1 DEF Approve, PayloadIInv, rowVars
<1>12. CASE UNCHANGED payloadVars
  BY <1>12 DEF payloadVars, rowVars, PayloadIInv, DraftAgrees
<1> QED BY <1>1, <1>2, <1>3, <1>4, <1>5, <1>6, <1>7, <1>8, <1>9, <1>10, <1>11, <1>12
        DEF PayloadNext

\* Whatever FSP lists and finds, card, payload and rationale of an offer are
\* about what FSP accepted, and FSP is asked in the name of the tenant.
THEOREM CardIsHonest == PayloadSpec => []CardSaysWhatFspAccepted
<1>1. PayloadInit => PayloadIInv
  BY DEF PayloadInit, PayloadIInv
<1>2. PayloadIInv => CardSaysWhatFspAccepted
  <2> SUFFICES ASSUME PayloadIInv PROVE CardSaysWhatFspAccepted
    OBVIOUS
  <2>1. ASSUME stage \in {"PENDING", "APPROVED"}, accepted # Empty
        PROVE
       /\ CardOf(candidatePayload).start =
            (IF accepted.startDateTime = "" THEN "Unknown" ELSE accepted.startDateTime)
       /\ candidatePayload.slotEnd = accepted.endDateTime
       /\ \A k \in {"instructorId", "aircraftId", "locationId", "studentId"} \cap DOMAIN accepted :
            candidatePayload[k] = accepted[k]
       /\ candidatePayload.validateRequest = accepted
       /\ \A k \in DOMAIN llmResponse :
            llmResponse[k] = (IF candidatePayload[k] = Nil THEN "" ELSE candidatePayload[k])
    <3>1. OfferAgrees(accepted, candidatePayload, llmResponse)
      BY <2>1 DEF PayloadIInv
    <3>2. CardOf(candidatePayload).start =
            (IF /\ "slotStart" \in DOMAIN candidatePayload
                /\ candidatePayload["slotStart"] \notin {"", Nil}
               THEN candidatePayload["slotStart"] ELSE "Unknown")
      BY DEF CardOf
    <3>3. CardOf(candidatePayload).start =
            (IF accepted.startDateTime = "" THEN "Unknown" ELSE accepted.startDateTime)
      BY <3>1, <3>2 DEF OfferAgrees
    <3> QED BY <3>1, <3>3 DEF OfferAgrees, Hands
  <2>2. approval # Empty => approval.operatorId = Tenant
    BY DEF PayloadIInv
  <2> QED BY <2>1, <2>2 DEF CardSaysWhatFspAccepted
<1> QED BY <1>1, <1>2, PayloadNextKeeps, PTL DEF PayloadSpec

(***************************************************************************)
(* The ranking.  The comparison is not transitive, but of two neighbours   *)
(* it never leaves the one in less need in front: EPSILON and rounding are *)
(* too small for that.  So need never increases along the ranking.         *)
(***************************************************************************)

\* What ahead gives as those ahead of each element orders the set S.
IsOrder(ahead, S) ==
  /\ ahead \in [S -> SUBSET S]
  /\ \A a \in S : a \notin ahead[a]
  /\ \A a, b \in S : a = b \/ a \in ahead[b] \/ b \in ahead[a]
  /\ \A a, b \in S : a \in ahead[b] => ahead[a] \subseteq ahead[b]

\* In an ordered finite set every place is taken, by one element.
LEMMA PlacesAreTaken ==
  ASSUME NEW S, NEW ahead, IsFiniteSet(S), IsOrder(ahead, S)
  PROVE  /\ Cardinality(S) \in Nat
         /\ \A b \in S : 1 + Cardinality(ahead[b]) \in 1 .. Cardinality(S)
         /\ \A a, b \in S : a \in ahead[b] =>
              1 + Cardinality(ahead[a]) < 1 + Cardinality(ahead[b])
         /\ \A a, b \in S :
              1 + Cardinality(ahead[a]) = 1 + Cardinality(ahead[b]) => a = b
         /\ \A k \in 1 .. Cardinality(S) : \E b \in S : 1 + Cardinality(ahead[b]) = k
<1> DEFINE at == [b \in S |-> 1 + Cardinality(ahead[b])]
<1>1. Cardinality(S) \in Nat
  BY FS_CardinalityType
<1>2. ASSUME NEW b \in S
      PROVE  /\ IsFiniteSet(ahead[b]) /\ Cardinality(ahead[b]) \in Nat
             /\ Cardinality(ahead[b]) < Cardinality(S)
  <2>1. ahead[b] \in SUBSET S /\ b \notin ahead[b]
    BY DEF IsOrder
  <2>2. IsFiniteSet(ahead[b]) /\ Cardinality(ahead[b]) <= Cardinality(S)
        /\ Cardinality(ahead[b]) # Cardinality(S)
    BY <2>1, FS_Subset
  <2>. QED
    BY <2>2, <1>1, FS_CardinalityType
<1>3. ASSUME NEW a \in S, NEW b \in S, a \in ahead[b]
      PROVE  Cardinality(ahead[a]) < Cardinality(ahead[b])
  <2>1. ahead[a] \in SUBSET ahead[b] /\ a \notin ahead[a]
    BY <1>3 DEF IsOrder
  <2>2. Cardinality(ahead[a]) <= Cardinality(ahead[b])
        /\ Cardinality(ahead[a]) # Cardinality(ahead[b])
    BY <2>1, <1>2, <1>3, FS_Subset
  <2>. QED
    BY <2>2, <1>2
<1>4. \A b \in S : at[b] = 1 + Cardinality(ahead[b]) /\ at[b] \in 1 .. Cardinality(S)
  BY <1>1, <1>2
<1>5. \A a, b \in S : a \in ahead[b] => at[a] < at[b]
  BY <1>2, <1>3
<1>6. \A a, b \in S : a = b \/ a \in ahead[b] \/ b \in ahead[a]
  BY DEF IsOrder
<1>. HIDE DEF at
<1>7. \A a, b \in S : at[a] = at[b] => a = b
  BY <1>1, <1>4, <1>5, <1>6
<1>8. \A k \in 1 .. Cardinality(S) : \E b \in S : at[b] = k
  <2>1. at \in Injection(S, 1 .. Cardinality(S))
    <3>1. at \in [S -> 1 .. Cardinality(S)]
      BY <1>4 DEF at
    <3>. QED
      BY <3>1, <1>7 DEF Injection, IsInjective
  <2>2. IsFiniteSet(1 .. Cardinality(S)) /\ Cardinality(1 .. Cardinality(S)) = Cardinality(S)
    BY <1>1, FS_Interval
  <2>3. at \in Surjection(S, 1 .. Cardinality(S))
    BY <2>1, <2>2, FS_Injection
  <2>. QED
    BY <2>3 DEF Surjection
<1>. QED
  BY <1>1, <1>4, <1>5, <1>7, <1>8

\* So a set of days that is not empty has a last and a first one.
LEMMA LastDayExists ==
  ASSUME NEW S, IsFiniteSet(S), S # {}, S \subseteq Int
  PROVE  Max(S) \in S /\ \A d \in S : Max(S) >= d
<1> DEFINE ahead == [b \in S |-> {a \in S : a > b}]
<1>1. IsOrder(ahead, S)
  <2>1. ASSUME NEW a \in S, NEW b \in S, a \in ahead[b], NEW d \in ahead[a]
        PROVE  d \in ahead[b]
    BY <2>1
  <2>2. ahead \in [S -> SUBSET S] /\ \A a, b \in S : a = b \/ a \in ahead[b] \/ b \in ahead[a]
    OBVIOUS
  <2>3. \A a \in S : a \notin ahead[a]
    OBVIOUS
  <2>. HIDE DEF ahead
  <2>4. \A a, b \in S : a \in ahead[b] => ahead[a] \subseteq ahead[b]
    BY <2>1
  <2>. QED
    BY <2>2, <2>3, <2>4 DEF IsOrder
<1>2. Cardinality(S) \in Nat /\ Cardinality(S) # 0
  BY FS_CardinalityType, FS_EmptySet
<1>3. PICK b \in S : 1 + Cardinality(ahead[b]) = 1
  <2>1. 1 \in 1 .. Cardinality(S)
    BY <1>2
  <2>. HIDE DEF ahead
  <2>2. \A k \in 1 .. Cardinality(S) : \E b \in S : 1 + Cardinality(ahead[b]) = k
    BY <1>1, PlacesAreTaken
  <2>. QED
    BY <2>1, <2>2
<1>4. ahead[b] \in SUBSET S /\ IsFiniteSet(ahead[b])
  BY FS_Subset
<1>5. ahead[b] = {}
  BY <1>3, <1>4, FS_CardinalityType, FS_EmptySet
<1>6. \A d \in S : b >= d
  BY <1>5
<1>. QED
  BY <1>6 DEF Max

LEMMA FirstDayExists ==
  ASSUME NEW S, IsFiniteSet(S), S # {}, S \subseteq Int
  PROVE  Min(S) \in S /\ \A d \in S : Min(S) <= d
<1> DEFINE ahead == [b \in S |-> {a \in S : a < b}]
<1>1. IsOrder(ahead, S)
  <2>1. ASSUME NEW a \in S, NEW b \in S, a \in ahead[b], NEW d \in ahead[a]
        PROVE  d \in ahead[b]
    BY <2>1
  <2>2. ahead \in [S -> SUBSET S] /\ \A a, b \in S : a = b \/ a \in ahead[b] \/ b \in ahead[a]
    OBVIOUS
  <2>3. \A a \in S : a \notin ahead[a]
    OBVIOUS
  <2>. HIDE DEF ahead
  <2>4. \A a, b \in S : a \in ahead[b] => ahead[a] \subseteq ahead[b]
    BY <2>1
  <2>. QED
    BY <2>2, <2>3, <2>4 DEF IsOrder
<1>2. Cardinality(S) \in Nat /\ Cardinality(S) # 0
  BY FS_CardinalityType, FS_EmptySet
<1>3. PICK b \in S : 1 + Cardinality(ahead[b]) = 1
  <2>1. 1 \in 1 .. Cardinality(S)
    BY <1>2
  <2>. HIDE DEF ahead
  <2>2. \A k \in 1 .. Cardinality(S) : \E b \in S : 1 + Cardinality(ahead[b]) = k
    BY <1>1, PlacesAreTaken
  <2>. QED
    BY <2>1, <2>2
<1>4. ahead[b] \in SUBSET S /\ IsFiniteSet(ahead[b])
  BY FS_Subset
<1>5. ahead[b] = {}
  BY <1>3, <1>4, FS_CardinalityType, FS_EmptySet, SMTT(30)
<1>6. \A d \in S : b <= d
  BY <1>5
<1>. QED
  BY <1>6 DEF Min

LEMMA Quotient ==
  ASSUME NEW x \in Int, NEW d \in Nat \ {0}
  PROVE  x \div d \in Int /\ d * (x \div d) <= x /\ x < d * (x \div d) + d
OBVIOUS

\* A student has finitely many flights.
FiniteCandidate == {c \in Candidate : IsFiniteSet(c.flights) /\ IsFiniteSet(c.custom)}

LEMMA DaysAreFinite ==
  ASSUME NEW c \in FiniteCandidate
  PROVE  /\ IsFiniteSet(Flown(c)) /\ Flown(c) \subseteq Int /\ \A d \in Flown(c) : d <= 0
         /\ IsFiniteSet(Booked(c)) /\ Booked(c) \subseteq Int
<1>1. c.flights \subseteq [day : Int, cancelled : BOOLEAN] /\ IsFiniteSet(c.flights)
  BY DEF FiniteCandidate, Candidate
<1>2. ASSUME NEW F \in SUBSET c.flights
      PROVE  IsFiniteSet({f.day : f \in F})
  <2>1. IsFiniteSet(F)
    BY <1>1, <1>2, FS_Subset
  <2>2. [f \in F |-> f.day] \in Surjection(F, {f.day : f \in F})
    BY DEF Surjection
  <2>. QED
    BY <2>1, <2>2, FS_Surjection
<1>3. IsFiniteSet(Flown(c)) /\ IsFiniteSet(Booked(c))
  BY <1>2 DEF Flown, Booked
<1>. QED
  BY <1>1, <1>3 DEF Flown, Booked

LEMMA SignalsAreWhole ==
  ASSUME NEW c \in FiniteCandidate, NEW w \in Config
  PROVE  /\ TimeSinceLastFlight(c) \in Int /\ TimeUntilNextFlight(c) \in Int
         /\ FlightHours(c, w.higherIsBetter) \in Int /\ Custom(c) \in Int
         /\ Sum(c, w) \in Int /\ Score(c, w) \in Int
<1>1. Cap \in Nat \ {0} /\ Scale \in Nat /\ Neutral \in Int
  BY RankAssumption DEF RankAssumption, Neutral
<1>2. /\ c.required \in Int /\ c.completed \in Int /\ c.custom \subseteq Int
      /\ IsFiniteSet(c.custom)
  BY DEF FiniteCandidate, Candidate
<1>3. /\ w.since \in Int /\ w.until \in Int /\ w.hours \in Int /\ w.custom \in Int
      /\ w.higherIsBetter \in BOOLEAN
  BY DEF Config
<1>4. Flown(c) # {} => Max(Flown(c)) \in Int
  BY DaysAreFinite, LastDayExists
<1>5. Booked(c) # {} => Min(Booked(c)) \in Int
  BY DaysAreFinite, FirstDayExists
<1>6. TimeSinceLastFlight(c) \in Int
  BY <1>1, <1>4 DEF TimeSinceLastFlight, AtMost
<1>7. TimeUntilNextFlight(c) \in Int
  BY <1>1, <1>5 DEF TimeUntilNextFlight, AtMost
<1>8. FlightHours(c, w.higherIsBetter) \in Int
  BY <1>1, <1>2, <1>3 DEF FlightHours, AtMost
<1>9. Custom(c) \in Int
  BY <1>1, <1>2, LastDayExists DEF Custom
<1>10. Sum(c, w) \in Int
  BY <1>3, <1>6, <1>7, <1>8, <1>9 DEF Sum
<1>11. TotalWeight(w) * Scale \in Int
  BY <1>1, <1>3 DEF TotalWeight
<1>12. Score(c, w) \in Int
  BY <1>10, <1>11 DEF Score, Clamped, AtMost
<1>. QED
  BY <1>6, <1>7, <1>8, <1>9, <1>10, <1>12

Different(list) == \A i, j \in DOMAIN list : i # j => list[i].id # list[j].id

\* What never rises from one to the next never rises.
LEMMA NeverRises ==
  ASSUME NEW n \in Nat, NEW f \in [1 .. n -> Int],
         \A k \in 1 .. n - 1 : f[k] >= f[k + 1]
  PROVE  \A i, j \in 1 .. n : i < j => f[i] >= f[j]
<1> SUFFICES ASSUME NEW i \in 1 .. n, NEW l \in 1 .. n, i < l, f[l] > f[i]
             PROVE  FALSE
  OBVIOUS
<1> DEFINE S == {j \in 1 .. n : i < j /\ f[j] > f[i]}
<1>1. S \subseteq 1 .. n /\ l \in S /\ S \subseteq Int
  OBVIOUS
<1>2. IsFiniteSet(S)
  <2>1. IsFiniteSet(1 .. n)
    BY FS_Interval
  <2> HIDE DEF S
  <2> QED BY <1>1, <2>1, FS_Subset
<1> DEFINE j == Min(S)
<1>3. j \in S /\ \A d \in S : j <= d
  <2> HIDE DEF S
  <2> QED BY <1>1, <1>2, FirstDayExists
<1> HIDE DEF j
<1>4. j \in 1 .. n /\ i < j /\ f[j] > f[i] /\ j - 1 \in 1 .. n - 1 /\ j - 1 >= i
  BY <1>3
<1>5. j - 1 \notin S /\ j - 1 \in 1 .. n /\ f[j - 1] \in Int /\ f[i] \in Int
  BY <1>3, <1>4
<1>6. f[j - 1] <= f[i]
  <2>1. j - 1 = i \/ i < j - 1
    BY <1>4
  <2>2. i < j - 1 => ~(f[j - 1] > f[i])
    BY <1>5
  <2>. QED BY <1>5, <2>1, <2>2
<1>7. f[j - 1] >= f[(j - 1) + 1]
  BY <1>4
<1>. QED BY <1>4, <1>6, <1>7

\* And where it stays the same, what rises from one to the next rises.
LEMMA RisesAmongEquals ==
  ASSUME NEW n \in Nat, NEW f \in [1 .. n -> Int], NEW g \in [1 .. n -> Int],
         \A k \in 1 .. n - 1 : f[k] >= f[k + 1],
         \A k \in 1 .. n - 1 : f[k] = f[k + 1] => g[k] < g[k + 1]
  PROVE  \A i, j \in 1 .. n : i < j /\ f[i] = f[j] => g[i] < g[j]
<1> SUFFICES ASSUME NEW i \in 1 .. n, NEW l \in 1 .. n, i < l, f[i] = f[l], g[i] >= g[l]
             PROVE  FALSE
  OBVIOUS
<1> DEFINE S == {j \in 1 .. n : i < j /\ f[i] = f[j] /\ g[i] >= g[j]}
<1>1. S \subseteq 1 .. n /\ l \in S /\ S \subseteq Int
  OBVIOUS
<1>2. IsFiniteSet(S)
  <2>1. IsFiniteSet(1 .. n)
    BY FS_Interval
  <2> HIDE DEF S
  <2> QED BY <1>1, <2>1, FS_Subset
<1> DEFINE j == Min(S)
<1>3. j \in S /\ \A d \in S : j <= d
  <2> HIDE DEF S
  <2> QED BY <1>1, <1>2, FirstDayExists
<1> HIDE DEF j
<1>4. j \in 1 .. n /\ i < j /\ f[i] = f[j] /\ g[i] >= g[j] /\ j - 1 \in 1 .. n - 1
      /\ j - 1 >= i
  BY <1>3
<1>5. /\ (j - 1) + 1 = j /\ j - 1 \in 1 .. n
      /\ f[i] \in Int /\ f[j - 1] \in Int /\ f[j] \in Int
      /\ g[i] \in Int /\ g[j - 1] \in Int /\ g[j] \in Int
  BY <1>4
<1>6. f[j - 1] >= f[(j - 1) + 1] /\ (f[j - 1] = f[(j - 1) + 1] => g[j - 1] < g[(j - 1) + 1])
  BY <1>4
<1>7. f[i] >= f[j - 1]
  <2>1. \A k, m \in 1 .. n : k < m => f[k] >= f[m]
    BY NeverRises
  <2>2. j - 1 = i \/ i < j - 1
    BY <1>4
  <2>. QED BY <1>5, <2>1, <2>2
<1>8. f[i] = f[j - 1] /\ g[j - 1] < g[j]
  <2>1. f[j - 1] >= f[j] /\ (f[j - 1] = f[j] => g[j - 1] < g[j])
    BY <1>5, <1>6
  <2>. QED BY <1>4, <1>5, <1>7, <2>1, SMTT(30)
<1>9. j - 1 \notin S
  BY <1>3, <1>4
<1>10. j - 1 # i => i < j - 1
  BY <1>4
<1>11. j - 1 # i => g[i] < g[j - 1]
  BY <1>5, <1>8, <1>9, <1>10
<1>12. j - 1 = i => g[i] < g[j]
  BY <1>8
<1>13. g[i] < g[j]
  BY <1>5, <1>8, <1>11, <1>12, SMTT(30)
<1>. QED BY <1>4, <1>5, <1>13

\* A computed score is the right one but for a rounding error.
LEMMA RoundingIsSmall ==
  ASSUME NEW c \in FiniteCandidate, NEW w \in Config, NEW error,
         error[Signals(c, w)] \in Rounding
  PROVE  /\ ComputedScore(c, w, error) \in Int
         /\ \E e \in Rounding : ComputedScore(c, w, error) = Score(c, w) * Ulps + e
<1> DEFINE e == error[Signals(c, w)]
           x == Sum(c, w)
           L == TotalWeight(w) * Scale
<1>1. /\ Ulps \in Nat /\ e \in Int /\ 0 \in Rounding /\ e < Ulps /\ -Ulps < e
      /\ e \in Rounding
  <2>1. e \in Rounding
    OBVIOUS
  <2>. HIDE DEF e
  <2>2. /\ Ulps \in Nat /\ Epsilon \in Nat /\ e \in Int /\ 0 \in Rounding
        /\ e + Epsilon < 0 + Ulps /\ 0 + Epsilon < e + Ulps
    BY <2>1, RankAssumption DEF RankAssumption
  <2>. QED BY <2>1, <2>2
<1>2. x \in Int /\ L \in Nat
  <2>1. TotalWeight(w) \in Nat /\ Scale \in Nat
    BY RankAssumption DEF RankAssumption, TotalWeight, Config
  <2>2. \A y, z \in Nat : y * z \in Nat
    OBVIOUS
  <2>. QED BY <2>1, <2>2, SignalsAreWhole
<1>3. /\ Score(c, w) = Clamped(x, L)
      /\ ComputedScore(c, w, error) = Clamped(x * Ulps + e, L * Ulps)
  BY DEF Score, ComputedScore
<1> HIDE DEF x, L, e
<1>4. \A y, z \in Int : y >= z + 1 => y * Ulps >= z * Ulps + Ulps
  <2> SUFFICES ASSUME NEW y \in Int, NEW z \in Int, y >= z + 1
               PROVE  y * Ulps >= z * Ulps + Ulps
    OBVIOUS
  <2>1. (y - z - 1) * Ulps >= 0
    BY <1>1
  <2>2. (y - z - 1) * Ulps = y * Ulps - z * Ulps - Ulps
    BY <1>1
  <2>. QED BY <1>1, <2>1, <2>2
<1>5. x * Ulps \in Int /\ L * Ulps \in Int /\ 0 * Ulps = 0
  BY <1>1, <1>2
<1> DEFINE p == x * Ulps
           q == L * Ulps
<1>6. /\ x < 0 => p <= -Ulps
      /\ x > 0 => p >= Ulps
      /\ L > 0 => q >= Ulps
      /\ x < L => p + Ulps <= q
      /\ x > L => p >= q + Ulps
      /\ x = L => p = q
  <2>1. x < 0 => 0 * Ulps >= p + Ulps
    BY <1>2, <1>4
  <2>2. x > 0 => p >= 0 * Ulps + Ulps
    BY <1>2, <1>4
  <2>3. L > 0 => q >= 0 * Ulps + Ulps
    BY <1>2, <1>4
  <2>4. x < L => q >= p + Ulps
    BY <1>2, <1>4
  <2>5. x > L => p >= q + Ulps
    BY <1>2, <1>4
  <2>. HIDE DEF p, q
  <2>6. p \in Int /\ q \in Int
    BY <1>5 DEF p, q
  <2>7. x = L => p = q
    BY DEF p, q
  <2>. QED BY <1>1, <1>5, <2>1, <2>2, <2>3, <2>4, <2>5, <2>6, <2>7
<1>7. p \in Int /\ q \in Int
  BY <1>5
<1>8. Clamped(p + e, q) \in Int
  BY <1>1, <1>7 DEF Clamped, AtMost
<1>9. \E d \in {0, e} : Clamped(p + e, q) = Clamped(x, L) * Ulps + d
  <2>1. CASE x < 0
    <3>1. Clamped(x, L) = 0 /\ p + e < 0
      BY <1>1, <1>2, <1>6, <1>7, <2>1 DEF Clamped
    <3>. HIDE DEF p, q
    <3>. QED BY <1>5, <3>1 DEF Clamped
  <2>2. CASE 0 <= x /\ x < L
    <3>1. Clamped(x, L) * Ulps = p
      BY <1>2, <2>2 DEF Clamped, AtMost
    <3>2. x = 0 => p = 0
      BY <1>5
    <3>. HIDE DEF p, q
    <3>3. p + e < 0 => p = 0
      BY <1>1, <1>2, <1>6, <1>7, <2>2, <3>2
    <3>4. p + e < q
      BY <1>1, <1>6, <1>7, <2>2
    <3>5. Clamped(p + e, q) = p + 0 \/ Clamped(p + e, q) = p + e
      BY <1>1, <1>7, <3>3, <3>4 DEF Clamped, AtMost
    <3>. QED BY <3>1, <3>5
  <2>3. CASE 0 <= x /\ L <= x
    <3>1. Clamped(x, L) * Ulps = q
      BY <1>2, <2>3 DEF Clamped, AtMost
    <3>2. L = 0 => q = 0
      BY <1>5
    <3>. HIDE DEF p, q
    <3>3. p + e < 0 => q = 0
      BY <1>1, <1>2, <1>6, <1>7, <2>3, <3>2
    <3>4. p + e >= q \/ p = q
      BY <1>1, <1>2, <1>6, <1>7, <2>3
    <3>5. Clamped(p + e, q) = q + 0 \/ Clamped(p + e, q) = q + e
      BY <1>1, <1>7, <3>3, <3>4 DEF Clamped, AtMost
    <3>. QED BY <3>1, <3>5
  <2>. QED BY <1>2, <2>1, <2>2, <2>3
<1>. QED
  BY <1>1, <1>3, <1>8, <1>9 DEF e

\* What is asked of a ranking of the students on a list.
ErrorsFor(list, w, error) == \A i \in DOMAIN list : error[Signals(list[i], w)] \in Rounding

OnceEach(list, w, error, s) ==
  LET n == Len(list)
  IN  /\ n \in Nat /\ DOMAIN s = 1 .. n /\ Len(s) = n
      /\ \A k \in 1 .. n : \E i \in 1 .. n : s[k] = ScoreOne(list[i], w, error)
      /\ \A i \in 1 .. n : \E k \in 1 .. n : s[k] = ScoreOne(list[i], w, error)
      /\ \A k, l \in 1 .. n : k # l => s[k].student.id # s[l].student.id
      /\ \A k \in 1 .. n - 1 : ~Before(s[k + 1], s[k])

LEMMA RankedOnce ==
  ASSUME NEW list \in Seq(FiniteCandidate), Different(list), NEW w \in Config, NEW error,
         NEW s \in ScoreCandidates(list, w, error)
  PROVE  OnceEach(list, w, error, s)
<1> DEFINE n == Len(list)
           E(i) == ScoreOne(list[i], w, error)
           T == {E(i) : i \in DOMAIN list}
<1>1. n \in Nat /\ list \in [1 .. n -> FiniteCandidate] /\ DOMAIN list = 1 .. n
  OBVIOUS
<1>2. \A i, j \in 1 .. n : i # j => E(i) # E(j) /\ E(i).student.id # E(j).student.id
  BY <1>1 DEF Different, ScoreOne
<1> HIDE DEF E
<1>3. IsFiniteSet(T) /\ Cardinality(T) = n
  <2> DEFINE g == [i \in 1 .. n |-> E(i)]
  <2>1. g \in Surjection(1 .. n, T) /\ g \in Injection(1 .. n, T)
    BY <1>1, <1>2 DEF Surjection, Injection, IsInjective
  <2>2. IsFiniteSet(1 .. n) /\ Cardinality(1 .. n) = n
    <3> HIDE DEF n
    <3> QED BY <1>1, FS_Interval
  <2>. HIDE DEF g, T
  <2>. QED BY <2>1, <2>2, FS_Surjection
<1>4. s \in SetToSeqs(T) /\ \A k \in 1 .. Len(s) - 1 : ~Before(s[k + 1], s[k])
  BY DEF ScoreCandidates, E
<1>5. s \in [1 .. n -> T] /\ \A k, l \in 1 .. n : k # l => s[k] # s[l]
  <2> HIDE DEF T
  <2> QED BY <1>3, <1>4 DEF SetToSeqs
<1>6. DOMAIN s = 1 .. n /\ Len(s) = n
  <2> HIDE DEF T, n
  <2>1. s \in Seq(T)
    BY <1>1, <1>5
  <2>. QED BY <1>1, <1>5, <2>1
<1>7. \A t \in T : \E k \in 1 .. n : s[k] = t
  <2> HIDE DEF T
  <2>1. s \in Injection(1 .. n, T)
    BY <1>5 DEF Injection, IsInjective
  <2>2. IsFiniteSet(1 .. n) /\ Cardinality(1 .. n) = n
    <3> HIDE DEF n
    <3> QED BY <1>1, FS_Interval
  <2>3. s \in Surjection(1 .. n, T)
    BY <1>3, <2>1, <2>2, FS_Injection
  <2>. QED BY <2>3 DEF Surjection
<1>8. \A k \in 1 .. n : \E i \in 1 .. n : s[k] = E(i)
  BY <1>1, <1>5
<1>9. \A i \in 1 .. n : \E k \in 1 .. n : s[k] = E(i)
  BY <1>1, <1>7
<1>10. ASSUME NEW k \in 1 .. n, NEW l \in 1 .. n, k # l
       PROVE  s[k].student.id # s[l].student.id
  <2>1. PICK i \in 1 .. n : s[k] = E(i)
    BY <1>8
  <2>2. PICK j \in 1 .. n : s[l] = E(j)
    BY <1>8
  <2>3. i # j
    BY <1>5, <1>10, <2>1, <2>2
  <2>. QED BY <1>2, <2>1, <2>2, <2>3
<1>. QED
  BY <1>1, <1>4, <1>6, <1>8, <1>9, <1>10 DEF E, OnceEach

LEMMA RankedByNeed ==
  ASSUME NEW list \in Seq(FiniteCandidate), Different(list), NEW w \in Config, NEW error,
         ErrorsFor(list, w, error), NEW s \in ScoreCandidates(list, w, error)
  PROVE  LET n == Len(list)
             need(k) == Score(s[k].student, w)
         IN  /\ \A k \in 1 .. n : /\ s[k].student \in FiniteCandidate
                                  /\ need(k) \in Int /\ s[k].student.id \in Int
             /\ \A i, j \in 1 .. n : i < j => need(i) >= need(j)
             /\ (\A i, j \in 1 .. n : need(i) = need(j) => s[i].score = s[j].score) =>
                  \A i, j \in 1 .. n :
                    i < j /\ need(i) = need(j) => s[i].student.id < s[j].student.id
<1> DEFINE n == Len(list)
           need(k) == Score(s[k].student, w)
<1>1. /\ n \in Nat
      /\ \A k \in 1 .. n : \E i \in 1 .. n : s[k] = ScoreOne(list[i], w, error)
      /\ \A k, l \in 1 .. n : k # l => s[k].student.id # s[l].student.id
      /\ \A k \in 1 .. n - 1 : ~Before(s[k + 1], s[k])
  <2>1. OnceEach(list, w, error, s)
    BY RankedOnce
  <2>. QED BY <2>1 DEF OnceEach
<1>2. ASSUME NEW k \in 1 .. n
      PROVE  /\ s[k].student \in FiniteCandidate /\ s[k].student.id \in Int
             /\ need(k) \in Int /\ s[k].score \in Int
             /\ \E e \in Rounding : s[k].score = need(k) * Ulps + e
  <2>1. PICK i \in 1 .. n : s[k] = ScoreOne(list[i], w, error)
    BY <1>1
  <2>2. list[i] \in FiniteCandidate /\ error[Signals(list[i], w)] \in Rounding
    BY DEF ErrorsFor
  <2>3. s[k].student = list[i] /\ s[k].score = ComputedScore(list[i], w, error)
    BY <2>1 DEF ScoreOne
  <2>4. /\ ComputedScore(list[i], w, error) \in Int
        /\ \E e \in Rounding : ComputedScore(list[i], w, error) = Score(list[i], w) * Ulps + e
    BY <2>2, RoundingIsSmall
  <2>5. Score(list[i], w) \in Int /\ list[i].id \in Int
    BY <2>2, SignalsAreWhole DEF FiniteCandidate, Candidate
  <2>. QED
    BY <2>2, <2>3, <2>4, <2>5
<1>3. ASSUME NEW k \in 1 .. n - 1
      PROVE  need(k) >= need(k + 1)
  <2>1. k \in 1 .. n /\ k + 1 \in 1 .. n
    BY <1>1
  <2>2. PICK e \in Rounding : s[k].score = need(k) * Ulps + e
    BY <1>2, <2>1
  <2>3. PICK f \in Rounding : s[k + 1].score = need(k + 1) * Ulps + f
    BY <1>2, <2>1
  <2> DEFINE a == need(k)
             b == need(k + 1)
  <2>4. a \in Int /\ b \in Int
    BY <1>2, <2>1
  <2>5. Ulps \in Nat /\ Epsilon \in Nat /\ e \in Int /\ f \in Int /\ e + Epsilon < f + Ulps
    BY RankAssumption DEF RankAssumption
  <2>. HIDE DEF a, b
  <2>6. b >= a + 1 => b * Ulps >= a * Ulps + Ulps
    <3>1. b >= a + 1 => (b - a - 1) * Ulps >= 0
      BY <2>4, <2>5
    <3>2. (b - a - 1) * Ulps = b * Ulps - a * Ulps - Ulps
      BY <2>4, <2>5
    <3>3. a * Ulps \in Int /\ b * Ulps \in Int
      BY <2>4, <2>5
    <3>. QED BY <2>4, <2>5, <3>1, <3>2, <3>3
  <2>7. ~(s[k + 1].score > s[k].score + Epsilon)
    BY <1>1 DEF Before
  <2>8. a * Ulps \in Int /\ b * Ulps \in Int
    BY <2>4, <2>5
  <2>9. ~(b * Ulps + f > a * Ulps + e + Epsilon)
    <3>1. s[k].score = a * Ulps + e /\ s[k + 1].score = b * Ulps + f
      BY <2>2, <2>3 DEF a, b
    <3>. QED BY <2>7, <3>1
  <2>10. a >= b
    BY <2>4, <2>5, <2>6, <2>8, <2>9
  <2>. QED BY <2>10 DEF a, b
<1>4. ASSUME NEW k \in 1 .. n - 1, s[k].score = s[k + 1].score
      PROVE  s[k].student.id < s[k + 1].student.id
  <2>1. k \in 1 .. n /\ k + 1 \in 1 .. n /\ k # k + 1
    BY <1>1
  <2>2. /\ s[k].student.id \in Int /\ s[k + 1].student.id \in Int
        /\ s[k].student.id # s[k + 1].student.id
        /\ s[k].score \in Int /\ s[k + 1].score \in Int
    BY <1>1, <1>2, <2>1
  <2>3. Near(s[k + 1], s[k])
    BY <1>4, <2>2, RankAssumption DEF Near, RankAssumption
  <2>4. ~(s[k + 1].student.id < s[k].student.id)
    BY <1>1, <2>3 DEF Before
  <2>. QED BY <2>2, <2>4
<1> DEFINE f == [k \in 1 .. n |-> need(k)]
           g == [k \in 1 .. n |-> s[k].student.id]
<1>5. f \in [1 .. n -> Int] /\ g \in [1 .. n -> Int]
  BY <1>2
<1>6. \A k \in 1 .. n - 1 : f[k] >= f[k + 1]
  BY <1>1, <1>3
<1>7. ASSUME \A i, j \in 1 .. n : need(i) = need(j) => s[i].score = s[j].score
      PROVE  \A k \in 1 .. n - 1 : f[k] = f[k + 1] => g[k] < g[k + 1]
  BY <1>1, <1>4, <1>7
<1>8. \A k \in 1 .. n : f[k] = need(k) /\ g[k] = s[k].student.id
  OBVIOUS
<1>. HIDE DEF f, g, n
<1>9. \A i, j \in 1 .. n : i < j => f[i] >= f[j]
  BY <1>1, <1>5, <1>6, NeverRises
<1>10. ASSUME \A i, j \in 1 .. n : need(i) = need(j) => s[i].score = s[j].score
       PROVE  \A i, j \in 1 .. n : i < j /\ f[i] = f[j] => g[i] < g[j]
  BY <1>1, <1>5, <1>6, <1>7, <1>10, RisesAmongEquals
<1>. HIDE DEF need
<1>11. \A i, j \in 1 .. n : i < j => need(i) >= need(j)
  BY <1>8, <1>9
<1>12. (\A i, j \in 1 .. n : need(i) = need(j) => s[i].score = s[j].score) =>
         \A i, j \in 1 .. n : i < j /\ need(i) = need(j) => s[i].student.id < s[j].student.id
  BY <1>8, <1>10
<1>. QED
  BY <1>2, <1>11, <1>12 DEF n, need

\* With only the time since the last flight to go by, whoever waits longer, up
\* to the cap, is better placed.
LEMMA LongerWaitIsBetter ==
  ASSUME NEW a \in FiniteCandidate, NEW b \in FiniteCandidate, NEW w \in Config,
         w.since > 0, TotalWeight(w) = w.since, Flown(a) # {}, Flown(b) # {},
         AtMost(-Max(Flown(a)), Cap) > AtMost(-Max(Flown(b)), Cap)
  PROVE  Score(a, w) > Score(b, w)
<1> DEFINE x == -Max(Flown(a))
           y == -Max(Flown(b))
<1>1. Cap \in Nat \ {0} /\ Scale \in Nat /\ Cap <= Scale
  BY RankAssumption DEF RankAssumption
<1>2. x \in Nat /\ y \in Nat
  <2>1. Max(Flown(a)) \in Int /\ Max(Flown(a)) <= 0 /\ Max(Flown(b)) \in Int /\ Max(Flown(b)) <= 0
    BY DaysAreFinite, LastDayExists
  <2>. QED
    BY <2>1
<1>3. /\ TimeSinceLastFlight(a) = AtMost((x * Scale) \div Cap, Scale)
      /\ TimeSinceLastFlight(b) = AtMost((y * Scale) \div Cap, Scale)
  <2>1. \A z \in Int : (-z) * Scale = -(z * Scale)
    BY <1>1
  <2>2. Max(Flown(a)) \in Int /\ Max(Flown(b)) \in Int
    BY DaysAreFinite, LastDayExists
  <2>. QED
    BY <2>1, <2>2 DEF TimeSinceLastFlight
<1>4. AtMost(x, Cap) > AtMost(y, Cap)
  OBVIOUS
<1>. HIDE DEF x, y
<1>5. y < Cap /\ y + 1 <= x
  BY <1>1, <1>2, <1>4 DEF AtMost
<1> DEFINE p == (x * Scale) \div Cap
           q == (y * Scale) \div Cap
<1>6. x * Scale \in Int /\ y * Scale \in Int /\ x * Scale >= y * Scale + Cap
  <2>1. (x - y) * Scale >= Scale
    <3>1. \A z \in Nat : z >= 1 => z * Scale >= Scale
      BY <1>1
    <3>. QED
      BY <3>1, <1>2, <1>5
  <2>. QED
    BY <2>1, <1>1, <1>2
<1>7. /\ p \in Int /\ Cap * p <= x * Scale /\ x * Scale < Cap * p + Cap
      /\ q \in Int /\ Cap * q <= y * Scale /\ y * Scale < Cap * q + Cap
  BY <1>1, <1>6, Quotient
<1>8. y * Scale <= Cap * Scale - Cap /\ 0 <= y * Scale
  <2>1. \A z \in Nat : z >= 1 => z * Scale >= Scale
    BY <1>1
  <2>2. (Cap - y) * Scale >= Scale
    BY <2>1, <1>1, <1>2, <1>5
  <2>3. (Cap - y) * Scale = Cap * Scale - y * Scale
    BY <1>1, <1>2
  <2>. QED
    BY <2>2, <2>3, <1>1, <1>2, <1>6
<1>. HIDE DEF p, q
<1>9. q < p /\ q < Scale /\ 0 <= q
  <2>1. Cap * q < Cap * p
    BY <1>1, <1>6, <1>7
  <2>2. Cap * q < Cap * Scale
    BY <1>1, <1>6, <1>7, <1>8
  <2>3. 0 < Cap * (q + 1)
    BY <1>1, <1>6, <1>7, <1>8
  <2>4. \A u, v \in Int : Cap * u < Cap * v => u < v
    BY <1>1
  <2>. QED
    BY <2>1, <2>2, <2>3, <2>4, <1>1, <1>7
<1>10. /\ TimeSinceLastFlight(a) \in Int /\ TimeSinceLastFlight(b) \in Int
       /\ TimeSinceLastFlight(b) < TimeSinceLastFlight(a)
       /\ 0 <= TimeSinceLastFlight(b) /\ TimeSinceLastFlight(a) <= Scale
  BY <1>1, <1>3, <1>7, <1>9 DEF AtMost, p, q
<1>11. /\ w.since \in Nat \ {0} /\ w.until = 0 /\ w.hours = 0 /\ w.custom = 0
  BY DEF Config, TotalWeight
<1>12. ASSUME NEW c \in {a, b}
       PROVE  Sum(c, w) = w.since * TimeSinceLastFlight(c)
  <2>1. /\ TimeUntilNextFlight(c) \in Int /\ FlightHours(c, w.higherIsBetter) \in Int
        /\ Custom(c) \in Int /\ TimeSinceLastFlight(c) \in Int
    BY SignalsAreWhole
  <2>2. w.since * TimeSinceLastFlight(c) \in Int
    BY <2>1, <1>11
  <2>. QED
    BY <2>1, <2>2, <1>11 DEF Sum
<1>13. /\ w.since * TimeSinceLastFlight(b) < w.since * TimeSinceLastFlight(a)
       /\ 0 <= w.since * TimeSinceLastFlight(b)
       /\ w.since * TimeSinceLastFlight(a) <= w.since * Scale
       /\ w.since * TimeSinceLastFlight(a) \in Int /\ w.since * TimeSinceLastFlight(b) \in Int
       /\ w.since * Scale \in Int
  BY <1>1, <1>10, <1>11
<1>. QED
  BY <1>12, <1>13 DEF Score, Clamped, AtMost

RankedFrom(list, w, ranked) ==
  \E error : ErrorsFor(list, w, error) /\ ranked \in ScoreCandidates(list, w, error)

\* The invariant: the candidates are students FSP has, without what it did not
\* say of them, and the ranking is theirs.
RankIInv ==
  /\ weights \in Config
  /\ candidates \in Seq(FiniteCandidate) /\ Different(candidates)
  /\ \/ candidates = <<>> /\ ranking = <<>>
     \/ RankedFrom(candidates, weights, ranking)

LEMMA RankStarts == RankInit => RankIInv
<1> SUFFICES ASSUME RankInit PROVE RankIInv
  OBVIOUS
<1>1. candidates = <<>> /\ ranking = <<>> /\ weights \in Config
  BY RankAssumption DEF RankInit, RankAssumption
<1>. QED
  BY <1>1 DEF RankIInv, Different

LEMMA CandidateIsStudent ==
  ASSUME NEW c \in Candidates, NEW answers
  PROVE  /\ c \in FiniteCandidate /\ BuildCandidateInput(c, answers) \in FiniteCandidate
         /\ BuildCandidateInput(c, answers).id = c.id
<1>1. c \in Candidate /\ IsFiniteSet(c.flights) /\ IsFiniteSet(c.custom)
  BY RankAssumption DEF RankAssumption
<1> DEFINE d == BuildCandidateInput(c, answers)
<1>2. /\ d \in Candidate /\ d.id = c.id /\ d.custom = c.custom
      /\ d.flights = c.flights \/ d.flights = {}
  <2> DEFINE F == IF "reservations" \in answers THEN c.flights ELSE {}
             H == IF {"enrollments", "progress"} \subseteq answers THEN c.required ELSE 0
  <2>1. /\ c = [id |-> c.id, flights |-> c.flights, required |-> c.required,
                completed |-> c.completed, custom |-> c.custom]
        /\ c.id \in Int /\ c.flights \subseteq [day : Int, cancelled : BOOLEAN]
        /\ c.required \in Int /\ c.completed \in Int /\ c.custom \subseteq Int
    BY <1>1 DEF Candidate
  <2>2. d = [id |-> c.id, flights |-> F, required |-> H, completed |-> c.completed,
             custom |-> c.custom]
    <3>1. d = [c EXCEPT !.flights = F, !.required = H]
      BY DEF BuildCandidateInput
    <3>. HIDE DEF F, H, d
    <3>. QED
      BY <2>1, <3>1
  <2>3. F \subseteq [day : Int, cancelled : BOOLEAN] /\ H \in Int
    BY <2>1
  <2>. HIDE DEF F, H, d
  <2>4. d \in Candidate /\ d.id = c.id /\ d.custom = c.custom /\ d.flights = F
    BY <2>1, <2>2, <2>3 DEF Candidate
  <2>. QED
    BY <2>4 DEF F
<1>. QED
  BY <1>1, <1>2, FS_EmptySet DEF FiniteCandidate

LEMMA RankKeeps == RankIInv /\ [Rank]_rankVars => RankIInv'
<1> SUFFICES ASSUME RankIInv, [Rank]_rankVars PROVE RankIInv'
  OBVIOUS
<1>1. CASE UNCHANGED rankVars
  <2>1. UNCHANGED <<candidates, weights, ranking>>
    BY <1>1 DEF rankVars
  <2>. QED
    BY <2>1 DEF RankIInv, RankedFrom, Different
<1>2. CASE Rank
  <2>1. PICK list \in StudentLists, answers \in SUBSET Answers : \E k \in DOMAIN list :
          candidates' = [list EXCEPT ![k] = BuildCandidateInput(@, answers)]
    BY <1>2 DEF Rank
  <2>2. PICK k \in DOMAIN list :
          candidates' = [list EXCEPT ![k] = BuildCandidateInput(@, answers)]
    BY <2>1
  <2>3. PICK n \in 1 .. MaxCandidates : list \in [1 .. n -> Candidates]
    BY DEF StudentLists
  <2>4. \A i, j \in 1 .. n : i # j => list[i].id # list[j].id
    BY <2>3 DEF StudentLists
  <2>5. n \in Nat
    BY RankAssumption DEF RankAssumption
  <2>6. /\ candidates' \in [1 .. n -> FiniteCandidate]
        /\ \A i \in 1 .. n : candidates'[i].id = list[i].id
    BY <2>2, <2>3, CandidateIsStudent
  <2>7. candidates' \in Seq(FiniteCandidate)
    BY <2>5, <2>6
  <2>8. Different(candidates')
    BY <2>4, <2>6 DEF Different
  <2>9. weights' = weights /\ weights \in Config
    BY <1>2 DEF Rank, RankIInv
  <2>10. PICK error \in [{Signals(candidates'[i], weights) : i \in DOMAIN candidates'}
                         -> Rounding] :
           ranking' \in ScoreCandidates(candidates', weights, error)
    BY <1>2 DEF Rank
  <2>11. ErrorsFor(candidates', weights, error)
    BY <2>10 DEF ErrorsFor
  <2>12. RankedFrom(candidates', weights, ranking')
    BY <2>10, <2>11 DEF RankedFrom
  <2>13. RankedFrom(candidates, weights, ranking)'
    BY <2>9, <2>12 DEF RankedFrom, ErrorsFor
  <2>. QED
    BY <2>7, <2>8, <2>9, <2>13 DEF RankIInv
<1>. QED
  BY <1>1, <1>2

LEMMA RankIsEnough == RankIInv => RankingIsByNeed
<1> SUFFICES ASSUME RankIInv PROVE RankingIsByNeed
  OBVIOUS
<1>1. CASE candidates = <<>> /\ ranking = <<>>
  <2>1. DOMAIN ranking = {} /\ Len(ranking) = Len(candidates) /\ ToSet(candidates) = {}
    BY <1>1 DEF ToSet
  <2>. QED
    BY <2>1 DEF RankingIsByNeed, Students
<1>2. ASSUME NEW error, ErrorsFor(candidates, weights, error),
             ranking \in ScoreCandidates(candidates, weights, error)
      PROVE  RankingIsByNeed
  <2> DEFINE n == Len(candidates)
  <2>1. /\ weights \in Config /\ candidates \in Seq(FiniteCandidate) /\ Different(candidates)
        /\ DOMAIN candidates = 1 .. n
    BY DEF RankIInv
  <2>2. /\ n \in Nat /\ DOMAIN ranking = 1 .. n /\ Len(ranking) = n
        /\ \A k \in 1 .. n : \E i \in 1 .. n : ranking[k] = ScoreOne(candidates[i], weights, error)
        /\ \A i \in 1 .. n : \E k \in 1 .. n : ranking[k] = ScoreOne(candidates[i], weights, error)
    <3>1. OnceEach(candidates, weights, error, ranking)
      BY <1>2, <2>1, RankedOnce
    <3>. QED
      BY <3>1 DEF OnceEach
  <2>3. /\ \A k \in 1 .. n : ranking[k].student \in FiniteCandidate /\ ScoreAt(k) \in Int
        /\ \A i, j \in 1 .. n : i < j => ScoreAt(i) >= ScoreAt(j)
        /\ (\A i, j \in 1 .. n : ScoreAt(i) = ScoreAt(j) => ranking[i].score = ranking[j].score) =>
             \A i, j \in 1 .. n :
               i < j /\ ScoreAt(i) = ScoreAt(j) => ranking[i].student.id < ranking[j].student.id
    BY <1>2, <2>1, RankedByNeed DEF ScoreAt
  <2>. HIDE DEF n
  <2>4. Students = ToSet(candidates)
    <3>1. ToSet(candidates) = {candidates[i] : i \in 1 .. n}
      BY <2>1 DEF ToSet
    <3>2. Students = {ranking[k].student : k \in 1 .. n}
      BY <2>2 DEF Students
    <3>3. \A i : ScoreOne(candidates[i], weights, error).student = candidates[i]
      BY DEF ScoreOne
    <3>4. ASSUME NEW x \in Students PROVE x \in ToSet(candidates)
      <4>1. PICK k \in 1 .. n : x = ranking[k].student
        BY <3>2
      <4>2. PICK i \in 1 .. n : ranking[k] = ScoreOne(candidates[i], weights, error)
        BY <2>2
      <4>. QED BY <3>1, <3>3, <4>1, <4>2
    <3>5. ASSUME NEW x \in ToSet(candidates) PROVE x \in Students
      <4>1. PICK i \in 1 .. n : x = candidates[i]
        BY <3>1
      <4>2. PICK k \in 1 .. n : ranking[k] = ScoreOne(candidates[i], weights, error)
        BY <2>2
      <4>. QED BY <3>2, <3>3, <4>1, <4>2
    <3>. QED
      BY <3>4, <3>5
  <2>5. ASSUME weights.since > 0, TotalWeight(weights) = weights.since,
               NEW i \in 1 .. n, NEW j \in 1 .. n,
               Flown(ranking[i].student) # {}, Flown(ranking[j].student) # {},
               AtMost(-Max(Flown(ranking[i].student)), Cap)
                 > AtMost(-Max(Flown(ranking[j].student)), Cap)
        PROVE  i < j
    <3>1. ScoreAt(i) > ScoreAt(j)
      BY <2>1, <2>3, <2>5, LongerWaitIsBetter DEF ScoreAt
    <3>2. ScoreAt(i) \in Int /\ ScoreAt(j) \in Int /\ i \in Int /\ j \in Int
      BY <2>2, <2>3
    <3>3. ~(j < i)
      BY <2>3, <3>1, <3>2
    <3>4. i # j
      BY <3>1, <3>2
    <3>. QED
      BY <3>2, <3>3, <3>4
  <2>6. weights.since > 0 /\ TotalWeight(weights) = weights.since =>
          \A i, j \in DOMAIN ranking :
            LET a == ranking[i].student
                b == ranking[j].student
            IN  /\ Flown(a) # {} /\ Flown(b) # {}
                /\ AtMost(-Max(Flown(a)), Cap) > AtMost(-Max(Flown(b)), Cap)
                => i < j
    BY <2>2, <2>5, Zenon
  <2>7. \A i, j \in DOMAIN ranking : i < j => ScoreAt(i) >= ScoreAt(j)
    BY <2>2, <2>3, Zenon
  <2>8. (\A i, j \in DOMAIN ranking :
           ScoreAt(i) = ScoreAt(j) => ranking[i].score = ranking[j].score) =>
          \A i, j \in DOMAIN ranking :
            i < j /\ ScoreAt(i) = ScoreAt(j) => ranking[i].student.id < ranking[j].student.id
    BY <2>2, <2>3, Zenon
  <2>9. Len(ranking) = Len(candidates)
    BY <2>2 DEF n
  <2>. QED
    BY <2>4, <2>6, <2>7, <2>8, <2>9, Zenon DEF RankingIsByNeed
<1>. QED
  BY <1>1, <1>2 DEF RankIInv, RankedFrom

\* Whatever the students, the weights, what FSP leaves unanswered and how sums
\* are rounded: nobody in less need is ranked before one in more.
THEOREM RankingIsOfNeed == RankSpec => []RankingIsByNeed
  BY RankStarts, RankKeeps, RankIsEnough, PTL DEF RankSpec

(***************************************************************************)
(* The composition.  Only one component moves in a step and the others     *)
(* stand still, so each of them behaves as its own specification says.     *)
(***************************************************************************)

\* The components of the composition stand still while one of them moves.
servicesVars == <<part, pollVars, apiVars, workerVars>>

LEMMA OnePartMoves ==
  ASSUME [ServicesNext]_servicesVars
  PROVE  /\ [Next]_vars /\ [Poll]_polls /\ [PayloadNext]_payloadVars
         /\ [AuditNext]_auditVars /\ [SettingsNext]_settingsVars
         /\ [DashNext]_dashVars /\ [GuardNext]_guardVars
         /\ [TokenNext]_tokenVars /\ [FspServicesNext]_fspVars
         /\ [NoticeNext]_noticeVars /\ [DeadNext]_letterVars
         /\ [RationaleNext]_rationaleVars /\ [Rank]_rankVars
<1>. USE DEF pollVars, apiVars, workerVars, jobVars
<1>1. CASE UNCHANGED servicesVars
  BY <1>1 DEF servicesVars
<1>2. CASE BucketMoves
  BY <1>2 DEF BucketMoves
<1>3. CASE DiffMoves
  BY <1>3 DEF DiffMoves
<1>4. CASE AuditMoves
  BY <1>4 DEF AuditMoves
<1>5. CASE SettingsMove
  BY <1>5 DEF SettingsMove
<1>6. CASE DashboardMoves
  BY <1>6 DEF DashboardMoves
<1>7. CASE GuardMoves
  BY <1>7 DEF GuardMoves
<1>8. CASE TokensMove
  BY <1>8 DEF TokensMove
<1>9. CASE FspMoves
  BY <1>9 DEF FspMoves
<1>10. CASE NoticesMove
  BY <1>10 DEF NoticesMove
<1>11. CASE LettersMove
  BY <1>11 DEF LettersMove
<1>12. CASE RationaleMoves
  BY <1>12 DEF RationaleMoves
<1>13. CASE RankingMoves
  BY <1>13 DEF RankingMoves
<1>14. CASE PayloadMoves
  BY <1>14 DEF PayloadMoves
<1>. QED
  BY <1>1, <1>2, <1>3, <1>4, <1>5, <1>6, <1>7, <1>8, <1>9, <1>10, <1>11, <1>12, <1>13, <1>14
     DEF ServicesNext

\* The composition implements each of the specifications it is composed of:
\* what is proved of a component under its own specification is true of it here.
THEOREM ServicesAreApart ==
  ServicesSpec =>
    /\ Spec /\ DiffSpec /\ PayloadSpec
    /\ AuditSpec /\ SettingsSpec /\ DashSpec /\ GuardSpec
    /\ TokenSpec /\ FspServicesSpec
    /\ NoticeSpec /\ DeadSpec /\ RationaleSpec /\ RankSpec
<1>1. ServicesInit =>
        /\ Init /\ DiffInit /\ PayloadInit
        /\ AuditInit /\ SettingsInit /\ DashInit /\ GuardInit /\ TokenInit /\ FspInit
        /\ NoticeInit /\ DeadInit /\ RationaleInit /\ RankInit
  BY DEF ServicesInit
<1>. QED
  BY <1>1, OnePartMoves, PTL
     DEF ServicesSpec, servicesVars, Spec, DiffSpec, PayloadSpec, AuditSpec, SettingsSpec,
         DashSpec, GuardSpec, TokenSpec, FspServicesSpec, NoticeSpec, DeadSpec,
         RationaleSpec, RankSpec

(* The type invariants, each from the invariant of its component *)

\* A cursor is the stamp of an entry of the log, whoever answers when.
LEMMA AuditTypesKept ==
  ASSUME AuditIInv, AuditTypeOK, [AuditNext]_auditVars
  PROVE  AuditTypeOK'
<1>0. AuditTyped /\ PageSize \in Nat \ {0} /\ LastTime \in Nat
  BY AuditAssumption DEF AuditIInv, AuditAssumption
<1>1. CASE AuditTick
  BY <1>0, <1>1 DEF AuditTypeOK, AuditTick, tables, NoCursor
<1>2. ASSUME NEW r \in Row, BeginEntry(r) \/ CommitEntry(r)
      PROVE  AuditTypeOK'
  BY <1>0, <1>2 DEF AuditTypeOK, BeginEntry, CommitEntry, NoCursor
<1>3. CASE OpenFeed
  <2>1. PICK id \in 1 .. MaxAnswers :
          asked' = asked \cup {[id |-> id, kind |-> "initial", cursor |-> NoCursor]}
    BY <1>3 DEF OpenFeed
  <2>2. feed' = [feed EXCEPT !.isOpen = TRUE, !.isLoading = TRUE]
        /\ UNCHANGED <<auditClock, stamp, log, archived, batch>>
    BY <1>3 DEF OpenFeed, tables
  <2>. QED
    BY <1>0, <2>1, <2>2 DEF AuditTypeOK, AuditTyped, NoCursor
<1>10. CASE CloseFeed
  BY <1>0, <1>10 DEF AuditTypeOK, AuditTyped, CloseFeed, tables
<1>4. CASE ScrollFeed
  BY <1>0, <1>4 DEF AuditTypeOK, AuditTyped, ScrollFeed, tables, NoCursor
<1>5. ASSUME NEW q \in asked, FeedAnswered(q)
      PROVE  AuditTypeOK'
  <2>1. q.cursor \in Int /\ asked' = asked \ {q} /\ UNCHANGED <<auditClock, tables, batch>>
    BY <1>0, <1>5 DEF AuditTyped, FeedAnswered
  <2>2. PICK page \in ListAuditEntries(q.cursor, PageSize) :
          feed' = [feed EXCEPT
                !.entries = IF q.kind = "initial" THEN page.entries ELSE @ \o page.entries,
                !.nextCursor = page.nextCursor,
                !.isLoading = FALSE,
                !.since = IF q.kind = "initial" THEN Own(log) ELSE @,
                !.crossed = IF q.kind = "initial" THEN asked # {q} ELSE @]
    BY <1>5 DEF FeedAnswered
  <2>3. page.entries \in Seq(Row)
    BY <1>0, <2>1, PageIsRight
  <2>4. page.nextCursor \in 0 .. NoCursor
    <3> DEFINE found == {r \in Own(log) : stamp[r] < q.cursor}
    <3>1. PICK s \in Listings(found) :
            page.nextCursor = IF Len(s) > PageSize THEN stamp[s[PageSize]] ELSE NoCursor
      BY DEF ListAuditEntries
    <3>2. IsFiniteSet(found)
      <4>1. found \in SUBSET log
        BY DEF Own
      <4>. QED
        BY <1>0, <4>1, FS_Subset DEF AuditTyped
    <3>. HIDE DEF found
    <3>3. Cardinality(found) \in Nat /\ s \in [1 .. Cardinality(found) -> found]
          /\ Len(s) = Cardinality(found)
      BY <3>2, ListingNamesAll
    <3>4. Len(s) > PageSize => s[PageSize] \in found
      BY <1>0, <3>3
    <3>5. \A r \in found : stamp[r] \in 0 .. LastTime
      BY <1>0 DEF found, AuditTyped, Own
    <3>. QED
      BY <1>0, <3>1, <3>4, <3>5 DEF NoCursor
  <2>5. /\ feed'.isOpen = feed.isOpen /\ feed'.isLoading = FALSE
        /\ feed'.nextCursor = page.nextCursor
        /\ feed'.entries = page.entries \/ feed'.entries = feed.entries \o page.entries
        /\ feed'.since = Own(log) \/ feed'.since = feed.since
        /\ feed'.crossed \in BOOLEAN
    BY <1>0, <2>2 DEF AuditTyped
  <2>6. feed'.entries \in Seq(Row)
    <3>1. feed.entries \in Seq(Row)
      BY <1>0 DEF AuditTyped
    <3>2. feed.entries \o page.entries \in Seq(Row)
      BY <2>3, <3>1, ConcatProperties
    <3>. QED
      BY <2>3, <2>5, <3>1, <3>2
  <2>7. feed'.since \subseteq Row
    BY <1>0, <2>5 DEF AuditTyped, Own
  <2>. QED
    BY <2>1, <2>4, <2>5, <2>6, <2>7 DEF AuditTypeOK, tables
<1>6. ASSUME NEW q \in asked, FeedFailed(q)
      PROVE  AuditTypeOK'
  BY <1>0, <1>6 DEF AuditTypeOK, AuditTyped, FeedFailed, tables
<1>7. CASE CopyBatch
  BY <1>7 DEF AuditTypeOK, CopyBatch, OldestOf, Old, NoCursor
<1>8. CASE DeleteBatch
  BY <1>8 DEF AuditTypeOK, DeleteBatch, tables
<1>9. CASE UNCHANGED auditVars
  BY <1>9 DEF AuditTypeOK, auditVars, tables
<1>. QED
  BY <1>1, <1>2, <1>3, <1>4, <1>5, <1>6, <1>7, <1>8, <1>9, <1>10 DEF AuditNext

LEMMA AuditStaysTyped == AuditSpec => []AuditTypeOK
<1>1. AuditInit => AuditTypeOK
  BY AuditAssumption DEF AuditAssumption, AuditInit, AuditTypeOK, NoCursor
<1>. QED
  BY <1>1, AuditTypesKept, FeedStaysRight, PTL DEF AuditSpec

LEMMA SettingsStayTyped == SettingsSpec => []SettingsTypeOK
<1> DEFINE Pcs == \A p \in Put : put[p].pc \in {"idle", "merge", "done", "failed"}
<1>1. SettingsInit => Pcs
  BY DEF SettingsInit, NoUpdate
<1>2. Pcs /\ SettingsInv /\ [SettingsNext]_settingsVars => Pcs'
  <2>. SUFFICES ASSUME Pcs, SettingsInv, SettingsNext \/ UNCHANGED settingsVars
                PROVE  Pcs'
    OBVIOUS
  <2>0. put = [p \in Put |-> put[p]]
    BY DEF SettingsInv
  <2>1. ASSUME NEW p \in Put, NEW s, NEW req, BeginUpdate(p, s, req)
        PROVE  Pcs'
    BY <2>0, <2>1 DEF BeginUpdate
  <2>2. ASSUME NEW p \in Put, UpdateByOther(p)
        PROVE  Pcs'
    BY <2>1, <2>2 DEF UpdateByOther
  <2>3. ASSUME NEW p \in Put, WriteUpdate(p)
        PROVE  Pcs'
    <3> SUFFICES ASSUME NEW q \in Put PROVE put'[q].pc \in {"idle", "merge", "done", "failed"}
      OBVIOUS
    <3>1. put[q].pc = "merge" => put[q] \in Merging
      BY DEF SettingsInv, UpdateSound
    <3>2. \/ put'[q] = [pc |-> "done", section |-> put[p].section, config |-> Merged(put[p])]
          \/ put[q].pc = "merge" /\ put'[q] = [put[q] EXCEPT !.overtaken = TRUE]
          \/ put'[q] = put[q]
      BY <2>3 DEF WriteUpdate
    <3>. QED
      BY <3>1, <3>2 DEF Merging
  <2>4. ASSUME NEW p \in Put, UpdateFails(p) \/ AnswerOther(p)
        PROVE  Pcs'
    BY <2>0, <2>4 DEF UpdateFails, AnswerOther, NoUpdate
  <2>5. CASE Bootstrap \/ OpenPage
    BY <2>5 DEF Bootstrap, OpenPage
  <2>6. ASSUME NEW s \in Section, SaveForm(s)
        PROVE  Pcs'
    BY <2>1, <2>6 DEF SaveForm, Put
  <2>7. ASSUME NEW s \in Section, SaveAnswered(s)
        PROVE  Pcs'
    BY <2>0, <2>7 DEF SaveAnswered, NoUpdate, Put
  <2>8. ASSUME NEW s \in Section, NEW f \in Field, NEW x \in Value(f), EditForm(s, f, x)
        PROVE  Pcs'
    BY <2>8 DEF EditForm
  <2>9. CASE UNCHANGED settingsVars
    BY <2>9 DEF settingsVars
  <2>. QED
    BY <2>2, <2>3, <2>4, <2>5, <2>6, <2>7, <2>8, <2>9 DEF SettingsNext
<1>3. SettingsInv /\ Pcs => SettingsTypeOK
  BY DEF SettingsInv, SettingsTypeOK, OperatorRow, Column, FormTyped
<1>. QED
  BY <1>1, <1>2, <1>3, SettingsStaySound, PTL DEF SettingsSpec

LEMMA DashboardStaysTyped == DashSpec => []DashTypeOK
<1> DEFINE InType == /\ dashClock \in 0 .. LastDay /\ cache.at \in -1 .. dashClock
                    /\ shown \in 0 .. dashClock /\ ReadSince(cache.figures, 0)
<1>. USE DashAssumption
<1>1. DashInit => InType
  BY DEF DashInit, Nothing, NoFigures, Unread, ReadSince
<1>2. InType /\ DashIInv /\ [DashNext]_dashVars => InType'
  <2>. SUFFICES ASSUME InType, DashIInv, [DashNext]_dashVars
                PROVE  InType'
    OBVIOUS
  <2>0. DashTyped /\ RunsAreShort
    BY DEF DashIInv
  <2>1. CASE UNCHANGED <<dashClock, cache, shown>>
    BY <2>1 DEF ReadSince
  <2>2. CASE DashTick
    BY <2>0, <2>2 DEF DashTick, ReadSince, DashTyped, Figures, Reading
  <2>3. ASSUME NEW v \in Viewer, CacheHit(v)
        PROVE  InType'
    <3>1. OldestAge(cache.figures) \in 0 .. dashClock
      BY <2>0, OldestAgeIsBounded DEF DashTyped
    <3>2. shown' = OldestAge(cache.figures) /\ cache' = cache /\ dashClock' = dashClock
      BY <2>3 DEF CacheHit, AfterHit
    <3>. QED
      BY <3>1, <3>2 DEF ReadSince
  <2>4. ASSUME NEW v \in Viewer, StoreAndServe(v)
        PROVE  InType'
    <3>1. /\ viewer[v].figures \in Figures /\ viewer[v].begun \in Nat
          /\ viewer[v].begun <= dashClock /\ ReadSince(viewer[v].figures, viewer[v].begun)
      BY <2>0, <2>4 DEF DashTyped, RunsAreShort, StoreAndServe
    <3>2. OldestAge(viewer[v].figures) \in 0 .. dashClock
      BY <2>0, <3>1, OldestAgeIsBounded DEF DashTyped
    <3>3. ReadSince(viewer[v].figures, 0)
      BY <3>1 DEF ReadSince, Figures, Reading
    <3>4. /\ cache' = [figures |-> viewer[v].figures, at |-> dashClock]
          /\ shown' = OldestAge(viewer[v].figures) /\ dashClock' = dashClock
      BY <2>4 DEF StoreAndServe
    <3>. QED
      BY <3>2, <3>3, <3>4 DEF ReadSince
  <2>5. ASSUME NEW v \in Viewer, CacheMiss(v) \/ ReadOn(v)
        PROVE  InType'
    BY <2>1, <2>5 DEF CacheMiss, ReadOn
  <2>6. ASSUME NEW b \in Booking,
               BookingMade(b) \/ \E s \in {"APPROVED", "REJECTED"} : BookingResolved(b, s)
        PROVE  InType'
    BY <2>1, <2>6 DEF BookingMade, BookingResolved
  <2>. QED
    BY <2>1, <2>2, <2>3, <2>4, <2>5, <2>6 DEF DashNext, dashVars
<1>3. InType /\ DashIInv => DashTypeOK
  BY DEF DashTypeOK, DashIInv, DashTyped
<1>. QED
  BY <1>1, <1>2, <1>3, DashboardStaysSound, PTL DEF DashSpec

LEMMA GuardStaysTyped == GuardSpec => []GuardTypeOK
<1>1. GuardIInv => GuardTypeOK
  BY DEF GuardIInv, GuardTyped, GuardTypeOK, Step, Heading
<1>. QED
  BY <1>1, GuardStaysSound, PTL

LEMMA TokensStayTyped == TokenSpec => []TokenTypeOK
<1> DEFINE InType == /\ minute \in 0 .. LastMinute
                    /\ stored.ends <= minute + TokenLife
                    /\ stored.expiresAt <= minute + TokenLife
<1>. USE TokenAssumption
<1>1. TokenInit => InType
  BY DEF TokenInit, Absent
<1>2. InType /\ TokenIInv /\ [TokenNext]_tokenVars => InType'
  <2>. SUFFICES ASSUME InType, TokenIInv, [TokenNext]_tokenVars
                PROVE  InType'
    OBVIOUS
  <2>0. TokenTyped /\ RenewalsInTime
    BY DEF TokenIInv
  <2>1. CASE UNCHANGED tokenVars \/ RefreshJob
    BY <2>1 DEF tokenVars, RefreshJob
  <2>2. CASE Seed
    BY <2>0, <2>2 DEF Seed, TokenTyped
  <2>3. CASE TokenTick
    BY <2>0, <2>3 DEF TokenTick, TokenTyped
  <2>4. ASSUME NEW r \in refreshes, Issue(r) \/ RefreshFails(r)
        PROVE  InType'
    BY <2>4 DEF Issue, RefreshFails
  <2>5. ASSUME NEW r \in refreshes, RefreshAnswered(r)
        PROVE  InType'
    BY <2>0, <2>5 DEF RefreshAnswered, TokenTyped, RenewalsInTime
  <2>. QED
    BY <2>1, <2>2, <2>3, <2>4, <2>5 DEF TokenNext
<1>3. InType /\ TokenIInv => TokenTypeOK
  BY DEF TokenTypeOK, TokenIInv, TokenTyped, RenewalsInTime
<1>. QED
  BY <1>1, <1>2, <1>3, TokensStaySound, PTL DEF TokenSpec

LEMMA CallsStayTyped == FspServicesSpec => []FspTypeOK
<1> DEFINE InType == /\ FspTypeOK /\ (told = NoCall => tries <= FspRetries)
                    /\ (fspCall = NoCall => told = NoCall)
<1>. USE RetriesAssumption
<1>1. FspInit => InType
  BY DEF FspInit, FspTypeOK
<1>2. InType /\ [FspServicesNext]_fspVars => InType'
  <2>. SUFFICES ASSUME InType, [FspServicesNext]_fspVars
                PROVE  InType'
    OBVIOUS
  <2>1. CASE UNCHANGED fspVars
    BY <2>1 DEF fspVars, FspTypeOK
  <2>2. ASSUME NEW s \in Services, NEW m, NEW o, NEW request, CallFsp(s, m, o, request)
        PROVE  InType'
    BY <2>2 DEF CallFsp, FspTypeOK
  <2>3. ASSUME NEW answer \in FspAnswers, NEW changed, AttemptFsp(answer, changed)
        PROVE  InType'
    <3>1. /\ tries \in 0 .. FspRetries /\ tries' = tries + 1 /\ fspCall' = fspCall
          /\ heard' = answer /\ told = NoCall /\ fspCall # NoCall
          /\ effects' = effects \/ effects' = effects + 1 \/ effects' = 1
          /\ blamed' = blamed \/ blamed' = blamed + 1
      BY <2>3 DEF AttemptFsp, FspTypeOK
    <3>2. \/ told' = Done
          \/ told' = told /\ tries < FspRetries
          \/ told' = BuildError(Thrown(answer))
      BY <2>3 DEF AttemptFsp
    <3>3. /\ Done.success \in BOOLEAN /\ BuildError(Thrown(answer)).success \in BOOLEAN
          /\ Done # NoCall /\ BuildError(Thrown(answer)) # NoCall
      BY DEF Done, BuildError, NoCall
    <3>. QED
      BY <3>1, <3>2, <3>3 DEF FspTypeOK
  <2>. QED
    BY <2>1, <2>2, <2>3 DEF FspServicesNext
<1>. QED
  BY <1>1, <1>2, PTL DEF FspServicesSpec

LEMMA NoticesStayTyped == NoticeSpec => []NoticeTypeOK
<1> DEFINE Writing == {"template", "send", "record"}
           InType == /\ \A n \in Notice :
                         IF notice[n] \in Writing THEN message[n].type # "none"
                                                ELSE message[n] = NoMessage
                    /\ noticeAudits \subseteq Notice /\ dbRefused \subseteq Notice
                    /\ {d.call : d \in delivered} \subseteq Sms
<1>1. NoticeInit => InType
  BY DEF NoticeInit
<1>2. InType /\ NoticeInv /\ [NoticeNext]_noticeVars => InType'
  <2>. SUFFICES ASSUME InType, NoticeInv, [NoticeNext]_noticeVars
                PROVE  InType'
    OBVIOUS
  <2>0. NoticeShape /\ \A n \in Notice : MessageFits(n)
    BY DEF NoticeInv
  <2>1. ASSUME NEW n \in Notice, NEW step, NEW m, GoWith(n, step, m),
               IF step \in Writing THEN m.type # "none" ELSE m = NoMessage
        PROVE  \A k \in Notice : (IF notice[k] \in Writing THEN message[k].type # "none"
                                                        ELSE message[k] = NoMessage)'
    BY <2>0, <2>1 DEF GoWith, Go, NoticeShape
  <2>2. ASSUME NEW n \in Notice, NEW step, GoWithout(n, step), step \notin Writing
        PROVE  \A k \in Notice : (IF notice[k] \in Writing THEN message[k].type # "none"
                                                        ELSE message[k] = NoMessage)'
    BY <2>1, <2>2 DEF GoWithout
  <2>3. \A to, useCase : Addressed(to, NotificationType(useCase)).type # "none"
    BY DEF Addressed, NotificationType
  <2>4. ASSUME NEW n \in Notice, FetchForEmail(n) \/ FetchForSms(n)
        PROVE  InType'
    <3>1. \/ \E step \in {"failing", "skipped"} : GoWithout(n, step)
          \/ \E to, useCase : GoWith(n, "template", Addressed(to, NotificationType(useCase)))
      BY <2>4 DEF FetchForEmail, FetchForSms
    <3>2. UNCHANGED <<noticeAudits, dbRefused, delivered>>
      BY <2>4 DEF FetchForEmail, FetchForSms, noticeRest
    <3>. QED
      BY <2>1, <2>2, <2>3, <3>1, <3>2
  <2>5. ASSUME NEW n \in Notice, Render(n)
        PROVE  InType'
    <3>1. notice[n] = "template" /\ message[n].type # "none"
      BY <2>5 DEF Render
    <3>2. \/ GoWithout(n, "caught")
          \/ \E step \in Writing : \E left, size :
               GoWith(n, step, [to |-> message[n].to, type |-> message[n].type,
                                left |-> left, size |-> size])
      BY <2>5 DEF Render
    <3>3. UNCHANGED <<noticeAudits, dbRefused, delivered>>
      BY <2>5 DEF Render, noticeRest
    <3>. QED
      BY <2>1, <2>2, <3>1, <3>2, <3>3
  <2>6. ASSUME NEW n \in Notice, SendSms(n)
        PROVE  InType'
    <3>1. n \in Sms /\ message[n].type # "none"
      BY <2>0, <2>6 DEF SendSms, MessageFits
    <3>2. /\ GoWith(n, "record", message[n]) \/ GoWithout(n, "failing")
          /\ \/ delivered' = delivered
             \/ delivered' = delivered \cup {[call |-> n, message |-> message[n]]}
          /\ UNCHANGED <<noticeAudits, dbRefused>>
      BY <2>6 DEF SendSms
    <3>3. {d.call : d \in delivered'} \subseteq Sms
      BY <3>1, <3>2
    <3>. QED
      BY <2>1, <2>2, <3>1, <3>2, <3>3
  <2>7. ASSUME NEW n \in Notice, RecordSent(n) \/ WriteNoticeAudit(n) \/ RecordFailure(n)
        PROVE  InType'
    <3>1. /\ \E step \in {"audit", "succeeded", "failed"} : GoWithout(n, step)
          /\ noticeAudits' \subseteq noticeAudits \cup {n}
          /\ UNCHANGED <<delivered, dbRefused>>
      BY <2>7 DEF RecordSent, WriteNoticeAudit, RecordFailure
    <3>. QED
      BY <2>2, <3>1
  <2>8. ASSUME NEW n \in Notice, DatabaseRefuses(n)
        PROVE  InType'
    <3>1. GoWithout(n, AfterRefusal(notice[n])) /\ AfterRefusal(notice[n]) \notin Writing
      BY <2>8 DEF DatabaseRefuses, AfterRefusal
    <3>2. dbRefused' = dbRefused \cup {n} /\ UNCHANGED <<noticeAudits, delivered>>
      BY <2>8 DEF DatabaseRefuses, noticeRest
    <3>. QED
      BY <2>2, <3>1, <3>2
  <2>9. CASE UNCHANGED noticeVars
    BY <2>9 DEF noticeVars, noticeRest
  <2>. QED
    BY <2>4, <2>5, <2>6, <2>7, <2>8, <2>9 DEF NoticeNext
<1>3. InType /\ NoticeInv => NoticeTypeOK
  BY DEF NoticeInv, NoticeShape, NoticeSteps, NoticeTypeOK, NoMessage
<1>. QED
  BY <1>1, <1>2, <1>3, NoticesStaySound, PTL DEF NoticeSpec

LEMMA LettersStayTyped == DeadSpec => []DeadTypeOK
<1>1. DeadIInv => DeadTypeOK
  BY DEF DeadIInv, LettersTyped, Sweeps, SweepsAreSound, DeadTypeOK
<1>. QED
  BY <1>1, LettersStaySound, PTL

LEMMA RacesStayTyped == RationaleSpec => []RationaleTypeOK
<1> DEFINE InTime == ticks <= LastTick
<1>1. RationaleInit => InTime
  BY RationaleAssumption DEF RationaleInit
<1>2. RationaleIInv /\ InTime /\ [RationaleNext]_rationaleVars => InTime'
  BY RationaleAssumption
     DEF RationaleIInv, RationaleTyped, RationaleNext, rationaleVars, Generate, ModelAnswers,
         ModelFails, TimerFires, RationaleTick
<1>3. RationaleIInv /\ InTime => RationaleTypeOK
  BY RationaleAssumption DEF RationaleIInv, RationaleTyped, RationaleTypeOK
<1>. HIDE DEF InTime
<1>. QED
  BY <1>1, <1>2, <1>3, RacesStaySound, PTL DEF RationaleSpec

\* Each component keeps to its types wherever the others have got to.
THEOREM ServicesStayTyped == ServicesSpec => []ServicesTypeOK
<1>1. /\ AuditTypeOK /\ SettingsTypeOK /\ DashTypeOK /\ GuardTypeOK /\ TokenTypeOK
      /\ FspTypeOK /\ NoticeTypeOK /\ DeadTypeOK /\ RationaleTypeOK
      => ServicesTypeOK
  BY DEF ServicesTypeOK
<1>. QED
  BY <1>1, ServicesAreApart, AuditStaysTyped, SettingsStayTyped, DashboardStaysTyped,
     GuardStaysTyped, TokensStayTyped, CallsStayTyped, NoticesStayTyped, LettersStayTyped,
     RacesStayTyped, PTL
=============================================================================
