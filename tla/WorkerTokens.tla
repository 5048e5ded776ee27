---------------------------- MODULE WorkerTokens ----------------------------
(***************************************************************************)
(* The worker's store of FSP tokens and the minutely job that renews them  *)
(* (apps/worker/src/auth), for one operator.                               *)
(*                                                                         *)
(* One unit of time is the period of the job.  Nothing under apps/ puts a  *)
(* first token into the store; that is done from outside, as the tests do. *)
(* FSP counts a token's life from when it issues it, the store from when   *)
(* the answer is there.                                                    *)
(***************************************************************************)
EXTENDS Integers, FiniteSets

CONSTANTS
  TokenLife,   \* expiresIn
  Buffer,      \* TOKEN_REFRESH_BUFFER_MINUTES
  MaxDelay,    \* the longest wait for FSP
  LastMinute   \* the clock stops here

ASSUME TokenAssumption ==
  /\ TokenLife \in Nat \ {0} /\ Buffer \in Nat /\ MaxDelay \in Nat /\ LastMinute \in Nat
  /\ 2 * MaxDelay < Buffer /\ Buffer < TokenLife

VARIABLES
  minute,
  jobRan,      \* the job of this minute has started
  stored,      \* the record of the TokenStore, Absent before the first
  refreshes,   \* requests to FSP under way
  refreshFailed   \* history: a refresh failed

tokenVars == <<minute, jobRan, stored, refreshes, refreshFailed>>

\* ends: until when FSP takes the token; expiresAt: what the store says.
Absent == [ends |-> 0, expiresAt |-> 0]

TokenInit ==
  /\ minute = 0 /\ jobRan = FALSE
  /\ stored = Absent
  /\ refreshes = {}
  /\ refreshFailed = FALSE

\* From outside: the first token.
Seed ==
  /\ stored = Absent
  /\ stored' = [ends |-> minute + TokenLife, expiresAt |-> minute + TokenLife]
  /\ UNCHANGED <<minute, jobRan, refreshes, refreshFailed>>

\* getToken() gives the token until the store takes it for expired.
HasToken == stored # Absent /\ minute < stored.expiresAt

\* Mutation: only a token that is due by now is taken for expiring.
DueByNow == stored # Absent /\ stored.expiresAt <= minute + 1

IsExpiringSoon == stored # Absent /\ stored.expiresAt <= minute + Buffer

\* handleTokenRefresh: a token that expires soon is renewed with itself, one
\* that has expired is not any more.  A renewal that is under way does not
\* keep the next job from asking again.
RefreshJob ==
  /\ ~jobRan
  /\ jobRan' = TRUE
  /\ refreshes' = IF IsExpiringSoon /\ HasToken
                  THEN refreshes \cup {[asked |-> minute, ends |-> 0]}
                  ELSE refreshes
  /\ UNCHANGED <<minute, stored, refreshFailed>>

\* FSP issues the new token.
Issue(r) ==
  /\ r.ends = 0
  /\ refreshes' = (refreshes \ {r})
                    \cup {[r EXCEPT !.ends = minute + TokenLife]}
  /\ UNCHANGED <<minute, jobRan, stored, refreshFailed>>

\* The answer replaces what is stored, be that newer or not.
RefreshAnswered(r) ==
  /\ r.ends # 0
  /\ stored' = [ends |-> r.ends, expiresAt |-> minute + TokenLife]
  /\ refreshes' = refreshes \ {r}
  /\ UNCHANGED <<minute, jobRan, refreshFailed>>

\* FSP refuses or cannot be reached: the next job tries again.
RefreshFails(r) ==
  /\ refreshes' = refreshes \ {r}
  /\ refreshFailed' = TRUE
  /\ UNCHANGED <<minute, jobRan, stored>>

TokenTick ==
  /\ minute < LastMinute /\ jobRan
  /\ \A r \in refreshes : minute < r.asked + MaxDelay
  /\ minute' = minute + 1 /\ jobRan' = FALSE
  /\ UNCHANGED <<stored, refreshes, refreshFailed>>

TokenNext ==
  \/ Seed \/ RefreshJob \/ TokenTick
  \/ \E r \in refreshes : Issue(r) \/ RefreshAnswered(r) \/ RefreshFails(r)

TokenSpec == TokenInit /\ [][TokenNext]_tokenVars

-----------------------------------------------------------------------------
(* What is true of it                                                      *)

TokenTypeOK ==
  /\ minute \in 0 .. LastMinute /\ jobRan \in BOOLEAN /\ refreshFailed \in BOOLEAN
  /\ stored.ends \in 0 .. minute + TokenLife
  /\ stored.expiresAt \in 0 .. minute + TokenLife
  /\ \A r \in refreshes : r.asked \in 0 .. minute

\* Once there is a token, and as long as FSP answers every renewal in less
\* than half the buffer, the store always has one that FSP takes: neither do late
\* answers that replace a newer token leave a gap, nor does the store's later
\* count of its life.  If renewals fail, a token the store hands out is at
\* most the delay of one answer too old.
TokenKeepsWorking ==
  /\ HasToken => minute < stored.ends + MaxDelay
  /\ stored # Absent /\ ~refreshFailed => HasToken /\ minute < stored.ends
=============================================================================
