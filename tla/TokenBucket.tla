---------------------------- MODULE TokenBucket ----------------------------
(***************************************************************************)
(* The bucket that paces FSP polls: apps/worker/src/polling/token-bucket.  *)
(*                                                                         *)
(* One unit of time is the pause between two attempts of acquire()         *)
(* (TOKEN_BUCKET_POLL_INTERVAL_MS); a waiting caller tries once in every   *)
(* unit.  tryAcquire is synchronous, hence one action.  The clock is       *)
(* Date.now of the process and is taken to be monotonic.                   *)
(***************************************************************************)
EXTENDS Integers, Sequences

CONSTANTS
  Caller,    \* concurrent users of acquire()
  Capacity,  \* FSP_RATE_LIMIT_SAFE_CALLS_PER_MINUTE
  Interval,  \* TOKEN_BUCKET_REFILL_INTERVAL_MS
  Pause,     \* FSP_RATE_LIMIT_PAUSE_SECONDS
  Horizon    \* the instance ends here

ASSUME BucketAssumption ==
  /\ Capacity \in Nat \ {0} /\ Interval \in Nat \ {0} /\ Pause \in Nat
  /\ Horizon \in Nat

VARIABLES
  now,         \* the clock, 0 when the process starts
  tokens,
  lastRefill,  \* lastRefillTime
  pauseUntil,
  since,       \* per caller: when its acquire() began, Idle if none is pending
  tried,       \* callers that have tried in this unit of time
  grants       \* history: the times at which a token was handed out

bucket == <<tokens, lastRefill, pauseUntil>>
callers == <<since, tried>>
vars == <<now, bucket, callers, grants>>

Idle == -1

Init ==
  /\ now = 0
  /\ tokens = Capacity
  /\ lastRefill = 0
  /\ pauseUntil = 0
  /\ since = [c \in Caller |-> Idle]
  /\ tried = {}
  /\ grants = <<>>

\* refillTokens: whole intervals since the last refill.
Elapsed == (now - lastRefill) \div Interval

\* Mutation: the time moves although nothing was refilled.
RefillTimeRestarts == now

RefillTime == lastRefill + Elapsed * Interval

\* Mutation: tokens pile up over idle intervals.
TokensUncapped == tokens + Elapsed * Capacity

RefilledTokens ==
  IF tokens + Elapsed * Capacity < Capacity THEN tokens + Elapsed * Capacity
                                            ELSE Capacity

IsPaused == now < pauseUntil

\* acquire() is called; its first attempt follows at once.
Acquire(c) ==
  /\ since[c] = Idle
  /\ since' = [since EXCEPT ![c] = now]
  /\ tried' = tried \ {c}
  /\ UNCHANGED <<now, bucket, grants>>

\* Mutation: the pause is not looked at.
GrantedInPause(c) ==
  /\ since[c] # Idle /\ c \notin tried
  /\ RefilledTokens > 0
  /\ tokens' = RefilledTokens - 1 /\ lastRefill' = RefillTime
  /\ since' = [since EXCEPT ![c] = Idle]
  /\ grants' = Append(grants, now)
  /\ UNCHANGED <<now, pauseUntil, tried>>

\* tryAcquire hands out a token.
Granted(c) ==
  /\ since[c] # Idle /\ c \notin tried
  /\ ~IsPaused /\ RefilledTokens > 0
  /\ tokens' = RefilledTokens - 1 /\ lastRefill' = RefillTime
  /\ since' = [since EXCEPT ![c] = Idle]
  /\ grants' = Append(grants, now)
  /\ UNCHANGED <<now, pauseUntil, tried>>

\* tryAcquire refuses: paused or empty, after the refill.
Refused(c) ==
  /\ since[c] # Idle /\ c \notin tried
  /\ IsPaused \/ RefilledTokens = 0
  /\ tokens' = RefilledTokens /\ lastRefill' = RefillTime
  /\ tried' = tried \cup {c}
  /\ UNCHANGED <<now, pauseUntil, since, grants>>

\* pause(), called by a caller whose FSP request came back with a 429.
PauseBucket(c) ==
  /\ since[c] = Idle /\ grants # <<>>
  /\ pauseUntil' = now + Pause
  /\ UNCHANGED <<now, tokens, lastRefill, callers, grants>>

\* getTokenCount() refills as well.
Look ==
  /\ tokens' = RefilledTokens /\ lastRefill' = RefillTime
  /\ UNCHANGED <<now, pauseUntil, callers, grants>>

\* Time passes when every waiting caller has made its attempt.
Tick ==
  /\ now < Horizon
  /\ \A c \in Caller : since[c] # Idle => c \in tried
  /\ now' = now + 1
  /\ tried' = {}
  /\ UNCHANGED <<bucket, since, grants>>

Next ==
  \/ \E c \in Caller :
       Acquire(c) \/ Granted(c) \/ Refused(c) \/ PauseBucket(c)
  \/ Look \/ Tick

Spec == Init /\ [][Next]_vars

-----------------------------------------------------------------------------
(* What is true of it                                                      *)

\* Counters and times are in range.
TypeOK ==
  /\ now \in Nat
  /\ tokens \in 0 .. Capacity
  /\ lastRefill \in 0 .. now
  /\ pauseUntil \in 0 .. now + Pause
  /\ since \in [Caller -> {Idle} \cup (0 .. now)]
  /\ tried \subseteq Caller
  /\ grants \in Seq(0 .. now)

\* The end of an interval lies after s and not after t.
RefillBetween(s, t) == \E k \in 0 .. now : s < k * Interval /\ k * Interval <= t

\* Every refill lies a whole number of intervals after the start, however
\* late it is noticed, and between a grant and the one Capacity further on
\* there is one: a window that starts at a refill sees at most Capacity calls.
OneBucketPerWindow ==
  \A i \in DOMAIN grants : i + Capacity \in DOMAIN grants =>
    RefillBetween(grants[i], grants[i + Capacity])

\* Whatever window of one interval is looked at, it sees at most two buckets:
\* what was left in one and all of the next.
AtMostTwoBuckets ==
  \A i \in DOMAIN grants : i + 2 * Capacity \in DOMAIN grants =>
    grants[i + 2 * Capacity] - grants[i] > Interval

\* After a 429 no token is handed out until the pause is over.
PauseIsKept == [][grants' # grants => now >= pauseUntil]_vars

\* Whoever calls, and whenever a refill is noticed, the bucket is the limiter
\* of WindowLimiter: windows begin at the whole intervals after the process
\* started, each sees at most Capacity grants, a pause closes it.  What is used
\* of a window is what the refill due now would leave missing.
Limiter == INSTANCE WindowLimiter WITH used <- Capacity - RefilledTokens,
                                       closedUntil <- pauseUntil,
                                       granted <- Len(grants)
BucketIsALimiter == Limiter!Spec

\* With one consumer at a time, as in a worker, no poll waits longer than the
\* longer of the pause and the interval.
WaitIsBounded ==
  \A c \in Caller : since[c] # Idle =>
    now - since[c] <= (IF Pause > Interval THEN Pause ELSE Interval)
=============================================================================
