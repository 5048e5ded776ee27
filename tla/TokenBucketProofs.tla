------------------------- MODULE TokenBucketProofs -------------------------
(***************************************************************************)
(* What TokenBucket hands out, for every capacity, interval and pause.     *)
(*                                                                         *)
(* The inductive invariant relates three things: lastRefill lies on the    *)
(* lattice of whole intervals, no grant is an interval younger than it,    *)
(* and the grants since the last refill together with the tokens left      *)
(* never exceed the capacity.                                              *)
(***************************************************************************)
EXTENDS TokenBucket, TLAPS

LEMMA DivBounds ==
  ASSUME NEW x \in Nat, NEW d \in Nat \ {0}
  PROVE  /\ x \div d \in Nat
         /\ (x \div d) * d <= x
         /\ x < (x \div d) * d + d
BY SMT

LEMMA ProductIsNat ==
  ASSUME NEW k \in Nat, NEW d \in Nat
  PROVE  k * d \in Nat
BY SMT

LEMMA ProductGrows ==
  ASSUME NEW k \in Nat, NEW d \in Nat, k > 0
  PROVE  k * d >= d
<1>1. PICK m \in Nat : k = m + 1
  <2>. WITNESS k - 1 \in Nat
  <2>. QED  OBVIOUS
<1>2. k * d = m * d + d
  BY <1>1, SMT
<1>3. m * d \in Nat
  BY ProductIsNat
<1>. QED  BY <1>2, <1>3

LEMMA MultiplesAdd ==
  ASSUME NEW k \in Nat, NEW n \in Nat, NEW d \in Nat
  PROVE  k * d + n * d = (k + n) * d
BY SMT

LEMMA FactorIsSmaller ==
  ASSUME NEW k \in Nat, NEW d \in Nat \ {0}, NEW m \in Nat, k * d <= m
  PROVE  k <= m
<1>1. k * d >= k
  <2>1. PICK e \in Nat : d = e + 1
    <3>. WITNESS d - 1 \in Nat
    <3>. QED  OBVIOUS
  <2>2. k * d = k * e + k
    BY <2>1, SMT
  <2>. QED  BY <2>2, ProductIsNat
<1>. QED  BY <1>1, ProductIsNat

\* Two different multiples are at least one step apart.
LEMMA MultiplesApart ==
  ASSUME NEW k \in Nat, NEW n \in Nat, NEW d \in Nat \ {0}, k * d < n * d
  PROVE  n * d - k * d >= d
<1>1. k < n
  BY SMT
<1>2. PICK m \in Nat : n = k + m + 1
  <2>. WITNESS n - k - 1 \in Nat
  <2>. QED  BY <1>1
<1>3. n * d = k * d + m * d + d
  BY <1>2, SMT
<1>4. m * d \in Nat /\ k * d \in Nat
  BY ProductIsNat
<1>. QED  BY <1>3, <1>4

-----------------------------------------------------------------------------
(* The invariant                                                           *)

\* Refills happen at whole intervals.
OnLattice == \E k \in 0 .. now : lastRefill = k * Interval

\* A grant has refilled first, so it lies within an interval of lastRefill.
Recent == \A i \in DOMAIN grants : grants[i] < lastRefill + Interval

\* Grants since the last refill and tokens left make at most one bucket.
OneBucket ==
  \A i \in DOMAIN grants :
    grants[i] >= lastRefill => Len(grants) - i + 1 + tokens <= Capacity

IInv == TypeOK /\ OnLattice /\ Recent /\ OneBucket /\ OneBucketPerWindow

\* What refillTokens computes: a time that is not in the future, nothing new
\* before an interval is over, a full bucket after it.
LEMMA RefillFacts ==
  ASSUME TypeOK
  PROVE  /\ RefillTime \in lastRefill .. now
         /\ now < RefillTime + Interval
         /\ RefilledTokens \in 0 .. Capacity
         /\ \/ RefillTime = lastRefill /\ RefilledTokens = tokens
            \/ RefillTime >= lastRefill + Interval /\ RefilledTokens = Capacity
<1>. USE BucketAssumption DEF TypeOK
<1>1. now - lastRefill \in Nat
  OBVIOUS
<1>2. /\ Elapsed \in Nat
      /\ Elapsed * Interval <= now - lastRefill
      /\ now - lastRefill < Elapsed * Interval + Interval
  BY <1>1, DivBounds DEF Elapsed
<1>3. Elapsed * Interval \in Nat /\ Elapsed * Capacity \in Nat
  BY <1>2, ProductIsNat
<1>4. RefillTime \in lastRefill .. now /\ now < RefillTime + Interval
  BY <1>2, <1>3 DEF RefillTime
<1>6. RefilledTokens \in 0 .. Capacity
  BY <1>3 DEF RefilledTokens
<1>7. CASE Elapsed = 0
  <2>1. Elapsed * Interval = 0 /\ Elapsed * Capacity = 0
    BY <1>7, SMT
  <2>2. RefillTime = lastRefill /\ RefilledTokens = tokens
    BY <2>1 DEF RefillTime, RefilledTokens
  <2>. QED  BY <2>2, <1>4, <1>6
<1>8. CASE Elapsed > 0
  <2>1. Elapsed * Interval >= Interval /\ Elapsed * Capacity >= Capacity
    BY <1>8, <1>2, ProductGrows
  <2>2. RefillTime >= lastRefill + Interval
    BY <2>1, <1>3 DEF RefillTime
  <2>3. RefilledTokens = Capacity
    BY <2>1, <1>3 DEF RefilledTokens
  <2>. QED  BY <2>2, <2>3, <1>4, <1>6
<1>. QED  BY <1>2, <1>7, <1>8

LEMMA RefillOnLattice ==
  ASSUME TypeOK, OnLattice
  PROVE  \E k \in 0 .. now : RefillTime = k * Interval
<1>. USE BucketAssumption DEF TypeOK
<1>1. PICK n \in 0 .. now : lastRefill = n * Interval
  BY DEF OnLattice
<1>2. Elapsed \in Nat
  BY DivBounds DEF Elapsed
<1>3. RefillTime = (n + Elapsed) * Interval
  BY <1>1, <1>2, MultiplesAdd DEF RefillTime
<1>4. n + Elapsed <= now
  BY <1>2, <1>3, RefillFacts, FactorIsSmaller
<1>5. n + Elapsed \in 0 .. now
  BY <1>2, <1>4
<1>. WITNESS n + Elapsed \in 0 .. now
<1>. QED  BY <1>3

LEMMA InitInvariant == Init => IInv
<1>. SUFFICES ASSUME Init PROVE IInv
  OBVIOUS
<1>. USE BucketAssumption DEF Init
<1>1. TypeOK
  BY DEF TypeOK, Idle
<1>2. OnLattice
  <2>1. 0 = 0 * Interval
    BY SMT
  <2>. QED  BY <2>1 DEF OnLattice
<1>. QED  BY <1>1, <1>2 DEF IInv, Recent, OneBucket, OneBucketPerWindow, RefillBetween

\* A refill alone keeps the invariant; the bookkeeping of callers is free.
LEMMA RefillStep ==
  ASSUME IInv, now' = now, grants' = grants, pauseUntil' = pauseUntil,
         tokens' = RefilledTokens, lastRefill' = RefillTime,
         since' \in [Caller -> {Idle} \cup (0 .. now)], tried' \subseteq Caller
  PROVE  IInv'
<1>. USE BucketAssumption
<1>1. TypeOK /\ OnLattice
  BY DEF IInv
<1>2. TypeOK'
  BY <1>1, RefillFacts DEF TypeOK
<1>3. OnLattice'
  BY <1>1, RefillOnLattice DEF OnLattice
<1>4. Recent'
  BY <1>1, RefillFacts DEF IInv, Recent, TypeOK
<1>5. OneBucket'
  BY <1>1, RefillFacts, SMTT(30) DEF IInv, OneBucket, Recent, TypeOK
<1>6. OneBucketPerWindow'
  BY DEF IInv, OneBucketPerWindow, RefillBetween
<1>. QED  BY <1>2, <1>3, <1>4, <1>5, <1>6 DEF IInv

LEMMA GrantStep ==
  ASSUME IInv, NEW c \in Caller, Granted(c)
  PROVE  IInv'
<1>. USE BucketAssumption
<1>1. TypeOK /\ OnLattice /\ Recent /\ OneBucket /\ OneBucketPerWindow
  BY DEF IInv
<1>2. /\ grants' = Append(grants, now) /\ now' = now
      /\ RefilledTokens > 0 /\ tokens' = RefilledTokens - 1
      /\ lastRefill' = RefillTime /\ pauseUntil' = pauseUntil
      /\ since' = [since EXCEPT ![c] = Idle] /\ tried' = tried
  BY DEF Granted
<1>3. /\ grants' \in Seq(0 .. now) /\ Len(grants') = Len(grants) + 1
      /\ \A i \in 1 .. Len(grants) : grants'[i] = grants[i]
      /\ grants'[Len(grants) + 1] = now
  BY <1>1, <1>2 DEF TypeOK
<1>4. /\ DOMAIN grants = 1 .. Len(grants)
      /\ DOMAIN grants' = 1 .. Len(grants) + 1
      /\ Len(grants) \in Nat
      /\ \A i \in 1 .. Len(grants) : grants[i] \in 0 .. now
  BY <1>1, <1>3 DEF TypeOK
<1>5. TypeOK'
  <2>1. since' \in [Caller -> {Idle} \cup (0 .. now)]
    BY <1>1, <1>2 DEF TypeOK
  <2>. QED  BY <2>1, <1>1, <1>2, <1>3, RefillFacts, SMTT(30) DEF TypeOK
<1>6. OnLattice'
  BY <1>1, <1>2, RefillOnLattice DEF OnLattice
<1>7. Recent'
  <2>. SUFFICES ASSUME NEW i \in 1 .. Len(grants) + 1
       PROVE  grants'[i] < RefillTime + Interval
    BY <1>2, <1>4 DEF Recent
  <2>1. CASE i = Len(grants) + 1
    BY <2>1, <1>1, <1>3, RefillFacts
  <2>2. CASE i \in 1 .. Len(grants)
    <3>1. grants[i] < lastRefill + Interval
      BY <2>2, <1>1, <1>4 DEF Recent
    <3>. QED  BY <3>1, <2>2, <1>1, <1>3, <1>4, RefillFacts, SMTT(30) DEF TypeOK
  <2>. QED  BY <2>1, <2>2, <1>4
<1>8. OneBucket'
  <2>. SUFFICES ASSUME NEW i \in 1 .. Len(grants) + 1,
                       grants'[i] >= RefillTime
       PROVE  Len(grants) + 1 - i + 1 + (RefilledTokens - 1) <= Capacity
    BY <1>2, <1>3, <1>4 DEF OneBucket
  <2>1. CASE i = Len(grants) + 1
    BY <2>1, <1>1, <1>4, RefillFacts
  <2>2. CASE i \in 1 .. Len(grants)
    <3>1. grants[i] < lastRefill + Interval /\ grants[i] >= RefillTime
      BY <2>2, <1>1, <1>3, <1>4 DEF Recent
    <3>2. RefillTime = lastRefill /\ RefilledTokens = tokens
      BY <3>1, <2>2, <1>1, <1>4, RefillFacts DEF TypeOK
    <3>3. Len(grants) - i + 1 + tokens <= Capacity
      BY <3>1, <3>2, <2>2, <1>1, <1>4 DEF OneBucket
    <3>. QED  BY <3>2, <3>3, <2>2, <1>1, <1>4 DEF TypeOK
  <2>. QED  BY <2>1, <2>2, <1>4
<1>9. OneBucketPerWindow'
  <2>. SUFFICES ASSUME NEW i \in 1 .. Len(grants) + 1,
                       i + Capacity \in 1 .. Len(grants) + 1
       PROVE  RefillBetween(grants'[i], grants'[i + Capacity])
    BY <1>2, <1>4 DEF OneBucketPerWindow, RefillBetween
  <2>1. CASE i + Capacity \in 1 .. Len(grants)
    <3>0. i \in DOMAIN grants /\ i + Capacity \in DOMAIN grants
      BY <2>1, <1>4
    <3>1. RefillBetween(grants[i], grants[i + Capacity])
      BY <3>0, <1>1 DEF OneBucketPerWindow
    <3>2. grants'[i] = grants[i] /\ grants'[i + Capacity] = grants[i + Capacity]
      BY <2>1, <1>3, <1>4
    <3>. QED  BY <3>1, <3>2
  <2>2. CASE i + Capacity = Len(grants) + 1
    <3>1. i \in 1 .. Len(grants) /\ grants'[i] = grants[i]
      BY <2>2, <1>3, <1>4
    <3>2. grants[i] < RefillTime
      <4>1. SUFFICES ASSUME grants[i] >= RefillTime PROVE FALSE
        BY <3>1, <1>1, <1>4, RefillFacts DEF TypeOK
      <4>2. Len(grants') - i + 1 + tokens' <= Capacity
        <5>1. i \in DOMAIN grants' /\ grants'[i] >= lastRefill'
          BY <4>1, <3>1, <1>2, <1>4
        <5>. QED  BY <5>1, <1>8 DEF OneBucket
      <4>3. RefilledTokens \in Nat /\ RefilledTokens > 0 /\ Capacity \in Nat
        BY <1>1, <1>2, RefillFacts
      <4>. QED  BY <4>2, <4>3, <2>2, <1>2, <1>3, <1>4
    <3>3. PICK k \in 0 .. now : RefillTime = k * Interval
      BY <1>1, RefillOnLattice
    <3>4. k * Interval <= now
      BY <3>3, <1>1, RefillFacts
    <3>5. grants'[i + Capacity] = now
      BY <2>2, <1>3
    <3>. QED  BY <3>1, <3>2, <3>3, <3>4, <3>5 DEF RefillBetween
  <2>. QED  BY <2>1, <2>2, <1>4
<1>. QED  BY <1>5, <1>6, <1>7, <1>8, <1>9 DEF IInv

LEMMA NextInvariant == IInv /\ [Next]_vars => IInv'
<1>. SUFFICES ASSUME IInv, [Next]_vars PROVE IInv'
  OBVIOUS
<1>. USE BucketAssumption
<1>0. TypeOK
  BY DEF IInv
<1>1. ASSUME NEW c \in Caller, Acquire(c) PROVE IInv'
  <2>1. since' \in [Caller -> {Idle} \cup (0 .. now)] /\ tried' \subseteq Caller
    BY <1>0, <1>1 DEF Acquire, TypeOK
  <2>. QED  BY <2>1, <1>1 DEF Acquire, bucket, IInv, TypeOK, OnLattice, Recent,
                             OneBucket, OneBucketPerWindow, RefillBetween
<1>2. ASSUME NEW c \in Caller, Granted(c) PROVE IInv'
  BY <1>2, GrantStep
<1>3. ASSUME NEW c \in Caller, Refused(c) PROVE IInv'
  BY <1>0, <1>3, RefillStep DEF Refused, TypeOK
<1>4. ASSUME NEW c \in Caller, PauseBucket(c) PROVE IInv'
  BY <1>4 DEF PauseBucket, callers, IInv, TypeOK, OnLattice, Recent, OneBucket,
              OneBucketPerWindow, RefillBetween
<1>5. CASE Look
  BY <1>0, <1>5, RefillStep DEF Look, callers, TypeOK
<1>6. CASE Tick
  <2>1. now' = now + 1 /\ now \in Nat
    BY <1>0, <1>6 DEF Tick, TypeOK
  <2>2. /\ tokens' = tokens /\ lastRefill' = lastRefill
        /\ pauseUntil' = pauseUntil /\ since' = since /\ grants' = grants
        /\ tried' = {}
    BY <1>6 DEF Tick, bucket
  <2>3. TypeOK'
    <3>1. since' \in [Caller -> {Idle} \cup (0 .. now')]
      BY <1>0, <2>1, <2>2 DEF TypeOK
    <3>2. grants' \in Seq(0 .. now')
      BY <1>0, <2>1, <2>2 DEF TypeOK
    <3>. QED  BY <1>0, <2>1, <2>2, <3>1, <3>2 DEF TypeOK
  <2>4. OnLattice'
    BY <2>1, <2>2 DEF IInv, OnLattice
  <2>5. OneBucketPerWindow'
    <3>1. ASSUME NEW s, NEW t, RefillBetween(s, t) PROVE RefillBetween(s, t)'
      <4>1. PICK k \in 0 .. now : s < k * Interval /\ k * Interval <= t
        BY <3>1 DEF RefillBetween
      <4>2. k \in 0 .. now'
        BY <2>1
      <4>. QED  BY <4>1, <4>2 DEF RefillBetween
    <3>. QED  BY <3>1, <2>2 DEF IInv, OneBucketPerWindow
  <2>. QED  BY <2>2, <2>3, <2>4, <2>5 DEF IInv, Recent, OneBucket
<1>7. CASE UNCHANGED vars
  BY <1>7 DEF vars, bucket, callers, IInv, TypeOK, OnLattice, Recent, OneBucket,
              OneBucketPerWindow, RefillBetween
<1>. QED  BY <1>1, <1>2, <1>3, <1>4, <1>5, <1>6, <1>7 DEF Next

LEMMA Invariant == Spec => []IInv
BY InitInvariant, NextInvariant, PTL DEF Spec

-----------------------------------------------------------------------------
(* Theorems                                                                *)

\* Token count, times and history stay in range.
THEOREM BucketTypes == Spec => []TypeOK
<1>1. IInv => TypeOK
  BY DEF IInv
<1>. QED  BY <1>1, Invariant, PTL

\* Capacity grants further on, a refill has taken place.
THEOREM BucketPerWindow == Spec => []OneBucketPerWindow
<1>1. IInv => OneBucketPerWindow
  BY DEF IInv
<1>. QED  BY <1>1, Invariant, PTL

\* No window of one interval, wherever it starts, sees more than two buckets:
\* between grants 2 * Capacity apart there are two refills, which are at least
\* one interval apart.
THEOREM TwoBucketsAtMost == Spec => []AtMostTwoBuckets
<1>1. IInv => AtMostTwoBuckets
  <2>. SUFFICES ASSUME IInv, NEW i \in DOMAIN grants,
                       i + 2 * Capacity \in DOMAIN grants
       PROVE  grants[i + 2 * Capacity] - grants[i] > Interval
    BY DEF AtMostTwoBuckets
  <2>. USE BucketAssumption
  <2>1. DOMAIN grants = 1 .. Len(grants) /\ Len(grants) \in Nat
    BY DEF IInv, TypeOK
  <2>2. i + Capacity \in DOMAIN grants
        /\ (i + Capacity) + Capacity = i + 2 * Capacity
    BY <2>1
  <2>3. PICK k \in 0 .. now : grants[i] < k * Interval
                              /\ k * Interval <= grants[i + Capacity]
    BY <2>2 DEF IInv, OneBucketPerWindow, RefillBetween
  <2>4. PICK n \in 0 .. now : grants[i + Capacity] < n * Interval
                              /\ n * Interval <= grants[i + 2 * Capacity]
    BY <2>2 DEF IInv, OneBucketPerWindow, RefillBetween
  <2>5. /\ grants[i] \in Nat /\ grants[i + Capacity] \in Nat
        /\ grants[i + 2 * Capacity] \in Nat
        /\ now \in Nat
    BY <2>1, <2>2, SMTT(30) DEF IInv, TypeOK
  <2>6. k * Interval \in Nat /\ n * Interval \in Nat
    BY <2>5, ProductIsNat
  <2>7. n * Interval - k * Interval >= Interval
    BY <2>3, <2>4, <2>5, <2>6, MultiplesApart
  <2>. QED  BY <2>3, <2>4, <2>5, <2>6, <2>7
<1>. QED  BY <1>1, Invariant, PTL

\* The pause after a 429 holds for every caller.
THEOREM PauseHolds == Spec => PauseIsKept
<1>1. IInv /\ [Next]_vars => (grants' # grants => now >= pauseUntil)
  <2>. SUFFICES ASSUME IInv, [Next]_vars, grants' # grants
       PROVE  now >= pauseUntil
    OBVIOUS
  <2>1. PICK c \in Caller : Granted(c)
    BY DEF Next, vars, Acquire, Refused, PauseBucket, Look, Tick
  <2>. QED  BY <2>1 DEF Granted, IsPaused, IInv, TypeOK
<1>2. IInv /\ [Next]_vars => [grants' # grants => now >= pauseUntil]_vars
  BY <1>1
<1>. QED  BY <1>2, Invariant, PTL DEF Spec, PauseIsKept

-----------------------------------------------------------------------------
(* The promise of WindowLimiter                                            *)

\* Within an interval of the last refill nothing is due, after it a bucket.
LEMMA NothingDue ==
  TypeOK /\ now < lastRefill + Interval => RefilledTokens = tokens
BY RefillFacts, BucketAssumption DEF TypeOK

LEMMA BucketDue ==
  TypeOK /\ now >= lastRefill + Interval => RefilledTokens = Capacity
BY RefillFacts, BucketAssumption DEF TypeOK

LEMMA NothingDueNext ==
  (TypeOK /\ now < lastRefill + Interval => RefilledTokens = tokens)'
BY NothingDue, PTL

LEMMA BucketDueNext ==
  (TypeOK /\ now >= lastRefill + Interval => RefilledTokens = Capacity)'
BY BucketDue, PTL

\* A refill that was made leaves none due.
LEMMA RefillIsMade ==
  ASSUME IInv, IInv', now' = now, lastRefill' = RefillTime
  PROVE  RefilledTokens' = tokens'
BY RefillFacts, NothingDueNext DEF IInv

\* With lastRefill on the lattice, the end of the interval after it is the
\* next time on it.
LEMMA NextWindow ==
  ASSUME IInv, now < lastRefill + Interval
  PROVE  Limiter!BeginsWindow(now + 1) <=> now + 1 = lastRefill + Interval
<1>. USE BucketAssumption
<1>0. now \in Nat /\ lastRefill \in 0 .. now
  BY DEF IInv, TypeOK
<1>1. PICK k \in 0 .. now : lastRefill = k * Interval
  BY DEF IInv, OnLattice
<1>2. (k + 1) * Interval = lastRefill + Interval
  BY <1>0, <1>1, SMT
<1>3. ASSUME NEW n \in 1 .. now + 1, now + 1 = n * Interval
      PROVE  now + 1 = lastRefill + Interval
  <2>1. k * Interval < n * Interval
    BY <1>0, <1>1, <1>3
  <2>2. n * Interval - k * Interval >= Interval
    BY <1>0, <2>1, MultiplesApart
  <2>. QED  BY <1>0, <1>1, <1>3, <2>2
<1>4. now + 1 = lastRefill + Interval => Limiter!BeginsWindow(now + 1)
  <2>1. k + 1 \in 1 .. now + 1
    BY <1>0
  <2>. QED  BY <1>2, <2>1 DEF Limiter!BeginsWindow
<1>. QED  BY <1>3, <1>4 DEF Limiter!BeginsWindow

\* The bucket implements a limiter of fixed windows: each window that begins at
\* a whole interval sees at most Capacity calls and a pause closes it, however
\* many callers there are and whenever they look.
THEOREM BucketRefines == Spec => BucketIsALimiter
<1>. USE BucketAssumption
<1>1. Init => Limiter!Init
  <2>. SUFFICES ASSUME Init PROVE Limiter!Init
    OBVIOUS
  <2>1. RefilledTokens = Capacity
    BY InitInvariant, NothingDue DEF Init, IInv
  <2>. QED  BY <2>1 DEF Init, Limiter!Init
<1>2. IInv /\ IInv' /\ [Next]_vars => [Limiter!Next]_(Limiter!vars)
  <2>. SUFFICES ASSUME IInv, IInv', [Next]_vars
       PROVE  [Limiter!Next]_(Limiter!vars)
    OBVIOUS
  <2>0. TypeOK /\ TypeOK' /\ RefilledTokens \in 0 .. Capacity
    BY RefillFacts DEF IInv
  <2>1. ASSUME UNCHANGED <<now, tokens, lastRefill>>
        PROVE  RefilledTokens' = RefilledTokens
    BY <2>1 DEF RefilledTokens, Elapsed
  <2>2. ASSUME NEW c \in Caller, Acquire(c) PROVE UNCHANGED Limiter!vars
    BY <2>1, <2>2 DEF Acquire, bucket, Limiter!vars
  <2>3. ASSUME NEW c \in Caller, Granted(c) PROVE Limiter!Grant
    <3>1. /\ ~IsPaused /\ RefilledTokens > 0 /\ tokens' = RefilledTokens - 1
          /\ lastRefill' = RefillTime /\ grants' = Append(grants, now)
          /\ now' = now /\ pauseUntil' = pauseUntil
      BY <2>3 DEF Granted
    <3>2. RefilledTokens' = RefilledTokens - 1
      BY <3>1, RefillIsMade
    <3>3. Len(grants') = Len(grants) + 1
      BY <2>0, <3>1 DEF TypeOK
    <3>4. now >= pauseUntil
      BY <2>0, <3>1 DEF TypeOK, IsPaused
    <3>. QED  BY <2>0, <3>1, <3>2, <3>3, <3>4 DEF Limiter!Grant
  <2>4. ASSUME NEW c \in Caller, Refused(c) PROVE UNCHANGED Limiter!vars
    <3>1. RefilledTokens' = RefilledTokens
      BY <2>4, RefillIsMade DEF Refused
    <3>. QED  BY <2>4, <3>1 DEF Refused, Limiter!vars
  <2>5. ASSUME NEW c \in Caller, PauseBucket(c) PROVE Limiter!Close
    BY <2>1, <2>5 DEF PauseBucket, Limiter!Close
  <2>6. CASE Look
    <3>1. RefilledTokens' = RefilledTokens
      BY <2>6, RefillIsMade DEF Look
    <3>. QED  BY <2>6, <3>1 DEF Look, Limiter!vars
  <2>7. CASE Tick
    <3>1. /\ now' = now + 1 /\ tokens' = tokens /\ lastRefill' = lastRefill
          /\ pauseUntil' = pauseUntil /\ grants' = grants
      BY <2>7 DEF Tick, bucket
    <3>2. now \in Nat /\ lastRefill \in 0 .. now /\ tokens \in 0 .. Capacity
      BY <2>0 DEF TypeOK
    <3>3. Capacity - RefilledTokens' =
            IF Limiter!BeginsWindow(now') THEN 0 ELSE Capacity - RefilledTokens
      <4>1. CASE now >= lastRefill + Interval
        BY <2>0, <3>1, <3>2, <4>1, BucketDue, BucketDueNext
      <4>2. CASE now < lastRefill + Interval /\ now + 1 = lastRefill + Interval
        <5>1. Limiter!BeginsWindow(now')
          BY <3>1, <4>2, NextWindow
        <5>. QED  BY <2>0, <3>1, <3>2, <4>2, <5>1, BucketDueNext
      <4>3. CASE now + 1 < lastRefill + Interval
        <5>1. ~Limiter!BeginsWindow(now')
          BY <3>1, <3>2, <4>3, NextWindow
        <5>. QED  BY <2>0, <3>1, <3>2, <4>3, <5>1, NothingDue, NothingDueNext
      <4>. QED  BY <3>2, <4>1, <4>2, <4>3
    <3>. QED  BY <3>1, <3>3 DEF Limiter!Next, Limiter!Pass
  <2>8. CASE UNCHANGED vars
    BY <2>1, <2>8 DEF vars, bucket, Limiter!vars
  <2>. QED  BY <2>2, <2>3, <2>4, <2>5, <2>6, <2>7, <2>8 DEF Next, Limiter!Next
<1>. QED  BY <1>1, <1>2, Invariant, PTL DEF Spec, Limiter!Spec, BucketIsALimiter

-----------------------------------------------------------------------------
(* How long acquire() takes                                                *)

\* While a caller waits, no pause can be newer than its wait; an empty bucket
\* has been empty since; and an attempt failed for a reason that still holds.
Waiting ==
  \A c \in Caller : since[c] # Idle =>
    /\ pauseUntil <= since[c] + Pause
    /\ tokens = 0 => lastRefill <= since[c]
    /\ c \in tried => \/ now < pauseUntil
                      \/ tokens = 0 /\ now < lastRefill + Interval

OneCaller == \A c, d \in Caller : c = d

\* A consumer that handles one job at a time waits at most the longer of the
\* pause and the refill interval.
THEOREM BoundedWait ==
  ASSUME OneCaller
  PROVE  Spec => []WaitIsBounded
<1>. DEFINE J == IInv /\ Waiting /\ WaitIsBounded
<1>. USE BucketAssumption
<1>1. Init => J
  BY InitInvariant DEF Init, Waiting, WaitIsBounded
<1>2. J /\ [Next]_vars => J'
  <2>. SUFFICES ASSUME J, [Next]_vars PROVE (Waiting /\ WaitIsBounded)'
    BY NextInvariant
  <2>0. TypeOK /\ OnLattice
    BY DEF IInv
  <2>1. ASSUME NEW c \in Caller, Acquire(c)
        PROVE (Waiting /\ WaitIsBounded)'
    BY <2>0, <2>1, OneCaller DEF Acquire, bucket, OneCaller, Waiting, WaitIsBounded, TypeOK
  <2>2. ASSUME NEW c \in Caller, Granted(c)
        PROVE (Waiting /\ WaitIsBounded)'
    BY <2>0, <2>2, OneCaller DEF Granted, OneCaller, Waiting, WaitIsBounded, TypeOK
  <2>3. ASSUME NEW c \in Caller, Refused(c)
        PROVE (Waiting /\ WaitIsBounded)'
    <3>1. /\ tokens' = RefilledTokens /\ lastRefill' = RefillTime
          /\ now' = now /\ since' = since /\ pauseUntil' = pauseUntil
          /\ now < pauseUntil \/ RefilledTokens = 0
      BY <2>3 DEF Refused, IsPaused
    <3>2. RefilledTokens = 0 => tokens = 0 /\ RefillTime = lastRefill
      BY <2>0, RefillFacts DEF TypeOK
    <3>3. now < RefillTime + Interval
      BY <2>0, RefillFacts
    <3>. QED  BY <3>1, <3>2, <3>3, <2>0 DEF Waiting, WaitIsBounded, TypeOK
  <2>4. ASSUME NEW c \in Caller, PauseBucket(c)
        PROVE (Waiting /\ WaitIsBounded)'
    BY <2>0, <2>4, OneCaller DEF PauseBucket, callers, OneCaller, Waiting, WaitIsBounded, TypeOK
  <2>5. CASE Look
    <3>1. /\ tokens' = RefilledTokens /\ lastRefill' = RefillTime
          /\ now' = now /\ since' = since /\ pauseUntil' = pauseUntil
          /\ tried' = tried
      BY <2>5 DEF Look, callers
    <3>2. RefilledTokens = 0 => tokens = 0 /\ RefillTime = lastRefill
      BY <2>0, RefillFacts DEF TypeOK
    <3>3. now < lastRefill + Interval =>
            RefilledTokens = tokens /\ RefillTime = lastRefill
      BY <2>0, RefillFacts DEF TypeOK
    <3>. QED  BY <3>1, <3>2, <3>3, <2>0 DEF Waiting, WaitIsBounded, TypeOK
  <2>6. CASE Tick
    <3>1. /\ now' = now + 1 /\ tried' = {} /\ since' = since
          /\ tokens' = tokens /\ lastRefill' = lastRefill
          /\ pauseUntil' = pauseUntil
          /\ \A c \in Caller : since[c] # Idle => c \in tried
      BY <2>6 DEF Tick, bucket
    <3>. QED  BY <3>1, <2>0 DEF Waiting, WaitIsBounded, TypeOK
  <2>7. CASE UNCHANGED vars
    BY <2>7 DEF vars, bucket, callers, Waiting, WaitIsBounded
  <2>. QED  BY <2>1, <2>2, <2>3, <2>4, <2>5, <2>6, <2>7 DEF Next
<1>. QED  BY <1>1, <1>2, PTL DEF Spec
=============================================================================
