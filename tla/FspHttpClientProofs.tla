------------------------ MODULE FspHttpClientProofs ------------------------
(***************************************************************************)
(* The safety properties of FspHttpClient for any number of calls and      *)
(* client instances, any assignment of tokens and any delays.              *)
(*                                                                         *)
(* Two facts carry the arguments.  Calls that are open at the same time    *)
(* are both recorded as overlapped; and while less than a pause has passed *)
(* since the last 429, the call that got it still sleeps off the rest.     *)
(***************************************************************************)
EXTENDS FspHttpClient, TLAPS

\* Two calls that are open together know of each other.
OverlapIsRecorded ==
  \A c, d \in Call : c \in Open /\ d \in Open /\ c # d => c \in overlapped

\* c sleeps for a 429, at least until the pause is over.
SleepsItOff(c) ==
  /\ c \in Call
  /\ stage[c] \in {"owner", "follower"}
  /\ rest[c] + quiet >= Pause

RecentLimitSleeps == quiet < Pause => \E c \in Call : SleepsItOff(c)

\* The token a setter without company has set is still in the instance.
OwnTokenStays ==
  \A c \in Setter : c \in Open /\ c \notin overlapped =>
    bearer[ClientOf[c]] = TokenOf[c]

\* A call backs off only while it has an attempt left.
BackoffHasAttempt == \A c \in Call : stage[c] = "backoff" => AttemptsLeft(c)

IInv == /\ TypeOK /\ BackoffHasAttempt /\ PauseHasOwner
        /\ OverlapIsRecorded /\ RecentLimitSleeps /\ OwnTokenStays /\ AloneKeepsToken

-----------------------------------------------------------------------------
(* Types                                                                   *)

StageType == [Call -> Asleep \cup Ended \cup {"new", "sending"}]
CarriedType == SUBSET [call : Call, token : Token \cup {NoToken}]

\* What Send, Sleep and End assign.
CallsTyped ==
  /\ stage \in StageType
  /\ attempt \in [Call -> 0 .. MaxRetries]
  /\ rest \in [Call -> Nat]
  /\ carried \in CarriedType

\* What else changes.
SharedTyped ==
  /\ paused \in BOOLEAN
  /\ bearer \in [Client -> Token \cup {NoToken}]
  /\ quiet \in 0 .. Pause
  /\ overlapped \subseteq Call

LEMMA TypeParts == TypeOK <=> CallsTyped /\ SharedTyped
  BY DEF TypeOK, CallsTyped, SharedTyped, StageType, CarriedType

LEMMA TypePartsNext == TypeOK' <=> CallsTyped' /\ SharedTyped'
  BY DEF TypeOK, CallsTyped, SharedTyped, StageType, CarriedType

LEMMA BackoffIsTime == ASSUME NEW c \in Call, CallsTyped
                       PROVE  BackoffFor(c) \in Nat
  BY HttpAssumption DEF HttpAssumption, BackoffFor, CallsTyped

LEMMA TokenInHand == ASSUME SharedTyped, NEW c \in Call
                     PROVE  bearer[ClientOf[c]] \in Token \cup {NoToken}
  BY HttpAssumption DEF HttpAssumption, SharedTyped

LEMMA BearerTyped ==
  ASSUME SharedTyped, NEW c \in Call
  PROVE  /\ BearerFor(c) \in [Client -> Token \cup {NoToken}]
         /\ BearerFor(c)[ClientOf[c]] \in Token \cup {NoToken}
  BY HttpAssumption DEF HttpAssumption, BearerFor, SharedTyped, Token

LEMMA SendTyped ==
  ASSUME CallsTyped, NEW c \in Call, NEW n \in 0 .. MaxRetries,
         NEW t \in Token \cup {NoToken}, Send(c, n, t)
  PROVE  CallsTyped'
  <1>1. stage' \in StageType
    BY DEF Send, CallsTyped, StageType
  <1>2. attempt' \in [Call -> 0 .. MaxRetries] /\ rest' \in [Call -> Nat]
    BY DEF Send, CallsTyped
  <1>3. carried' \in CarriedType
    BY DEF Send, CallsTyped, CarriedType
  <1> QED BY <1>1, <1>2, <1>3 DEF CallsTyped

LEMMA SleepTyped ==
  ASSUME CallsTyped, NEW c \in Call, NEW why \in Asleep, NEW d \in Nat,
         Sleep(c, why, d)
  PROVE  CallsTyped'
  BY DEF Sleep, CallsTyped, StageType

LEMMA EndTyped ==
  ASSUME CallsTyped, NEW c \in Call, NEW how \in Ended, End(c, how)
  PROVE  CallsTyped'
  BY DEF End, CallsTyped, StageType

LEMMA TypeInit == Init => TypeOK
  <1> SUFFICES ASSUME Init PROVE CallsTyped /\ SharedTyped
    BY TypeParts
  <1>1. CallsTyped
    BY HttpAssumption
       DEF HttpAssumption, Init, CallsTyped, StageType, CarriedType
  <1>2. SharedTyped
    <2>1. Pause \in 0 .. Pause
      BY HttpAssumption DEF HttpAssumption
    <2>2. paused \in BOOLEAN
      BY DEF Init
    <2>3. bearer \in [Client -> Token \cup {NoToken}] /\ overlapped \subseteq Call
      BY DEF Init
    <2> QED BY <2>1, <2>2, <2>3 DEF Init, SharedTyped
  <1> QED BY <1>1, <1>2

LEMMA TypeNext == TypeOK /\ BackoffHasAttempt /\ [Next]_vars => TypeOK'
  <1> SUFFICES ASSUME CallsTyped, SharedTyped, BackoffHasAttempt, [Next]_vars
               PROVE  CallsTyped' /\ SharedTyped'
    BY TypeParts, TypePartsNext
  <1>1. CASE Tick
    <2>1. CallsTyped'
      BY <1>1 DEF Tick, Sleepers, CallsTyped, StageType, CarriedType, Asleep
    <2>2. SharedTyped'
      BY <1>1, HttpAssumption DEF HttpAssumption, Tick, SharedTyped
    <2> QED BY <2>1, <2>2
  <1>2. ASSUME NEW c \in Call, Begin(c) PROVE CallsTyped' /\ SharedTyped'
    <2>1. 0 \in 0 .. MaxRetries /\ Pause \in Nat /\ "waiting" \in Asleep
      BY HttpAssumption DEF HttpAssumption, Asleep
    <2>2. CallsTyped'
      BY <1>2, <2>1, BearerTyped, SendTyped, SleepTyped DEF Begin
    <2>3. overlapped' \subseteq Call
      BY <1>2 DEF Begin, Open, SharedTyped
    <2>4. SharedTyped'
      BY <1>2, <2>3, BearerTyped DEF Begin, SharedTyped
    <2> QED BY <2>2, <2>4
  <1>3. ASSUME NEW c \in Call, Enter(c) PROVE CallsTyped' /\ SharedTyped'
    <2>1. 0 \in 0 .. MaxRetries
      BY HttpAssumption DEF HttpAssumption
    <2>2. CallsTyped'
      BY <1>3, <2>1, TokenInHand, SendTyped DEF Enter
    <2>3. SharedTyped'
      BY <1>3 DEF Enter, SharedTyped
    <2> QED BY <2>2, <2>3
  <1>4. ASSUME NEW c \in Call, Wake(c) PROVE CallsTyped' /\ SharedTyped'
    <2>1. AttemptsLeft(c) => attempt[c] + 1 \in 0 .. MaxRetries
      BY HttpAssumption DEF HttpAssumption, AttemptsLeft, CallsTyped
    <2>2. CallsTyped'
      BY <1>4, <2>1, TokenInHand, SendTyped, EndTyped
         DEF Wake, NextAttempt, Ended
    <2>3. SharedTyped'
      BY <1>4 DEF Wake, SharedTyped
    <2> QED BY <2>2, <2>3
  <1>5. ASSUME NEW c \in Call, Retry(c) PROVE CallsTyped' /\ SharedTyped'
    <2>1. attempt[c] + 1 \in 0 .. MaxRetries
      BY <1>5, HttpAssumption
         DEF HttpAssumption, Retry, BackoffHasAttempt, AttemptsLeft, CallsTyped
    <2>2. CallsTyped'
      BY <1>5, <2>1, TokenInHand, SendTyped DEF Retry, NextAttempt
    <2>3. SharedTyped'
      BY <1>5 DEF Retry, SharedTyped
    <2> QED BY <2>2, <2>3
  <1>6. ASSUME NEW c \in Call, Answered(c) \/ Fails(c)
        PROVE  CallsTyped' /\ SharedTyped'
    BY <1>6, EndTyped DEF Answered, Fails, Ended, SharedTyped
  <1>7. ASSUME NEW c \in Call, TooMany(c) PROVE CallsTyped' /\ SharedTyped'
    <2>1. Pause \in Nat /\ {"owner", "follower"} \subseteq Asleep
      BY HttpAssumption DEF HttpAssumption, Asleep
    <2>2. CallsTyped'
      BY <1>7, <2>1, SleepTyped DEF TooMany
    <2>3. SharedTyped'
      BY <1>7, HttpAssumption DEF HttpAssumption, TooMany, SharedTyped
    <2> QED BY <2>2, <2>3
  <1>8. ASSUME NEW c \in Call, ServerError(c) PROVE CallsTyped' /\ SharedTyped'
    BY <1>8, BackoffIsTime, SleepTyped DEF ServerError, SharedTyped, Asleep
  <1>9. CASE UNCHANGED vars
    BY <1>9 DEF vars, calls, history, CallsTyped, SharedTyped
  <1> QED BY <1>1, <1>2, <1>3, <1>4, <1>5, <1>6, <1>7, <1>8, <1>9
          DEF Next, Timer, Response

LEMMA BackoffNext == TypeOK /\ BackoffHasAttempt /\ [Next]_vars
                       => BackoffHasAttempt'
  <1> SUFFICES ASSUME TypeOK, BackoffHasAttempt, [Next]_vars,
                      NEW d \in Call, stage'[d] = "backoff"
               PROVE  AttemptsLeft(d)'
    BY DEF BackoffHasAttempt
  <1> USE DEF TypeOK, AttemptsLeft, BackoffHasAttempt
  <1>1. CASE Tick
    BY <1>1 DEF Tick
  <1>2. ASSUME NEW c \in Call, Begin(c) PROVE attempt'[d] < MaxRetries
    BY <1>2 DEF Begin, Send, Sleep
  <1>3. ASSUME NEW c \in Call, Enter(c) \/ Retry(c)
        PROVE  attempt'[d] < MaxRetries
    BY <1>3 DEF Enter, Retry, NextAttempt, Send
  <1>4. ASSUME NEW c \in Call, Wake(c) PROVE attempt'[d] < MaxRetries
    BY <1>4 DEF Wake, NextAttempt, Send, End
  <1>5. ASSUME NEW c \in Call, Answered(c) \/ Fails(c)
        PROVE  attempt'[d] < MaxRetries
    BY <1>5 DEF Answered, Fails, End
  <1>6. ASSUME NEW c \in Call, TooMany(c) \/ ServerError(c)
        PROVE  attempt'[d] < MaxRetries
    BY <1>6 DEF TooMany, ServerError, Sleep
  <1>7. CASE UNCHANGED vars
    BY <1>7 DEF vars, calls
  <1> QED BY <1>1, <1>2, <1>3, <1>4, <1>5, <1>6, <1>7
          DEF Next, Timer, Response

-----------------------------------------------------------------------------
(* The shared flag                                                         *)

LEMMA OwnerNext == TypeOK /\ PauseHasOwner /\ [Next]_vars => PauseHasOwner'
  <1> SUFFICES ASSUME TypeOK, PauseHasOwner, [Next]_vars, paused'
               PROVE  \E d \in Call : stage'[d] = "owner"
    BY DEF PauseHasOwner
  <1> USE DEF TypeOK, PauseHasOwner
  <1>1. CASE Tick
    BY <1>1 DEF Tick
  <1>2. ASSUME NEW c \in Call, Begin(c)
        PROVE  \E d \in Call : stage'[d] = "owner"
    BY <1>2 DEF Begin, Send, Sleep
  <1>3. ASSUME NEW c \in Call, Enter(c) PROVE FALSE
    BY <1>3 DEF Enter
  <1>4. ASSUME NEW c \in Call, Wake(c)
        PROVE  \E d \in Call : stage'[d] = "owner"
    BY <1>4 DEF Wake, NextAttempt, Send, End
  <1>5. ASSUME NEW c \in Call, Retry(c)
        PROVE  \E d \in Call : stage'[d] = "owner"
    BY <1>5 DEF Retry, NextAttempt, Send
  <1>6. ASSUME NEW c \in Call, Answered(c) \/ Fails(c) \/ ServerError(c)
        PROVE  \E d \in Call : stage'[d] = "owner"
    BY <1>6 DEF Answered, Fails, ServerError, End, Sleep
  <1>7. ASSUME NEW c \in Call, TooMany(c)
        PROVE  \E d \in Call : stage'[d] = "owner"
    BY <1>7 DEF TooMany, Sleep
  <1>8. CASE UNCHANGED vars
    BY <1>8 DEF vars, calls
  <1> QED BY <1>1, <1>2, <1>3, <1>4, <1>5, <1>6, <1>7, <1>8
          DEF Next, Timer, Response

-----------------------------------------------------------------------------
(* Calls that overlap                                                      *)

\* A step opens at most the call that begins, and that one is recorded with
\* everything that is open beside it.
LEMMA OverlapNext == TypeOK /\ OverlapIsRecorded /\ [Next]_vars
                       => OverlapIsRecorded'
  <1> SUFFICES ASSUME TypeOK, OverlapIsRecorded, [Next]_vars,
                      NEW a \in Call, NEW b \in Call,
                      a \in Open', b \in Open', a # b
               PROVE  a \in overlapped'
    BY DEF OverlapIsRecorded
  <1> USE DEF TypeOK, OverlapIsRecorded, Open, Asleep
  <1>1. ASSUME a \in Open, b \in Open, overlapped' = overlapped
        PROVE  a \in overlapped'
    BY <1>1
  <1>2. CASE Tick
    BY <1>1, <1>2 DEF Tick
  <1>3. ASSUME NEW c \in Call, Begin(c) PROVE a \in overlapped'
    BY <1>3 DEF Begin, Send, Sleep
  <1>4. ASSUME NEW c \in Call, Enter(c) PROVE a \in overlapped'
    BY <1>1, <1>4 DEF Enter, Send
  <1>5. ASSUME NEW c \in Call, Wake(c) PROVE a \in overlapped'
    BY <1>1, <1>5 DEF Wake, NextAttempt, Send, End
  <1>6. ASSUME NEW c \in Call, Retry(c) PROVE a \in overlapped'
    BY <1>1, <1>6 DEF Retry, NextAttempt, Send
  <1>7. ASSUME NEW c \in Call, Answered(c) \/ Fails(c) PROVE a \in overlapped'
    BY <1>1, <1>7 DEF Answered, Fails, End
  <1>8. ASSUME NEW c \in Call, TooMany(c) \/ ServerError(c)
        PROVE  a \in overlapped'
    BY <1>1, <1>8 DEF TooMany, ServerError, Sleep
  <1>9. CASE UNCHANGED vars
    BY <1>1, <1>9 DEF vars, calls, history
  <1> QED BY <1>2, <1>3, <1>4, <1>5, <1>6, <1>7, <1>8, <1>9
          DEF Next, Timer, Response

-----------------------------------------------------------------------------
(* The pause of a call that runs alone                                     *)

LEMMA SleeperNext == TypeOK /\ RecentLimitSleeps /\ [Next]_vars
                       => RecentLimitSleeps'
  <1> SUFFICES ASSUME TypeOK, RecentLimitSleeps, [Next]_vars, quiet' < Pause
               PROVE  \E d \in Call : SleepsItOff(d)'
    BY DEF RecentLimitSleeps
  <1> USE HttpAssumption DEF HttpAssumption, TypeOK, RecentLimitSleeps, SleepsItOff
  \* The sleeper stays where it is, or its sleep is over.
  <1>1. ASSUME NEW c \in Call, quiet' = quiet, rest' = rest,
               stage' = [stage EXCEPT ![c] = stage'[c]],
               stage[c] \in {"owner", "follower"} => rest[c] = 0
        PROVE  \E d \in Call : SleepsItOff(d)'
    BY <1>1
  <1>2. CASE Tick
    BY <1>2 DEF Tick, Sleepers, Asleep
  <1>3. ASSUME NEW c \in Call, Begin(c) PROVE \E d \in Call : SleepsItOff(d)'
    BY <1>3 DEF Begin, Send, Sleep
  <1>4. ASSUME NEW c \in Call, Enter(c) PROVE \E d \in Call : SleepsItOff(d)'
    BY <1>1, <1>4 DEF Enter, Send
  <1>5. ASSUME NEW c \in Call, Wake(c) PROVE \E d \in Call : SleepsItOff(d)'
    BY <1>1, <1>5 DEF Wake, NextAttempt, Send, End
  <1>6. ASSUME NEW c \in Call, Retry(c) PROVE \E d \in Call : SleepsItOff(d)'
    BY <1>1, <1>6 DEF Retry, NextAttempt, Send
  <1>7. ASSUME NEW c \in Call, Answered(c) \/ Fails(c)
        PROVE  \E d \in Call : SleepsItOff(d)'
    BY <1>1, <1>7 DEF Answered, Fails, End
  <1>8. ASSUME NEW c \in Call, ServerError(c)
        PROVE  \E d \in Call : SleepsItOff(d)'
    BY <1>8 DEF ServerError, Sleep
  <1>9. ASSUME NEW c \in Call, TooMany(c) PROVE \E d \in Call : SleepsItOff(d)'
    BY <1>9 DEF TooMany, Sleep
  <1>10. CASE UNCHANGED vars
    BY <1>10 DEF vars, calls, history
  <1> QED BY <1>2, <1>3, <1>4, <1>5, <1>6, <1>7, <1>8, <1>9, <1>10
          DEF Next, Timer, Response

\* What AloneKeepsPause says of a step.
AloneStep ==
  \A c \in Call \ overlapped' :
    stage'[c] = "sending" /\ stage[c] # "sending" => quiet = Pause

LEMMA AloneStepHolds ==
  TypeOK /\ OverlapIsRecorded /\ RecentLimitSleeps /\ [Next]_vars => AloneStep
  <1> SUFFICES ASSUME TypeOK, OverlapIsRecorded, RecentLimitSleeps, [Next]_vars,
                      NEW c \in Call, c \notin overlapped',
                      stage'[c] = "sending", stage[c] # "sending",
                      quiet # Pause
               PROVE  FALSE
    BY DEF AloneStep
  <1>1. PICK d \in Call : SleepsItOff(d)
    BY HttpAssumption DEF HttpAssumption, TypeOK, RecentLimitSleeps
  <1>2. stage[d] \in {"owner", "follower"} /\ rest[d] > 0 /\ d \in Open
    BY <1>1, HttpAssumption
       DEF HttpAssumption, TypeOK, SleepsItOff, Open, Asleep
  <1>3. CASE c \in Open /\ c # d /\ overlapped' = overlapped
    BY <1>2, <1>3 DEF OverlapIsRecorded
  <1> USE DEF TypeOK
  <1>4. CASE Tick
    BY <1>4 DEF Tick
  <1>5. ASSUME NEW e \in Call, Begin(e) PROVE FALSE
    BY <1>2, <1>5 DEF Begin, Send, Sleep
  <1>6. ASSUME NEW e \in Call, Enter(e) PROVE FALSE
    BY <1>2, <1>3, <1>6 DEF Enter, Send, Open, Asleep
  <1>7. ASSUME NEW e \in Call, Wake(e) PROVE FALSE
    BY <1>2, <1>3, <1>7 DEF Wake, NextAttempt, Send, End, Open, Asleep
  <1>8. ASSUME NEW e \in Call, Retry(e) PROVE FALSE
    BY <1>2, <1>3, <1>8 DEF Retry, NextAttempt, Send, Open, Asleep
  <1>9. ASSUME NEW e \in Call, Response(e) PROVE FALSE
    BY <1>9, HttpAssumption
       DEF Response, Answered, Fails, TooMany, ServerError, End, Sleep
  <1>10. CASE UNCHANGED vars
    BY <1>10 DEF vars, calls
  <1> QED BY <1>4, <1>5, <1>6, <1>7, <1>8, <1>9, <1>10 DEF Next, Timer

-----------------------------------------------------------------------------
(* The token of a call that runs alone                                     *)

TokensKept == OwnTokenStays /\ AloneKeepsToken

\* A call that is open without company keeps the instance to itself.
LEMMA TokenStep ==
  TypeOK /\ OverlapIsRecorded /\ TokensKept /\ [Next]_vars => TokensKept'
  <1> SUFFICES ASSUME TypeOK, OverlapIsRecorded, TokensKept, [Next]_vars
               PROVE  TokensKept'
    OBVIOUS
  <1> USE HttpAssumption DEF HttpAssumption, TypeOK, TokensKept,
          OwnTokenStays, AloneKeepsToken
  \* A step of an open call that sends, if anything, the instance's token.
  <1>1. ASSUME NEW c \in Call, c \in Open,
               bearer' = bearer, overlapped' = overlapped,
               stage' = [stage EXCEPT ![c] = stage'[c]],
               carried' \in {carried, carried \cup
                  {[call |-> c, token |-> bearer[ClientOf[c]]]}}
        PROVE  TokensKept'
    <2>1. Open' \subseteq Open
      BY <1>1 DEF Open
    <2>2. OwnTokenStays'
      BY <1>1, <2>1
    <2>3. c \in Setter \ overlapped => bearer[ClientOf[c]] = TokenOf[c]
      BY <1>1
    <2>4. AloneKeepsToken'
      BY <1>1, <2>3
    <2> QED BY <2>2, <2>4
  <1>2. CASE Tick
    BY <1>2 DEF Tick, Open
  <1>3. ASSUME NEW c \in Call, Begin(c) PROVE TokensKept'
    <2>1. OwnTokenStays'
      BY <1>3 DEF Begin, Send, Sleep, BearerFor, Open, Asleep
    <2>2. AloneKeepsToken'
      BY <1>3 DEF Begin, Send, Sleep, BearerFor
    <2> QED BY <2>1, <2>2
  <1>4. ASSUME NEW c \in Call, Enter(c) PROVE TokensKept'
    BY <1>1, <1>4 DEF Enter, Send, Open, Asleep
  <1>5. ASSUME NEW c \in Call, Wake(c) PROVE TokensKept'
    BY <1>1, <1>5 DEF Wake, NextAttempt, Send, End, Open, Asleep
  <1>6. ASSUME NEW c \in Call, Retry(c) PROVE TokensKept'
    BY <1>1, <1>6 DEF Retry, NextAttempt, Send, Open, Asleep
  <1>7. ASSUME NEW c \in Call, Answered(c) \/ Fails(c) PROVE TokensKept'
    BY <1>1, <1>7 DEF Answered, Fails, End, Open
  <1>8. ASSUME NEW c \in Call, TooMany(c) \/ ServerError(c) PROVE TokensKept'
    BY <1>1, <1>8 DEF TooMany, ServerError, Sleep, Open
  <1>9. CASE UNCHANGED vars
    BY <1>9 DEF vars, calls, history, Open
  <1> QED BY <1>2, <1>3, <1>4, <1>5, <1>6, <1>7, <1>8, <1>9
          DEF Next, Timer, Response

-----------------------------------------------------------------------------
(* The theorems                                                            *)

LEMMA InitIInv == Init => IInv
  <1> SUFFICES ASSUME Init PROVE IInv
    OBVIOUS
  <1>1. TypeOK
    BY TypeInit
  <1>2. Open = {}
    BY DEF Init, Open, Asleep
  <1>3. BackoffHasAttempt /\ PauseHasOwner
    BY DEF Init, BackoffHasAttempt, PauseHasOwner
  <1>4. OverlapIsRecorded /\ OwnTokenStays
    BY <1>2, HttpAssumption DEF HttpAssumption, OverlapIsRecorded, OwnTokenStays
  <1>5. RecentLimitSleeps
    BY HttpAssumption DEF HttpAssumption, Init, RecentLimitSleeps
  <1>6. AloneKeepsToken
    BY DEF Init, AloneKeepsToken
  <1> QED BY <1>1, <1>3, <1>4, <1>5, <1>6 DEF IInv

LEMMA NextIInv == IInv /\ [Next]_vars => IInv'
  BY TypeNext, BackoffNext, OwnerNext, OverlapNext, SleeperNext, TokenStep
     DEF IInv, TokensKept

LEMMA AlwaysIInv == Spec => []IInv
  BY InitIInv, NextIInv, PTL DEF Spec

\* The attempts of a call stay within the retry budget, whatever FSP answers.
THEOREM HttpTypes == Spec => []TypeOK
  <1>1. IInv => TypeOK
    BY DEF IInv
  <1> QED BY <1>1, AlwaysIInv, PTL

\* The shared pause flag is never left standing without a call that will
\* clear it.
THEOREM PauseIsOwned == Spec => []PauseHasOwner
  <1>1. IInv => PauseHasOwner
    BY DEF IInv
  <1> QED BY <1>1, AlwaysIInv, PTL

\* A call that runs alone carries its own tenant's token on every attempt.
THEOREM OwnToken == Spec => []AloneKeepsToken
  <1>1. IInv => AloneKeepsToken
    BY DEF IInv
  <1> QED BY <1>1, AlwaysIInv, PTL

\* A call that runs alone is never sent while a 429 is younger than the pause.
THEOREM OwnPause == Spec => AloneKeepsPause
  <1>1. IInv /\ [Next]_vars => [AloneStep]_vars
    BY AloneStepHolds DEF IInv
  <1>2. Spec => [][AloneStep]_vars
    BY <1>1, AlwaysIInv, PTL DEF Spec
  <1> QED BY <1>2 DEF AloneKeepsPause, AloneStep
=============================================================================
