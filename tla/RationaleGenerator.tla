------------------------- MODULE RationaleGenerator -------------------------
(***************************************************************************)
(* The explanation of a suggestion: apps/worker/src/llm/rationale-         *)
(* generator.  Each call races the model against a timer.                  *)
(*                                                                         *)
(* A confidence is a number of tenths.  Of an answer it is kept whether it *)
(* is well formed, and the confidence it states.                           *)
(***************************************************************************)
EXTENDS Integers

CONSTANTS
  Ask,            \* calls of generateRationale
  Claims,         \* the confidences the model may state
  Checks,         \* <<passed, total>>: how many constraints were met, of how many
  Timeout,        \* LLM_TIMEOUT_MS
  Override,       \* LLM_CONFIDENCE_OVERRIDE_THRESHOLD
  EnoughPassed,   \* LLM_CONSTRAINT_PASS_RATE_THRESHOLD
  Fallback,       \* LLM_FALLBACK_CONFIDENCE
  LastTick        \* the clock stops here

\* What is given instead of a high confidence is a probability, and not one
\* that would have to be replaced again.
ASSUME RationaleAssumption ==
  /\ Claims \subseteq Int /\ Checks \subseteq Nat \X Nat
  /\ Timeout \in Nat /\ LastTick \in Nat /\ Override \in Int /\ EnoughPassed \in Int
  /\ Fallback \in 0 .. 10 /\ Fallback <= Override

VARIABLES
  ticks,
  ask,        \* per call: where it is, when it began, its constraints
  model,      \* per call: whether the request to the model is still open
  result      \* per call: what generateRationale answered

rationaleVars == <<ticks, ask, model, result>>

NoResult == [by |-> "nobody", reason |-> "none", confidence |-> 0, at |-> 0]

RationaleInit ==
  /\ ticks = 0
  /\ ask = [a \in Ask |-> [racing |-> FALSE, begun |-> -1, passRate |-> 0]]
  /\ model = [a \in Ask |-> "none"]
  /\ result = [a \in Ask |-> NoResult]

\* computeConstraintPassRate, in tenths.
ConstraintPassRate(passed, total) ==
  IF total = 0 THEN 10 ELSE (10 * passed) \div total

Generate(a, check) ==
  /\ ask[a].begun = -1
  /\ ask' = [ask EXCEPT ![a] = 
       [racing |-> TRUE, begun |-> ticks,
        passRate |-> ConstraintPassRate(check[1], check[2])]]
  /\ model' = [model EXCEPT ![a] = "open"]
  /\ UNCHANGED <<ticks, result>>

\* Mutation: whoever comes later answers again.
SettleAgain(a, by, reason, confidence) ==
  /\ ask' = [ask EXCEPT ![a].racing = FALSE]
  /\ result' = [result EXCEPT ![a] =
       [by |-> by, reason |-> reason, confidence |-> confidence, at |-> ticks]]

\* Promise.race: only who comes first settles the call.
Settle(a, by, reason, confidence) ==
  IF ask[a].racing
    THEN /\ ask' = [ask EXCEPT ![a].racing = FALSE]
         /\ result' = [result EXCEPT ![a] =
              [by |-> by, reason |-> reason, confidence |-> confidence, at |-> ticks]]
    ELSE UNCHANGED <<ask, result>>

\* buildFallbackResponse
FallBack(a, reason) == Settle(a, "fallback", reason, Fallback)

\* The override: a high confidence that the constraints do not bear out.
Confidence(a, claim) ==
  IF claim > Override /\ ask[a].passRate < EnoughPassed THEN Fallback ELSE claim

IsValidLlmResponse(claim) == claim \in 0 .. 10

\* callLlm with an answer: text that is no JSON of the agreed shape, or a
\* claim, which must be a probability.
ModelAnswers(a) ==
  /\ model[a] = "open"
  /\ model' = [model EXCEPT ![a] = "done"]
  /\ \/ FallBack(a, "malformed_json")
     \/ \E claim \in Claims :
          IF IsValidLlmResponse(claim)
            THEN Settle(a, "model", "none", Confidence(a, claim))
            ELSE FallBack(a, "malformed_json")
  /\ UNCHANGED ticks

ModelFails(a) ==
  /\ model[a] = "open"
  /\ model' = [model EXCEPT ![a] = "done"]
  /\ FallBack(a, "api_error")
  /\ UNCHANGED ticks

TimerDue(a) == ask[a].racing /\ ticks >= ask[a].begun + Timeout

\* The timer, which is never cleared; after the race it changes nothing.
TimerFires(a) ==
  /\ TimerDue(a)
  /\ FallBack(a, "timeout")
  /\ UNCHANGED <<ticks, model>>

RationaleTick ==
  /\ ticks < LastTick
  /\ \A a \in Ask : ~TimerDue(a)
  /\ ticks' = ticks + 1
  /\ UNCHANGED <<ask, model, result>>

RationaleNext ==
  \/ \E a \in Ask : \/ \E check \in Checks : Generate(a, check)
                    \/ ModelAnswers(a) \/ ModelFails(a) \/ TimerFires(a)
  \/ RationaleTick

RationaleSpec == RationaleInit /\ [][RationaleNext]_rationaleVars

-----------------------------------------------------------------------------
(* What is true of it                                                      *)

RationaleTypeOK ==
  /\ ticks \in 0 .. LastTick
  /\ \A a \in Ask : model[a] \in {"none", "open", "done"}
  /\ \A a \in Ask : result[a].by \in {"nobody", "model", "fallback"}

\* A call is answered once, within the timeout, and what comes after the
\* answer does not change it; a confidence is a probability, and a high one
\* is only given where the constraints bear it out; the fallback says by its
\* reason whether the model had answered.
RationaleIsSettledOnce ==
  \A a \in Ask : LET r == result[a] IN
    /\ r.by = "nobody" /\ ask[a].begun # -1 => ticks - ask[a].begun <= Timeout
    /\ r.by # "nobody" => r.at - ask[a].begun <= Timeout /\ r.confidence \in 0 .. 10
    /\ r.by = "model" => ~(r.confidence > Override /\ ask[a].passRate < EnoughPassed)
    /\ r.reason = "timeout" => r.at = ask[a].begun + Timeout
    /\ r.by = "fallback" /\ r.reason # "timeout" => model[a] = "done"
=============================================================================
