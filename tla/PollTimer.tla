----------------------------- MODULE PollTimer -----------------------------
(***************************************************************************)
(* What the dispatcher promises for a tenant it polls: one clock that      *)
(* counts down from the interval of the tenant's tier and starts again     *)
(* when it strikes or the tier changes.  A strike publishes one job, or    *)
(* none if the last one is still under way, which a change of tier does    *)
(* not forget.  A tenant that is not polled publishes nothing new.         *)
(* Records, handles of timers and the classification do not appear.        *)
(***************************************************************************)
EXTENDS Naturals

CONSTANT Interval  \* minutes between two polls, by tier

VARIABLES
  tier,       \* at which the tenant is polled, "none" if it is not
  left,       \* minutes until the clock strikes
  publishing  \* jobs being published

vars == <<tier, left, publishing>>

Init == tier = "none" /\ left = 0 /\ publishing = 0

\* Polling begins, or goes on at another tier.
Start ==
  /\ tier' \in DOMAIN Interval \ {tier}
  /\ left' = Interval[tier']
  /\ UNCHANGED publishing

Strike ==
  /\ tier # "none" /\ left = 0
  /\ left' = Interval[tier]
  /\ publishing' = 1
  /\ UNCHANGED tier

Published ==
  /\ publishing = 1
  /\ publishing' = 0
  /\ UNCHANGED <<tier, left>>

\* The process stops, and what is under way may end with it.
End ==
  /\ tier' = "none" /\ left' = 0
  /\ publishing' \in {0, publishing}

Minute ==
  /\ tier # "none" /\ left > 0
  /\ left' = left - 1
  /\ UNCHANGED <<tier, publishing>>

Next == Start \/ Strike \/ Published \/ End \/ Minute

Spec == Init /\ [][Next]_vars
=============================================================================
