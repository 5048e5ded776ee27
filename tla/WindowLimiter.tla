--------------------------- MODULE WindowLimiter ---------------------------
(***************************************************************************)
(* What the token bucket promises the poll jobs: a fixed window limiter.   *)
(* Windows begin at the whole intervals after the start, whoever looks or  *)
(* asks when; a window sees at most Capacity grants; nothing is granted    *)
(* while the limiter is closed.  Refills, idle time and the moment at      *)
(* which a refill is noticed do not appear.                                *)
(***************************************************************************)
EXTENDS Naturals

CONSTANTS Capacity, Interval, Pause

VARIABLES
  now,
  used,         \* grants in this window
  closedUntil,
  granted       \* grants since the start

vars == <<now, used, closedUntil, granted>>

Init == now = 0 /\ used = 0 /\ closedUntil = 0 /\ granted = 0

Grant ==
  /\ now >= closedUntil
  /\ used < Capacity
  /\ used' = used + 1
  /\ granted' = granted + 1
  /\ UNCHANGED <<now, closedUntil>>

Close ==
  /\ closedUntil' = now + Pause
  /\ UNCHANGED <<now, used, granted>>

BeginsWindow(t) == \E k \in 1 .. t : t = k * Interval

Pass ==
  /\ now' = now + 1
  /\ used' = IF BeginsWindow(now') THEN 0 ELSE used
  /\ UNCHANGED <<closedUntil, granted>>

Next == Grant \/ Close \/ Pass

Spec == Init /\ [][Next]_vars
=============================================================================
