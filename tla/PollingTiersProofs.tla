------------------------- MODULE PollingTiersProofs -------------------------
(***************************************************************************)
(* The safety properties of PollingTiers for any intervals, any life of a  *)
(* snapshot and any demand.                                                *)
(***************************************************************************)
EXTENDS PollingTiers, TLAPS, FiniteSetTheorems

\* The dispatcher's record and its timer: one timer, at the tier's interval.
TimerMatches ==
  IF Registered
  THEN /\ state.tier \in Tier
       /\ \E t \in timers : /\ timers = {t}
                            /\ t.id = state.timer /\ t.every = Interval[state.tier]
                            /\ t.due <= t.every
  ELSE timers = {}

\* A job being published is the one the record calls in flight, or was left
\* by a replica that stops.
PublishesOnce ==
  /\ Registered => publishing = IF state.inFlight THEN 1 ELSE 0
  /\ ~Registered => publishing = 0 \/ (phase = "stopped" /\ publishing = 1)

\* A tenant is registered while the replica is up; before that no
\* classification runs.
UpFirst ==
  /\ Registered => phase = "up"
  /\ phase \in {"starting", "loading"} => run = NoRun /\ ~cron

\* What was loaded, and later what was decided, is in the row unless somebody
\* else wrote it.
RowIsKnown ==
  /\ phase = "loading" /\ ~meddled => loaded \in {tier, "none"}
  /\ run.at = "updated" /\ ~meddled => tier = run.new

\* What a snapshot says was true when it was taken.
SnapshotIsOfLate ==
  /\ \A t \in demand : lately[t] = 0
  /\ store # NoSnapshot => \A t \in store.demand : lately[t] <= store.age

IInv == /\ TypeOK /\ TimerMatches /\ PublishesOnce /\ UpFirst /\ RowIsKnown
        /\ SnapshotIsOfLate /\ TierIsFollowed

-----------------------------------------------------------------------------
(* The dispatcher's timer                                                  *)

\* The first timer's id is some number.
LEMMA FirstId == FreshId({}) \in Nat
  <1>1. Cardinality({}) = 0
    BY FS_EmptySet
  <1>2. FreshId({}) \in 1 .. 1
    BY <1>1 DEF FreshId
  <1> QED BY <1>2

\* A new timer when none runs.
LEMMA FirstTimer ==
  ASSUME PollingTiersAssumption, NEW t \in Tier
  PROVE  LET new == [id |-> FreshId({}), every |-> Interval[t], due |-> Interval[t]]
         IN  /\ StartTimer({}, t) = {new}
             /\ new \in [id : Nat, every : Nat \ {0}, due : Nat]
  BY FirstId DEF PollingTiersAssumption, StartTimer

\* The end of a publish leaves the record of an unregistered tenant alone.
LEMMA StaysUnregistered ==
  ASSUME NEW s, s = NotRegistered, NEW t, t = [s EXCEPT !.inFlight = FALSE]
  PROVE  t = NotRegistered
  BY DEF NotRegistered

LEMMA TypeInit == Init => TypeOK
  <1> SUFFICES ASSUME Init PROVE TypeOK
    OBVIOUS
  <1>1. /\ Ttl \in Nat \ {0} /\ Hour \in Nat \ {0} /\ MaxJobs \in Nat \ {0}
    BY PollingTiersAssumption DEF PollingTiersAssumption
  <1>2. run \in [at : {"idle", "asking"}, row : {"none"}, new : {"none"}]
    BY DEF Init, NoRun
  <1>3. lately \in [Tier -> 0 .. Ttl]
    BY <1>1 DEF Init
  <1>4. state \in [tier : Tier \cup {"none"}, timer : Nat, inFlight : BOOLEAN]
    BY DEF Init, NotRegistered
  <1>5. tier \in Tier \cup {"none"}
    BY DEF Init, Tier
  <1>6. 0 \in 0 .. MaxJobs /\ 0 \in 0 .. Hour - 1
    BY <1>1
  <1> QED BY <1>2, <1>3, <1>4, <1>5, <1>6 DEF Init, TypeOK

\* TypeOK, component by component.
WorldTyped == /\ tier \in Tier \cup {"none"} /\ demand \in Demand
              /\ lately \in [Tier -> 0 .. Ttl]
ClockTyped == minute \in 0 .. Hour - 1 /\ cron \in BOOLEAN /\ meddled \in BOOLEAN
LifeTyped == /\ phase \in {"starting", "loading", "up", "stopped"}
             /\ loaded \in Tier \cup {"none"}
DispatcherTyped ==
  /\ state \in [tier : Tier \cup {"none"}, timer : Nat, inFlight : BOOLEAN]
  /\ timers \subseteq [id : Nat, every : Nat \ {0}, due : Nat]
  /\ publishing \in Nat
PollsTyped == /\ jobs \in 0 .. MaxJobs
              /\ store \in [demand : Demand, age : 0 .. Ttl] \cup {NoSnapshot}
RunTyped == \/ run \in [at : {"idle", "asking"}, row : {"none"}, new : {"none"}]
            \/ run \in [at : {"read"}, row : Tier, new : {"none"}]
            \/ run \in [at : {"updating", "updated"}, row : Tier, new : Tier]

LEMMA TypeParts ==
  /\ TypeOK <=> WorldTyped /\ ClockTyped /\ LifeTyped /\ DispatcherTyped /\ PollsTyped /\ RunTyped
  /\ TypeOK' <=> /\ WorldTyped' /\ ClockTyped' /\ LifeTyped' /\ DispatcherTyped'
                 /\ PollsTyped' /\ RunTyped'
  BY DEF TypeOK, WorldTyped, ClockTyped, LifeTyped, DispatcherTyped, PollsTyped, RunTyped

\* What a run may look like at each point of it.
LEMMA RunAt ==
  ASSUME RunTyped
  PROVE  /\ run.at = "idle" => run = NoRun
         /\ run.at = "asking" => run.row = "none" /\ run.new = "none"
         /\ run.at \in {"read", "updating", "updated"} => run.row \in Tier
         /\ run.at \in {"updating", "updated"} => run.new \in Tier
  BY DEF RunTyped, NoRun

LEMMA TickSteps ==
  ASSUME PollingTiersAssumption, NEW age \in 0 .. Ttl
  PROVE  /\ Older(age) \in 0 .. Ttl
         /\ \A b \in 0 .. Ttl : age <= b => Older(age) <= Older(b)
  <1>1. Ttl \in Nat
    BY DEF PollingTiersAssumption
  <1>2. age \in Nat /\ age <= Ttl
    BY <1>1
  <1> QED BY <1>1, <1>2 DEF Older

LEMMA WorldNext ==
  ASSUME TypeOK, [Next]_vars
  PROVE  WorldTyped' /\ ClockTyped'
  <1> USE PollingTiersAssumption DEF PollingTiersAssumption
  <1>0. WorldTyped /\ ClockTyped /\ RunTyped /\ PollsTyped
    BY TypeParts
  <1>1. ASSUME UNCHANGED <<tier, world>> PROVE WorldTyped'
    BY <1>0, <1>1 DEF WorldTyped, world
  <1>2. ASSUME minute' = minute, cron' \in {cron, FALSE}, meddled' \in {meddled, TRUE, FALSE}
        PROVE ClockTyped'
    BY <1>0, <1>2 DEF ClockTyped
  <1>3. CASE Load \/ Register \/ Publish \/ PublishFails \/ Stop \/ Restart
    BY <1>1, <1>2, <1>3 DEF Load, Register, Publish, PublishFails, Stop, Restart, clock
  <1>4. CASE (\E t \in timers : Fire(t)) \/ Poll \/ PollElsewhere
    BY <1>1, <1>2, <1>4 DEF Fire, Poll, PollElsewhere, clock
  <1>5. CASE Cron \/ ReadRow \/ Classify \/ UpdateFails \/ Reschedule
    BY <1>1, <1>2, <1>5 DEF Cron, ReadRow, Classify, UpdateFails, Reschedule, clock
  <1>6. CASE Update \/ AnswerLost
    <2>1. run.new \in Tier
      BY <1>0, <1>6, RunAt DEF Update, AnswerLost
    <2>2. WorldTyped'
      BY <1>0, <1>6, <2>1 DEF WorldTyped, Update, AnswerLost, world
    <2> QED BY <1>2, <1>6, <2>2 DEF Update, AnswerLost, clock
  <1>7. CASE Bootstrap \/ OtherUpdates
    <2>1. WorldTyped'
      BY <1>0, <1>7 DEF WorldTyped, Bootstrap, OtherUpdates, world, Tier
    <2> QED BY <1>2, <1>7, <2>1 DEF Bootstrap, OtherUpdates, clock
  <1>8. CASE DemandChanges
    <2>1. WorldTyped'
      BY <1>0, <1>8 DEF WorldTyped, DemandChanges
    <2> QED BY <1>2, <1>8, <2>1 DEF DemandChanges, clock
  <1>9. CASE Tick
    <2>1. lately' \in [Tier -> 0 .. Ttl]
      BY <1>0, <1>9, TickSteps DEF WorldTyped, Tick
    <2>2. WorldTyped'
      BY <1>0, <1>9, <2>1 DEF WorldTyped, Tick
    <2>3. minute + 1 \in 0 .. Hour
      BY <1>0 DEF ClockTyped
    <2>4. (minute + 1) % Hour \in 0 .. Hour - 1
      BY <2>3
    <2>5. ClockTyped'
      BY <1>0, <1>9, <2>4 DEF ClockTyped, Tick
    <2> QED BY <2>2, <2>5
  <1>10. CASE UNCHANGED vars
    BY <1>1, <1>2, <1>10 DEF vars, clock
  <1> QED BY <1>3, <1>4, <1>5, <1>6, <1>7, <1>8, <1>9, <1>10 DEF Next

LEMMA RunNext ==
  ASSUME TypeOK, [Next]_vars
  PROVE  RunTyped' /\ PollsTyped'
  <1> USE PollingTiersAssumption DEF PollingTiersAssumption
  <1>0. WorldTyped /\ RunTyped /\ PollsTyped
    BY TypeParts
  <1>1. ASSUME run' = run PROVE RunTyped'
    BY <1>0, <1>1 DEF RunTyped
  <1>2. ASSUME run' = NoRun PROVE RunTyped'
    BY <1>2 DEF RunTyped, NoRun
  <1>3. ASSUME jobs' = jobs, store' \in {store, NoSnapshot} PROVE PollsTyped'
    BY <1>0, <1>3 DEF PollsTyped
  <1>4. CASE Load \/ Register \/ PublishFails \/ Stop \/ (\E t \in timers : Fire(t))
    BY <1>1, <1>3, <1>4 DEF Load, Register, PublishFails, Stop, Fire, polls
  <1>5. CASE Restart \/ UpdateFails \/ AnswerLost \/ Reschedule
    BY <1>2, <1>3, <1>5 DEF Restart, UpdateFails, AnswerLost, Reschedule, polls
  <1>6. CASE Publish \/ Poll \/ PollElsewhere
    <2>1. PollsTyped'
      BY <1>0, <1>6 DEF PollsTyped, WorldTyped, Publish, Poll, PollElsewhere
    <2> QED BY <1>1, <1>6, <2>1 DEF Publish, Poll, PollElsewhere
  <1>7. CASE Cron
    <2>1. run' = [at |-> "asking", row |-> "none", new |-> "none"]
      BY <1>7 DEF Cron, NoRun
    <2>2. RunTyped'
      BY <2>1 DEF RunTyped
    <2> QED BY <1>3, <1>7, <2>2 DEF Cron, polls
  <1>8. CASE ReadRow
    <2>1. CASE run' = NoRun
      BY <1>2, <1>3, <1>8, <2>1 DEF ReadRow, polls
    <2>2. CASE run' # NoRun
      <3>1. /\ tier # "none"
            /\ run' = [at |-> "read", row |-> tier, new |-> "none"]
        BY <1>0, <1>8, <2>2 DEF ReadRow, RunTyped
      <3>2. RunTyped'
        BY <1>0, <3>1 DEF RunTyped, WorldTyped
      <3> QED BY <1>3, <1>8, <3>2 DEF ReadRow, polls
    <2> QED BY <2>1, <2>2
  <1>9. CASE Classify
    <2>1. Classified \subseteq Tier
      BY <1>0 DEF Classified, PollsTyped, Tier
    <2>2. PICK new \in Tier : run' = IF new = run.row THEN NoRun
                                    ELSE [run EXCEPT !.at = "updating", !.new = new]
      BY <1>9, <2>1 DEF Classify
    <2>3. CASE run' = NoRun
      BY <1>2, <1>3, <1>9, <2>3 DEF Classify
    <2>4. CASE run' = [run EXCEPT !.at = "updating", !.new = new]
      <3>1. run' = [at |-> "updating", row |-> run.row, new |-> new] /\ run.row \in Tier
        BY <1>0, <1>9, <2>4 DEF Classify, RunTyped
      <3>2. RunTyped'
        BY <3>1 DEF RunTyped
      <3> QED BY <1>3, <1>9, <3>2 DEF Classify
    <2> QED BY <2>2, <2>3, <2>4
  <1>10. CASE Update
    <2>1. run' = [at |-> "updated", row |-> run.row, new |-> run.new]
          /\ run.row \in Tier /\ run.new \in Tier
      BY <1>0, <1>10 DEF Update, RunTyped
    <2>2. RunTyped'
      BY <2>1 DEF RunTyped
    <2> QED BY <1>3, <1>10, <2>2 DEF Update, polls
  <1>11. CASE Bootstrap \/ OtherUpdates \/ DemandChanges \/ UNCHANGED vars
    BY <1>1, <1>3, <1>11 DEF Bootstrap, OtherUpdates, DemandChanges, vars, polls
  <1>12. CASE Tick
    <2>1. store = NoSnapshot \/ store \in [demand : Demand, age : 0 .. Ttl]
      BY <1>0 DEF PollsTyped
    <2>2. store' \in [demand : Demand, age : 0 .. Ttl] \cup {NoSnapshot}
      BY <1>12, <2>1, TickSteps DEF Tick
    <2> QED BY <1>0, <1>1, <1>12, <2>2 DEF Tick, PollsTyped
  <1> QED
    BY <1>4, <1>5, <1>6, <1>7, <1>8, <1>9, <1>10, <1>11, <1>12 DEF Next

LEMMA LifeNext ==
  ASSUME TypeOK, [Next]_vars
  PROVE  LifeTyped'
  <1>0. WorldTyped /\ LifeTyped
    BY TypeParts
  <1>1. CASE UNCHANGED life
    BY <1>0, <1>1 DEF LifeTyped, life
  <1>2. CASE Load \/ Register \/ Stop \/ Restart
    BY <1>0, <1>2 DEF Load, Register, Stop, Restart, LifeTyped, WorldTyped
  <1> QED BY <1>1, <1>2 DEF Next, Publish, PublishFails, Fire, Poll, PollElsewhere, Cron, ReadRow,
                          Classify, Update, UpdateFails, AnswerLost, Reschedule, Bootstrap,
                          OtherUpdates, DemandChanges, Tick, vars

-----------------------------------------------------------------------------
(* What a step does to record, timers and jobs being published             *)

LEMMA DispatcherNext ==
  ASSUME IInv, [Next]_vars
  PROVE  DispatcherTyped' /\ TimerMatches' /\ PublishesOnce'
  <1> DEFINE Goal == DispatcherTyped' /\ TimerMatches' /\ PublishesOnce'
             Timers == [id : Nat, every : Nat \ {0}, due : Nat]
             States == [tier : Tier \cup {"none"}, timer : Nat, inFlight : BOOLEAN]
  <1> USE PollingTiersAssumption
  <1>0. /\ DispatcherTyped /\ LifeTyped /\ RunTyped /\ TimerMatches /\ PublishesOnce /\ UpFirst
    BY TypeParts DEF IInv
  <1>1. CASE UNCHANGED <<dispatcher, phase>>
    BY <1>0, <1>1
       DEF DispatcherTyped, TimerMatches, PublishesOnce, dispatcher, Registered
  <1>2. CASE Load
    BY <1>0, <1>2
       DEF Load, DispatcherTyped, TimerMatches, PublishesOnce, dispatcher, Registered, UpFirst
  <1>3. CASE Register
    <2>1. ~Registered /\ timers = {} /\ publishing = 0
      BY <1>0, <1>3 DEF Register, UpFirst, TimerMatches, PublishesOnce
    <2>2. CASE loaded = "none"
      BY <1>0, <1>3, <2>1, <2>2
         DEF Register, DispatcherTyped, TimerMatches, PublishesOnce, Registered
    <2>3. CASE loaded # "none"
      <3>1. loaded \in Tier
        BY <1>0, <2>3 DEF LifeTyped
      <3> DEFINE new == [id |-> FreshId({}), every |-> Interval[loaded], due |-> Interval[loaded]]
      <3>2. /\ state' = [tier |-> loaded, timer |-> FreshId({}), inFlight |-> FALSE]
            /\ timers' = {new} /\ new \in Timers /\ publishing' = 0
        BY <1>3, <2>1, <2>3, <3>1, FirstTimer DEF Register
      <3>3. state' \in States /\ state' # NotRegistered
        BY <3>1, <3>2, FirstId DEF NotRegistered, Tier
      <3>4. new.due <= new.every
        BY <3>1 DEF PollingTiersAssumption
      <3>5. DispatcherTyped' /\ PublishesOnce'
        BY <3>2, <3>3 DEF DispatcherTyped, PublishesOnce, Registered
      <3>6. new \in timers' /\ timers' = {new} /\ new.id = state'.timer
            /\ new.every = Interval[state'.tier] /\ state'.tier \in Tier
        BY <3>1, <3>2
      <3> QED BY <3>3, <3>4, <3>5, <3>6 DEF TimerMatches, Registered
    <2> QED BY <2>2, <2>3
  <1>4. ASSUME NEW t \in timers, Fire(t) PROVE Goal
    <2>1. Registered /\ timers = {t} /\ t \in Timers
          /\ t.id = state.timer /\ t.every = Interval[state.tier] /\ state.tier \in Tier
      BY <1>0, <1>4 DEF TimerMatches, DispatcherTyped
    <2> DEFINE u == [t EXCEPT !.due = t.every]
    <2>2. timers' = {u} /\ u \in Timers /\ u.id = t.id /\ u.every = t.every /\ u.due <= u.every
      BY <1>4, <2>1 DEF Fire
    <2>3. /\ state' \in States /\ state'.tier = state.tier /\ state'.timer = state.timer
          /\ state' # NotRegistered /\ publishing' = 1 /\ state'.inFlight = TRUE
      <3>1. state \in States /\ publishing = IF state.inFlight THEN 1 ELSE 0
        BY <1>0, <2>1 DEF DispatcherTyped, PublishesOnce
      <3>2. CASE state.inFlight
        BY <1>4, <2>1, <3>1, <3>2 DEF Fire, Registered
      <3>3. CASE ~state.inFlight
        <4>1. publishing' = 1 /\ state' = [state EXCEPT !.inFlight = TRUE]
          BY <1>4, <2>1, <3>1, <3>3 DEF Fire
        <4>2. NotRegistered.tier \notin Tier
          BY DEF NotRegistered, Tier
        <4> QED BY <2>1, <3>1, <4>1, <4>2
      <3> QED BY <3>2, <3>3
    <2>4. DispatcherTyped' /\ PublishesOnce'
      BY <2>2, <2>3 DEF DispatcherTyped, PublishesOnce, Registered
    <2> QED BY <2>1, <2>2, <2>3, <2>4 DEF TimerMatches, Registered
  <1>5. CASE Publish \/ PublishFails
    <2>1. /\ publishing > 0 /\ publishing' = publishing - 1 /\ timers' = timers
          /\ state' = [state EXCEPT !.inFlight = FALSE] /\ phase' = phase
      BY <1>5 DEF Publish, PublishFails, Dispatched, life
    <2>2. state' \in States /\ state'.tier = state.tier /\ state'.timer = state.timer
          /\ state'.inFlight = FALSE
      BY <1>0, <2>1 DEF DispatcherTyped
    <2>4. publishing = 1
      BY <1>0, <2>1 DEF PublishesOnce
    <2>3. Registered' <=> Registered
      <3>1. CASE Registered
        <4>1. state'.tier \in Tier
          BY <1>0, <2>2, <3>1 DEF TimerMatches
        <4>2. NotRegistered.tier \notin Tier
          BY DEF NotRegistered, Tier
        <4> QED BY <3>1, <4>1, <4>2 DEF Registered
      <3>2. CASE ~Registered
        BY <2>1, <3>2, StaysUnregistered DEF Registered
      <3> QED BY <3>1, <3>2
    <2> QED BY <1>0, <2>1, <2>2, <2>3, <2>4 DEF DispatcherTyped, TimerMatches, PublishesOnce
  <1>6. CASE Stop
    <2>1. timers' = {}
      BY <1>0, <1>6 DEF Stop, ClearTimer, TimerMatches
    <2>2. publishing \in {0, 1} /\ publishing' = publishing /\ phase' = "stopped"
      BY <1>0, <1>6 DEF Stop, PublishesOnce
    <2> QED BY <1>6, <2>1, <2>2
        DEF Stop, DispatcherTyped, TimerMatches, PublishesOnce, Registered, NotRegistered
  <1>7. CASE Restart
    BY <1>7
       DEF Restart, DispatcherTyped, TimerMatches, PublishesOnce, Registered, NotRegistered
  <1>8. ASSUME Reschedule, Registered, state.tier # run.new PROVE Goal
    <2>1. run.new \in Tier
      BY <1>0, <1>8, RunAt DEF Reschedule
    <2>2. ClearTimer(timers, state.timer) = {}
      BY <1>0, <1>8 DEF ClearTimer, TimerMatches
    <2> DEFINE new == [id |-> FreshId({}), every |-> Interval[run.new], due |-> Interval[run.new]]
    <2>3. /\ state' = [state EXCEPT !.tier = run.new, !.timer = FreshId({})]
          /\ timers' = {new} /\ new \in Timers /\ publishing' = publishing
      BY <1>8, <2>1, <2>2, FirstTimer DEF Reschedule, Rescheduled
    <2>4. /\ state' \in States /\ state'.tier = run.new /\ state'.timer = new.id
          /\ state'.inFlight = state.inFlight /\ state' # NotRegistered
      BY <1>0, <2>1, <2>3, FirstId DEF DispatcherTyped, NotRegistered, Tier
    <2>5. new.due <= new.every
      BY <2>1 DEF PollingTiersAssumption
    <2>6. DispatcherTyped' /\ PublishesOnce'
      BY <1>0, <1>8, <2>3, <2>4 DEF DispatcherTyped, PublishesOnce, Registered
    <2>7. new \in timers' /\ new.every = Interval[state'.tier]
      BY <2>3, <2>4
    <2> QED BY <2>1, <2>3, <2>4, <2>5, <2>6, <2>7 DEF TimerMatches, Registered
  <1>9. CASE Reschedule /\ ~(Registered /\ state.tier # run.new)
    BY <1>1, <1>9 DEF Reschedule, dispatcher, life
  <1>10. CASE Tick
    <2>1. timers' = {[t EXCEPT !.due = t.due - 1] : t \in timers}
          /\ (\A t \in timers : t.due > 0) /\ UNCHANGED <<state, publishing, phase>>
      BY <1>10 DEF Tick, life
    <2>2. timers' \subseteq Timers
      BY <1>0, <2>1 DEF DispatcherTyped
    <2>3. CASE ~Registered
      BY <1>0, <2>1, <2>2, <2>3 DEF DispatcherTyped, TimerMatches, PublishesOnce, Registered
    <2>4. CASE Registered
      <3>1. PICK t \in timers : /\ timers = {t} /\ t.id = state.timer
                                /\ t.every = Interval[state.tier] /\ t.due <= t.every
        BY <1>0, <2>4 DEF TimerMatches
      <3> DEFINE u == [t EXCEPT !.due = t.due - 1]
      <3>2. t \in Timers /\ t.due > 0
        BY <1>0, <2>1 DEF DispatcherTyped
      <3>3. timers' = {u} /\ u.id = t.id /\ u.every = t.every /\ u.due <= u.every
        BY <2>1, <3>1, <3>2
      <3> QED BY <1>0, <2>1, <2>2, <2>4, <3>1, <3>3
          DEF DispatcherTyped, TimerMatches, PublishesOnce, Registered
    <2> QED BY <2>3, <2>4
  <1> QED BY <1>1, <1>2, <1>3, <1>4, <1>5, <1>6, <1>7, <1>8, <1>9, <1>10
      DEF Next, Poll, PollElsewhere, Cron, ReadRow, Classify, Update, UpdateFails, AnswerLost,
          Bootstrap, OtherUpdates, DemandChanges, vars, life

-----------------------------------------------------------------------------
(* The life of the replica, the row and the snapshot                       *)

LEMMA UpNext ==
  ASSUME IInv, [Next]_vars
  PROVE  UpFirst'
  <1>0. UpFirst /\ RunTyped /\ TimerMatches
    BY TypeParts DEF IInv
  <1>1. CASE UNCHANGED <<phase, run, cron>> /\ (Registered' <=> Registered)
    BY <1>0, <1>1 DEF UpFirst
  <1>2. CASE Load \/ Register
    BY <1>0, <1>2 DEF Load, Register, UpFirst, Registered, dispatcher, clock
  <1>3. CASE Stop \/ Restart
    BY <1>3 DEF Stop, Restart, UpFirst, Registered
  <1>4. CASE Publish \/ PublishFails \/ \E t \in timers : Fire(t)
    <2>1. Registered' => Registered
      <3>1. CASE ~Registered
        <4>1. timers = {} /\ state = NotRegistered
          BY <1>0, <3>1 DEF TimerMatches, Registered
        <4>2. state' = [state EXCEPT !.inFlight = FALSE]
          BY <1>4, <4>1 DEF Publish, PublishFails, Dispatched
        <4> QED BY <4>1, <4>2, StaysUnregistered DEF Registered
      <3> QED BY <3>1
    <2>2. UNCHANGED <<phase, run, cron>>
      BY <1>4 DEF Publish, PublishFails, Fire, life, clock
    <2> QED BY <1>0, <2>1, <2>2 DEF UpFirst
  <1>5. CASE Cron \/ ReadRow \/ Classify \/ Update \/ UpdateFails \/ AnswerLost \/ Reschedule
    <2>1. phase \notin {"starting", "loading"} /\ phase' = phase
      <3>1. cron \/ run.at # "idle"
        BY <1>5 DEF Cron, ReadRow, Classify, Update, UpdateFails, AnswerLost, Reschedule
      <3>2. NoRun.at = "idle"
        BY DEF NoRun
      <3>3. phase' = phase
        BY <1>5 DEF Cron, ReadRow, Classify, Update, UpdateFails, AnswerLost, Reschedule, life
      <3> QED BY <1>0, <3>1, <3>2, <3>3 DEF UpFirst
    <2>2. CASE Reschedule /\ Registered
      BY <1>0, <2>1, <2>2 DEF UpFirst
    <2>3. CASE state' = state
      BY <1>0, <2>1, <2>3 DEF UpFirst, Registered
    <2> QED BY <1>5, <2>2, <2>3 DEF Cron, ReadRow, Classify, Update, UpdateFails, AnswerLost,
                                    Reschedule, dispatcher
  <1>6. CASE Tick
    BY <1>0, <1>6 DEF Tick, UpFirst, Registered, life
  <1>7. CASE Poll \/ PollElsewhere \/ Bootstrap \/ OtherUpdates \/ DemandChanges \/ UNCHANGED vars
    BY <1>1, <1>7 DEF Poll, PollElsewhere, Bootstrap, OtherUpdates, DemandChanges, vars, life,
                      clock, dispatcher, Registered
  <1> QED BY <1>2, <1>3, <1>4, <1>5, <1>6, <1>7 DEF Next

LEMMA RowNext ==
  ASSUME IInv, [Next]_vars
  PROVE  RowIsKnown' /\ TierIsFollowed'
  <1> DEFINE Goal == RowIsKnown' /\ TierIsFollowed'
  <1>0. UpFirst /\ RunTyped /\ TimerMatches /\ RowIsKnown /\ TierIsFollowed
    BY TypeParts DEF IInv
  <1>1. ASSUME UNCHANGED <<tier, phase, loaded, meddled, state>>,
               run' = run \/ (run'.at # "updated" /\ run.at # "updated")
        PROVE  Goal
    BY <1>0, <1>1 DEF RowIsKnown, TierIsFollowed, Registered
  <1>2. CASE Load
    <2>1. run.at = "idle" /\ ~Registered /\ ~Registered' /\ run' = run
      BY <1>0, <1>2 DEF Load, UpFirst, NoRun, Registered, dispatcher
    <2> QED BY <1>2, <2>1 DEF Load, RowIsKnown, TierIsFollowed
  <1>3. CASE Register
    <2>1. run'.at = "idle" /\ ~Registered /\ phase' = "up"
      BY <1>0, <1>3 DEF Register, UpFirst, NoRun
    <2>2. UNCHANGED <<tier, meddled>> /\ phase = "loading"
      BY <1>3 DEF Register
    <2>3. CASE loaded = "none"
      BY <1>3, <2>1, <2>2, <2>3 DEF Register, RowIsKnown, TierIsFollowed, Registered
    <2>4. CASE loaded # "none"
      <3>1. state'.tier = loaded
        BY <1>3, <2>4 DEF Register
      <3> QED BY <1>0, <2>1, <2>2, <2>4, <3>1 DEF RowIsKnown, TierIsFollowed
    <2> QED BY <2>3, <2>4
  <1>4. CASE Stop
    BY <1>0, <1>4 DEF Stop, RowIsKnown, TierIsFollowed, Registered
  <1>5. CASE Restart
    BY <1>5 DEF Restart, RowIsKnown, TierIsFollowed, Registered, NoRun
  <1>6. CASE Publish \/ PublishFails \/ \E t \in timers : Fire(t)
    <2>1. UNCHANGED <<tier, phase, loaded, meddled, run>>
      BY <1>6 DEF Publish, PublishFails, Fire, life
    <2>2. Registered' => Registered /\ state'.tier = state.tier
      <3>1. CASE state' = state
        BY <3>1 DEF Registered
      <3>2. CASE Publish \/ PublishFails
        <4>1. state' = [state EXCEPT !.inFlight = FALSE]
          BY <3>2 DEF Publish, PublishFails, Dispatched
        <4>2. DispatcherTyped
          BY TypeParts DEF IInv
        <4> QED BY <4>1, <4>2, StaysUnregistered DEF Registered, DispatcherTyped
      <3>3. ASSUME NEW t \in timers, Fire(t)
            PROVE  Registered' => Registered /\ state'.tier = state.tier
        <4>1. Registered /\ DispatcherTyped
          BY <1>0, <3>3, TypeParts DEF TimerMatches, IInv
        <4> QED BY <3>3, <4>1 DEF Fire, DispatcherTyped
      <3> QED BY <1>6, <3>1, <3>2, <3>3
    <2> QED BY <1>0, <2>1, <2>2 DEF RowIsKnown, TierIsFollowed
  <1>7. CASE Cron \/ ReadRow \/ Classify \/ UpdateFails
    <2>1. run.at # "updated" /\ run'.at # "updated"
      <3>1. NoRun.at = "idle" /\ run.at # "updated"
        BY <1>7 DEF Cron, ReadRow, Classify, UpdateFails, NoRun
      <3>2. CASE Cron
        BY <3>1, <3>2 DEF Cron, NoRun
      <3>3. CASE ReadRow
        BY <1>0, <3>1, <3>3 DEF ReadRow, RunTyped
      <3>4. CASE Classify
        <4>1. PICK new \in Classified : run' = IF new = run.row THEN NoRun
                                        ELSE [run EXCEPT !.at = "updating", !.new = new]
          BY <3>4 DEF Classify
        <4> QED BY <1>0, <3>1, <4>1 DEF RunTyped
      <3>5. CASE UpdateFails
        BY <3>1, <3>5 DEF UpdateFails
      <3> QED BY <1>7, <3>1, <3>2, <3>3, <3>4, <3>5
    <2> QED BY <1>1, <1>7, <2>1 DEF Cron, ReadRow, Classify, UpdateFails, life, dispatcher
  <1>8. CASE Update
    <2>1. run'.new = run.new /\ run'.at = "updated" /\ tier' = run.new
      BY <1>0, <1>8 DEF Update, RunTyped
    <2>2. phase \notin {"starting", "loading"} /\ phase' = phase
      BY <1>0, <1>8 DEF Update, UpFirst, NoRun, life
    <2> QED BY <2>1, <2>2 DEF RowIsKnown, TierIsFollowed
  <1>9. CASE AnswerLost \/ Bootstrap \/ OtherUpdates
    BY <1>9 DEF AnswerLost, Bootstrap, OtherUpdates, RowIsKnown, TierIsFollowed
  <1>10. CASE Reschedule
    <2>1. run.at = "updated" /\ run'.at = "idle" /\ UNCHANGED <<tier, phase, meddled>>
      BY <1>10 DEF Reschedule, NoRun, life
    <2>2. phase \notin {"starting", "loading"}
      BY <1>0, <2>1 DEF UpFirst, NoRun
    <2>3. CASE Registered /\ state.tier # run.new
      <3>1. state'.tier = run.new
        BY <1>10, <2>3, TypeParts DEF Reschedule, Rescheduled, IInv, DispatcherTyped
      <3> QED BY <1>0, <2>1, <2>2, <3>1 DEF RowIsKnown, TierIsFollowed
    <2>4. CASE ~(Registered /\ state.tier # run.new)
      <3>1. state' = state
        BY <1>10, <2>4 DEF Reschedule
      <3> QED BY <1>0, <2>1, <2>2, <2>4, <3>1 DEF RowIsKnown, TierIsFollowed, Registered
    <2> QED BY <2>3, <2>4
  <1>11. CASE Poll \/ PollElsewhere \/ DemandChanges \/ Tick \/ UNCHANGED vars
    BY <1>1, <1>11 DEF Poll, PollElsewhere, DemandChanges, Tick, vars, life, dispatcher
  <1> QED
    BY <1>2, <1>3, <1>4, <1>5, <1>6, <1>7, <1>8, <1>9, <1>10, <1>11 DEF Next

LEMMA SnapshotNext ==
  ASSUME IInv, [Next]_vars
  PROVE  SnapshotIsOfLate'
  <1> USE PollingTiersAssumption
  <1>0. SnapshotIsOfLate /\ PollsTyped /\ WorldTyped
    BY TypeParts DEF IInv
  <1>1. CASE UNCHANGED <<demand, lately>> /\ store' \in {store, NoSnapshot}
    BY <1>0, <1>1 DEF SnapshotIsOfLate
  <1>2. demand \subseteq Tier /\ (store # NoSnapshot => store.demand \subseteq Tier)
    BY <1>0 DEF WorldTyped, PollsTyped, PollingTiersAssumption
  <1>3. CASE Poll
    BY <1>0, <1>3 DEF Poll, SnapshotIsOfLate, world
  <1>4. CASE DemandChanges
    <2>1. demand' \subseteq Tier /\ store' = store
      BY <1>4 DEF DemandChanges, PollingTiersAssumption, polls
    <2>2. \A t \in Tier : lately'[t] = IF t \in demand' THEN 0 ELSE lately[t]
      BY <1>4 DEF DemandChanges
    <2>3. store # NoSnapshot => store.age \in 0 .. Ttl
      BY <1>0 DEF PollsTyped
    <2>4. ASSUME store # NoSnapshot, NEW t \in store.demand PROVE lately'[t] <= store.age
      BY <1>0, <1>2, <2>2, <2>3, <2>4 DEF SnapshotIsOfLate, PollingTiersAssumption
    <2> QED BY <2>1, <2>2, <2>4 DEF SnapshotIsOfLate
  <1>5. CASE Tick
    <2>1. /\ demand' = demand
          /\ \A t \in Tier : lately'[t] = IF t \in demand THEN 0 ELSE Older(lately[t])
      BY <1>5 DEF Tick
    <2>2. CASE store = NoSnapshot
      BY <1>2, <1>5, <2>1, <2>2 DEF Tick, SnapshotIsOfLate
    <2>3. CASE store # NoSnapshot
      <3>1. store \in [demand : Demand, age : 0 .. Ttl]
        BY <1>0, <2>3 DEF PollsTyped
      <3>2. store'.demand = store.demand /\ store'.age = Older(store.age)
        BY <1>5, <2>3, <3>1 DEF Tick
      <3>3. ASSUME NEW t \in store.demand PROVE lately'[t] <= store'.age
        <4>1. lately[t] <= store.age /\ t \in Tier
          BY <1>0, <1>2, <2>3 DEF SnapshotIsOfLate
        <4>2. lately[t] \in 0 .. Ttl /\ store.age \in 0 .. Ttl
          BY <1>0, <3>1, <4>1 DEF WorldTyped
        <4>3. Older(lately[t]) <= Older(store.age) /\ Older(store.age) \in 0 .. Ttl
          BY <4>1, <4>2, TickSteps
        <4>4. lately'[t] = 0 \/ lately'[t] = Older(lately[t])
          BY <2>1, <4>1
        <4> QED BY <3>2, <4>3, <4>4 DEF PollingTiersAssumption
      <3> QED BY <1>2, <2>1, <3>2, <3>3 DEF SnapshotIsOfLate
    <2> QED BY <2>2, <2>3
  <1> QED
    BY <1>1, <1>3, <1>4, <1>5
       DEF Next, Load, Register, Publish, PublishFails, Stop, Restart, Fire, PollElsewhere, Cron,
           ReadRow, Classify, Update, UpdateFails, AnswerLost, Reschedule, Bootstrap,
           OtherUpdates, vars, world, polls

-----------------------------------------------------------------------------
(* The theorems                                                            *)

LEMMA InitIInv == Init => IInv
  <1> SUFFICES ASSUME Init PROVE IInv
    OBVIOUS
  <1>1. /\ state = NotRegistered /\ timers = {} /\ publishing = 0 /\ phase = "starting"
        /\ run = NoRun /\ ~cron /\ store = NoSnapshot
    BY DEF Init
  <1>2. TimerMatches /\ PublishesOnce /\ UpFirst /\ TierIsFollowed /\ RowIsKnown
    BY <1>1 DEF TimerMatches, PublishesOnce, UpFirst, TierIsFollowed, RowIsKnown, Registered,
                NoRun
  <1>3. demand \subseteq Tier
    BY PollingTiersAssumption DEF Init, PollingTiersAssumption
  <1>4. SnapshotIsOfLate
    BY <1>1, <1>3 DEF Init, SnapshotIsOfLate
  <1> QED BY <1>2, <1>4, TypeInit DEF IInv

LEMMA NextIInv == IInv /\ [Next]_vars => IInv'
  <1> SUFFICES ASSUME IInv, [Next]_vars PROVE IInv'
    OBVIOUS
  <1>1. TypeOK
    BY DEF IInv
  <1>2. DispatcherTyped' /\ TimerMatches' /\ PublishesOnce'
    BY DispatcherNext
  <1>3. TypeOK'
    BY <1>1, <1>2, TypeParts, WorldNext, RunNext, LifeNext
  <1> QED BY <1>2, <1>3, UpNext, RowNext, SnapshotNext DEF IInv

LEMMA AlwaysIInv == Spec => []IInv
  BY InitIInv, NextIInv, PTL DEF Spec

\* Row, dispatcher, store and run hold values of the shape the code gives
\* them, for any intervals, any life of a snapshot and any demand.
THEOREM TierTypes == Spec => []TypeOK
  <1>1. IInv => TypeOK
    BY DEF IInv
  <1> QED BY <1>1, AlwaysIInv, PTL

\* A registered tenant has one timer at its tier's interval and at most one
\* job being published; none is left when it is not registered.
THEOREM SerialDispatch == Spec => []DispatchIsSerial
  <1>1. IInv => DispatchIsSerial
    BY DEF IInv, TypeOK, TimerMatches, PublishesOnce, DispatchIsSerial
  <1> QED BY <1>1, AlwaysIInv, PTL

\* The replica polls at the interval of the stored tier, unless somebody else
\* wrote the row or a change of its own is half way through.
THEOREM TierFollowed == Spec => []TierIsFollowed
  <1>1. IInv => TierIsFollowed
    BY DEF IInv
  <1> QED BY <1>1, AlwaysIInv, PTL

\* A classification decides for a tier above the lowest only if reservations
\* called for it within the life of a snapshot.
THEOREM FreshPromotion == Spec => PromotionIsFresh
  <1> DEFINE A == run.at = "read" /\ run'.at = "updating" /\ run'.new # "TIER3"
                    => lately[run'.new] < Ttl
  <1>1. IInv /\ [Next]_vars => [A]_vars
    <2> SUFFICES ASSUME IInv, [Next]_vars, run.at = "read", run'.at = "updating",
                        run'.new # "TIER3"
                 PROVE  lately[run'.new] < Ttl
      OBVIOUS
    <2>1. Classify
      BY DEF Next, Load, Register, Publish, PublishFails, Stop, Restart, Fire, Poll,
             PollElsewhere, Cron, ReadRow, Update, UpdateFails, AnswerLost, Reschedule,
             Bootstrap, OtherUpdates, DemandChanges, Tick, vars, NoRun
    <2>2. RunTyped /\ PollsTyped /\ WorldTyped /\ SnapshotIsOfLate
      BY TypeParts DEF IInv
    <2>3. run'.new \in Classified
      BY <2>1, <2>2 DEF Classify, RunTyped, NoRun
    <2>4. store # NoSnapshot /\ ~(store.age >= Ttl) /\ run'.new \in store.demand
      BY <2>3 DEF Classified
    <2>5. store.age \in 0 .. Ttl /\ store.demand \subseteq Tier
      BY <2>2, <2>4, PollingTiersAssumption DEF PollsTyped, PollingTiersAssumption
    <2>6. lately[run'.new] \in 0 .. Ttl /\ lately[run'.new] <= store.age
      BY <2>2, <2>4, <2>5 DEF WorldTyped, SnapshotIsOfLate
    <2> QED BY <2>4, <2>5, <2>6, PollingTiersAssumption DEF PollingTiersAssumption
  <1> QED BY <1>1, AlwaysIInv, PTL DEF Spec, PromotionIsFresh
-----------------------------------------------------------------------------
(* The clock of PollTimer                                                  *)

\* What is left is what the one timer has left.
LEMMA OneTimer ==
  /\ \A t : Registered /\ timers = {t} => Left = t.due
  /\ ~Registered => Left = 0
  BY DEF Left

LEMMA OneTimerNext ==
  (/\ \A t : Registered /\ timers = {t} => Left = t.due
   /\ ~Registered => Left = 0)'
  BY OneTimer, PTL

\* A record that names a tier is a registered tenant's, and the other way round.
LEMMA RegisteredHasTier == IInv => (Registered <=> state.tier \in Tier)
  BY DEF IInv, TimerMatches, Registered, NotRegistered, Tier

LEMMA RegisteredHasTierNext == (IInv => (Registered <=> state.tier \in Tier))'
  BY RegisteredHasTier, PTL

LEMMA ClockStep ==
  ASSUME IInv, IInv', [Next]_vars
  PROVE  [Clock!Next]_(Clock!vars)
  <1> USE PollingTiersAssumption
  <1> DEFINE Timers == [id : Nat, every : Nat \ {0}, due : Nat]
  <1>0. /\ DispatcherTyped /\ LifeTyped /\ RunTyped /\ TimerMatches /\ PublishesOnce /\ UpFirst
        /\ DOMAIN Interval = Tier /\ "none" \notin Tier
    BY TypeParts DEF IInv, PollingTiersAssumption, Tier
  <1>1. ASSUME UNCHANGED <<state, timers>> PROVE Left' = Left
    BY <1>1 DEF Left, Registered
  <1>2. CASE UNCHANGED dispatcher
    BY <1>1, <1>2 DEF dispatcher, Clock!vars
  <1>3. CASE Register
    <2>1. CASE loaded = "none"
      BY <1>1, <1>3, <2>1 DEF Register, Clock!vars
    <2>2. CASE loaded # "none"
      <3>1. ~Registered /\ timers = {} /\ loaded \in Tier
        BY <1>0, <1>3, <2>2 DEF Register, UpFirst, TimerMatches, LifeTyped
      <3> DEFINE new == [id |-> FreshId({}), every |-> Interval[loaded], due |-> Interval[loaded]]
      <3>2. state'.tier = loaded /\ timers' = {new} /\ publishing' = publishing
        BY <1>3, <2>2, <3>1, FirstTimer DEF Register
      <3>3. Left' = Interval[loaded]
        <4>1. Registered'
          BY <3>1, <3>2, RegisteredHasTierNext
        <4>2. Left' = new.due
          <5> HIDE DEF new
          <5> QED BY <3>2, <4>1, OneTimerNext
        <4> QED BY <4>2
      <3>4. state.tier = "none"
        BY <3>1 DEF Registered, NotRegistered
      <3> QED BY <1>0, <3>1, <3>2, <3>3, <3>4 DEF Clock!Next, Clock!Start
    <2> QED BY <2>1, <2>2
  <1>4. ASSUME NEW t \in timers, Fire(t) PROVE Clock!Strike
    <2>1. Registered /\ timers = {t} /\ t \in Timers /\ t.due = 0
          /\ t.every = Interval[state.tier] /\ state.tier \in Tier
      BY <1>0, <1>4 DEF Fire, TimerMatches, DispatcherTyped
    <2> DEFINE u == [t EXCEPT !.due = t.every]
    <2>2. timers' = {u} /\ u.due = t.every
      BY <1>4, <2>1 DEF Fire
    <2>3. state'.tier = state.tier /\ publishing' = 1
      <3>1. publishing = IF state.inFlight THEN 1 ELSE 0
        BY <1>0, <2>1 DEF PublishesOnce
      <3> QED BY <1>0, <1>4, <2>1, <3>1 DEF Fire, DispatcherTyped
    <2>4. Left = 0 /\ Left' = Interval[state.tier]
      BY <2>1, <2>2, <2>3, OneTimer, OneTimerNext, RegisteredHasTierNext
    <2> QED BY <1>0, <2>1, <2>3, <2>4 DEF Clock!Strike
  <1>5. CASE Publish \/ PublishFails
    <2>1. /\ publishing > 0 /\ publishing' = publishing - 1 /\ timers' = timers
          /\ state' = [state EXCEPT !.inFlight = FALSE]
      BY <1>5 DEF Publish, PublishFails, Dispatched
    <2>2. publishing = 1 /\ state'.tier = state.tier
      BY <1>0, <2>1 DEF PublishesOnce, DispatcherTyped
    <2>3. Left' = Left
      <3>1. Registered' <=> Registered
        BY <2>2, RegisteredHasTier, RegisteredHasTierNext
      <3> QED BY <2>1, <3>1 DEF Left
    <2> QED BY <2>1, <2>2, <2>3 DEF Clock!Next, Clock!Published
  <1>6. CASE Stop \/ Restart
    <2>1. state' = NotRegistered /\ publishing' \in {0, publishing}
      BY <1>6 DEF Stop, Restart
    <2>2. Left' = 0
      BY <2>1, OneTimerNext DEF Registered
    <2> QED BY <2>1, <2>2 DEF Clock!Next, Clock!End, NotRegistered
  <1>7. ASSUME Reschedule, Registered, state.tier # run.new PROVE Clock!Start
    <2>1. run.new \in Tier
      BY <1>0, <1>7, RunAt DEF Reschedule
    <2>2. ClearTimer(timers, state.timer) = {}
      BY <1>0, <1>7 DEF ClearTimer, TimerMatches
    <2> DEFINE new == [id |-> FreshId({}), every |-> Interval[run.new], due |-> Interval[run.new]]
    <2>3. state'.tier = run.new /\ timers' = {new} /\ publishing' = publishing
      BY <1>0, <1>7, <2>1, <2>2, FirstTimer, ZenonT(60) DEF Reschedule, Rescheduled, DispatcherTyped
    <2>4. Left' = Interval[run.new]
      <3>1. Registered'
        BY <2>1, <2>3, RegisteredHasTierNext
      <3>2. Left' = new.due
        <4> HIDE DEF new
        <4> QED BY <2>3, <3>1, OneTimerNext
      <3> QED BY <3>2
    <2> QED BY <1>0, <1>7, <2>1, <2>3, <2>4 DEF Clock!Start
  <1>8. CASE Reschedule /\ ~(Registered /\ state.tier # run.new)
    BY <1>1, <1>8 DEF Reschedule, Clock!vars
  <1>9. CASE Tick
    <2>1. timers' = {[t EXCEPT !.due = t.due - 1] : t \in timers}
          /\ (\A t \in timers : t.due > 0) /\ UNCHANGED <<state, publishing>>
      BY <1>9 DEF Tick
    <2>2. CASE ~Registered
      BY <2>1, <2>2 DEF Left, Registered, Clock!vars
    <2>3. CASE Registered
      <3>1. PICK t \in timers : timers = {t}
        BY <1>0, <2>3 DEF TimerMatches
      <3> DEFINE u == [t EXCEPT !.due = t.due - 1]
      <3>2. t \in Timers /\ t.due > 0
        BY <1>0, <2>1 DEF DispatcherTyped
      <3>3. timers' = {u} /\ u.due = t.due - 1
        BY <2>1, <3>1, <3>2
      <3>4. Registered'
        BY <2>1, <2>3 DEF Registered
      <3>5. Left = t.due /\ Left' = t.due - 1
        BY <2>3, <3>1, <3>3, <3>4, OneTimer, OneTimerNext
      <3>6. state.tier # "none"
        BY <1>0, <2>3, RegisteredHasTier
      <3> QED BY <2>1, <3>2, <3>5, <3>6 DEF Clock!Next, Clock!Minute
    <2> QED BY <2>2, <2>3
  <1> QED BY <1>2, <1>3, <1>4, <1>5, <1>6, <1>7, <1>8, <1>9
      DEF Next, Load, Poll, PollElsewhere, Cron, ReadRow, Classify, Update, UpdateFails,
          AnswerLost, Bootstrap, OtherUpdates, DemandChanges, vars, Clock!Next

\* The dispatcher with its records, timers and flags implements one clock per
\* tenant, through changes of tier in the middle of a publish, shutdown and
\* crash, for any intervals.
THEOREM DispatcherRefines == Spec => DispatcherIsAClock
  <1>1. Init => Clock!Init
    BY OneTimer DEF Init, Clock!Init, NotRegistered, Registered
  <1>2. IInv /\ IInv' /\ [Next]_vars => [Clock!Next]_(Clock!vars)
    BY ClockStep
  <1> QED BY <1>1, <1>2, AlwaysIInv, PTL DEF Spec, Clock!Spec, DispatcherIsAClock
=============================================================================
