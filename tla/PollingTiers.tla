---------------------------- MODULE PollingTiers ----------------------------
(***************************************************************************)
(* How often a tenant is polled: PollingDispatcherService keeps a timer    *)
(* per tenant at the interval of its tier, TierClassifierService decides   *)
(* on the tier every hour, from the snapshot of the last poll.             *)
(*                                                                         *)
(* One tenant, seen from one replica of the worker.  The other replicas    *)
(* write the same pollingTier column and take jobs from the same queue.    *)
(* Time passes in minutes; between two of them any number of awaits may    *)
(* settle.  What a poll job does is modelled in PollPipeline.              *)
(***************************************************************************)
EXTENDS Naturals, FiniteSets

CONSTANTS
  Demand,    \* what the tenant's reservations may call for: the tiers a list
             \* of them falls under while a snapshot of it lives, more than
             \* one if a start is about to cross the limit of a tier
  Interval,  \* minutes between two polls in each tier
  Ttl,       \* minutes a snapshot lives
  Hour,      \* minutes between two classifications
  MaxJobs,   \* jobs of the tenant that wait in the queue at the most
  Failure    \* what the environment may do wrong

Tier == {"TIER1", "TIER2", "TIER3"}

ASSUME PollingTiersAssumption ==
  /\ Demand \subseteq SUBSET Tier \ {{}} /\ Demand # {}
  /\ Interval \in [Tier -> Nat \ {0}]
  /\ {Ttl, Hour, MaxJobs} \subseteq Nat \ {0}
  /\ Failure \subseteq {"slow", "publish", "fsp", "database", "others", "stop"}

VARIABLES
  tier,        \* the pollingTier column, "none" before the bootstrap
  demand,      \* what FSP's reservations call for now
  lately,      \* history: minutes since each tier was called for, up to Ttl
  minute,      \* minutes past the hour
  cron,        \* the hour has struck and the classification has not begun
  phase,       \* of the replica's life
  loaded,      \* what the query of onModuleInit returned
  state,       \* the dispatcher's OperatorState
  timers,      \* the intervals that run
  publishing,  \* dispatchPollJob calls that wait for the publisher
  jobs,        \* poll jobs that wait in the queue
  store,       \* the RawSnapshotStore's record
  run,         \* the classification under way
  meddled      \* history: the column was written behind this replica's back

world == <<demand, lately>>
clock == <<minute, cron>>
life == <<phase, loaded>>
dispatcher == <<state, timers, publishing>>
polls == <<jobs, store>>
vars == <<tier, world, clock, life, dispatcher, polls, run, meddled>>

NotRegistered == [tier |-> "none", timer |-> 0, inFlight |-> FALSE]
NoSnapshot == [demand |-> {"none"}, age |-> 0]
NoRun == [at |-> "idle", row |-> "none", new |-> "none"]

Registered == state # NotRegistered

Init ==
  /\ tier \in {"none", "TIER2"}
  /\ demand \in Demand
  /\ lately = [t \in Tier |-> IF t \in demand THEN 0 ELSE Ttl]
  /\ minute = 0 /\ cron = FALSE
  /\ phase = "starting" /\ loaded = "none"
  /\ state = NotRegistered /\ timers = {} /\ publishing = 0
  /\ jobs = 0 /\ store = NoSnapshot
  /\ run = NoRun /\ meddled = FALSE

-----------------------------------------------------------------------------
(* Timers                                                                  *)

FreshId(ts) == CHOOSE n \in 1 .. Cardinality(ts) + 1 : \A t \in ts : t.id # n

StartTimer(ts, t) ==
  ts \cup {[id |-> FreshId(ts), every |-> Interval[t], due |-> Interval[t]]}

ClearTimer(ts, id) == {t \in ts : t.id # id}

-----------------------------------------------------------------------------
(* PollingDispatcherService                                                *)

\* onModuleInit reads the active operators; outside production it goes on
\* with none if the database does not answer ...
Load ==
  /\ phase = "starting"
  /\ phase' = "loading" /\ meddled' = FALSE
  /\ \/ loaded' = tier
     \/ "database" \in Failure /\ loaded' = "none"
  /\ UNCHANGED <<tier, world, clock, dispatcher, polls, run>>

\* ... and registers those it got.
Register ==
  /\ phase = "loading"
  /\ phase' = "up"
  /\ IF loaded = "none"
     THEN UNCHANGED <<state, timers>>
     ELSE /\ state' = [tier |-> loaded, timer |-> FreshId(timers), inFlight |-> FALSE]
          /\ timers' = StartTimer(timers, loaded)
  /\ UNCHANGED <<tier, world, clock, loaded, publishing, polls, run, meddled>>

\* A timer goes off: dispatchPollJob, unless the last one is still under way.
Fire(t) ==
  /\ t.due = 0
  /\ timers' = (timers \ {t}) \cup {[t EXCEPT !.due = t.every]}
  /\ IF state.inFlight
     THEN UNCHANGED <<state, publishing>>
     ELSE /\ state' = [state EXCEPT !.inFlight = Registered]
          /\ publishing' = publishing + 1
  /\ UNCHANGED <<tier, world, clock, life, polls, run, meddled>>

\* The finally of dispatchPollJob.
Dispatched ==
  /\ publishing > 0
  /\ publishing' = publishing - 1
  /\ state' = [state EXCEPT !.inFlight = FALSE]
  /\ UNCHANGED timers

Publish ==
  /\ Dispatched
  /\ jobs' = IF jobs < MaxJobs THEN jobs + 1 ELSE jobs
  /\ UNCHANGED <<tier, world, clock, life, store, run, meddled>>

PublishFails ==
  /\ "publish" \in Failure /\ Dispatched
  /\ UNCHANGED <<tier, world, clock, life, polls, run, meddled>>

\* Mutation: the old timer goes on.
RescheduledOnTop(new) ==
  /\ state' = [state EXCEPT !.tier = new, !.timer = FreshId(timers)]
  /\ timers' = StartTimer(timers, new)

\* The old timer is cleared and a new one started.
Rescheduled(new) ==
  LET ts == ClearTimer(timers, state.timer)
  IN  /\ state' = [state EXCEPT !.tier = new, !.timer = FreshId(ts)]
      /\ timers' = StartTimer(ts, new)

\* SIGTERM: onModuleDestroy clears timers and map; what waits goes on.
Stop ==
  /\ "stop" \in Failure /\ phase = "up"
  /\ phase' = "stopped"
  /\ state' = NotRegistered /\ timers' = ClearTimer(timers, state.timer)
  /\ UNCHANGED <<tier, world, clock, loaded, publishing, polls, run, meddled>>

\* The process ends, after SIGTERM or without, and another one starts.
Restart ==
  /\ "stop" \in Failure /\ phase # "starting"
  /\ phase' = "starting" /\ loaded' = "none"
  /\ state' = NotRegistered /\ timers' = {} /\ publishing' = 0
  /\ store' = NoSnapshot /\ run' = NoRun /\ cron' = FALSE
  /\ UNCHANGED <<tier, world, minute, jobs, meddled>>

-----------------------------------------------------------------------------
(* Polls                                                                   *)

\* This replica takes a job, its own or another's, and stores FSP's answer.
Poll ==
  /\ phase \in {"up", "stopped"} /\ (jobs > 0 \/ "others" \in Failure)
  /\ jobs' = IF jobs > 0 THEN jobs - 1 ELSE 0
  /\ store' = [demand |-> demand, age |-> 0]
  /\ UNCHANGED <<tier, world, clock, life, dispatcher, run, meddled>>

\* FSP refuses, or another replica takes the job.
PollElsewhere ==
  /\ Failure \cap {"fsp", "others"} # {} /\ jobs > 0
  /\ jobs' = jobs - 1
  /\ UNCHANGED <<tier, world, clock, life, dispatcher, store, run, meddled>>

-----------------------------------------------------------------------------
(* TierClassifierService                                                   *)

\* The cron job begins; its query runs ...
Cron ==
  /\ cron /\ run.at = "idle"
  /\ cron' = FALSE /\ run' = [NoRun EXCEPT !.at = "asking"]
  /\ UNCHANGED <<tier, world, minute, life, dispatcher, polls, meddled>>

\* ... and finds the tenant's row, if there is one; a failed query ends the
\* run, as does one without rows.
ReadRow ==
  /\ run.at = "asking"
  /\ \/ /\ tier = "none" \/ "database" \in Failure
        /\ run' = NoRun
     \/ /\ tier # "none"
        /\ run' = [run EXCEPT !.at = "read", !.row = tier]
  /\ UNCHANGED <<tier, world, clock, life, dispatcher, polls, meddled>>

\* Mutation: get() forgets to look at the age.
ClassifiedByAnySnapshot ==
  IF store = NoSnapshot THEN {"TIER3"} ELSE store.demand

\* classifyTier of the snapshot; an expired one counts as no reservations.
Classified ==
  IF store = NoSnapshot \/ store.age >= Ttl THEN {"TIER3"} ELSE store.demand

Classify ==
  /\ run.at = "read"
  /\ \E new \in Classified :
       run' = IF new = run.row THEN NoRun
              ELSE [run EXCEPT !.at = "updating", !.new = new]
  /\ store' = IF store.age >= Ttl THEN NoSnapshot ELSE store
  /\ UNCHANGED <<tier, world, clock, life, dispatcher, jobs, meddled>>

Update ==
  /\ run.at = "updating"
  /\ tier' = run.new /\ meddled' = FALSE
  /\ run' = [run EXCEPT !.at = "updated"]
  /\ UNCHANGED <<world, clock, life, dispatcher, polls>>

\* Mutation: the error is logged and the timer changed all the same.
UpdateFailsQuietly ==
  /\ "database" \in Failure /\ run.at = "updating"
  /\ run' = [run EXCEPT !.at = "updated"]
  /\ UNCHANGED <<tier, world, clock, life, dispatcher, polls, meddled>>

\* The rejection leaves reclassifyOperator, and nobody catches it.
UpdateFails ==
  /\ "database" \in Failure /\ run.at = "updating"
  /\ run' = NoRun
  /\ UNCHANGED <<tier, world, clock, life, dispatcher, polls, meddled>>

\* The same, but the row was written.
AnswerLost ==
  /\ "database" \in Failure /\ run.at = "updating"
  /\ tier' = run.new /\ meddled' = TRUE
  /\ run' = NoRun
  /\ UNCHANGED <<world, clock, life, dispatcher, polls>>

\* reschedule(): nothing if the tenant is unknown or the tier is the same.
Reschedule ==
  /\ run.at = "updated"
  /\ run' = NoRun
  /\ IF Registered /\ state.tier # run.new
     THEN Rescheduled(run.new)
     ELSE UNCHANGED <<state, timers>>
  /\ UNCHANGED <<tier, world, clock, life, publishing, polls, meddled>>

-----------------------------------------------------------------------------
(* The rest of the world                                                   *)

\* POST /operators/bootstrap writes the row; the worker is not told.
Bootstrap ==
  /\ tier = "none"
  /\ tier' = "TIER2" /\ meddled' = TRUE
  /\ UNCHANGED <<world, clock, life, dispatcher, polls, run>>

\* Another replica classifies by a snapshot of its own.
OtherUpdates ==
  /\ "others" \in Failure /\ tier # "none"
  /\ tier' \in Tier \ {tier} /\ meddled' = TRUE
  /\ UNCHANGED <<world, clock, life, dispatcher, polls, run>>

\* Reservations are made and pass.
DemandChanges ==
  /\ demand' \in Demand \ {demand}
  /\ lately' = [t \in Tier |-> IF t \in demand' THEN 0 ELSE lately[t]]
  /\ UNCHANGED <<tier, clock, life, dispatcher, polls, run, meddled>>

\* Without "slow", everything settles within the minute.
Settled == publishing = 0 /\ jobs = 0 /\ run.at = "idle" /\ phase \in {"up", "stopped"}

Older(age) == IF age < Ttl THEN age + 1 ELSE Ttl

\* A minute passes.  Timers and the cron job are on time; a classification
\* takes less than an hour.
Tick ==
  /\ \A t \in timers : t.due > 0
  /\ ~cron
  /\ "slow" \in Failure \/ Settled
  /\ minute = Hour - 1 => run.at = "idle"
  /\ minute' = (minute + 1) % Hour
  /\ cron' = (minute = Hour - 1 /\ phase = "up")
  /\ timers' = {[t EXCEPT !.due = t.due - 1] : t \in timers}
  /\ store' = IF store = NoSnapshot THEN store ELSE [store EXCEPT !.age = Older(@)]
  /\ lately' = [t \in Tier |-> IF t \in demand THEN 0 ELSE Older(lately[t])]
  /\ UNCHANGED <<tier, demand, life, state, publishing, jobs, run, meddled>>

Next ==
  \/ Load \/ Register \/ Publish \/ PublishFails \/ Stop \/ Restart
  \/ \E t \in timers : Fire(t)
  \/ Poll \/ PollElsewhere
  \/ Cron \/ ReadRow \/ Classify \/ Update \/ UpdateFails \/ AnswerLost \/ Reschedule
  \/ Bootstrap \/ OtherUpdates \/ DemandChanges \/ Tick

Spec == Init /\ [][Next]_vars

-----------------------------------------------------------------------------
(* What is true of it                                                      *)

\* Row, dispatcher, store and run hold values of the shape the code gives
\* them; a decision names a tier.
TypeOK ==
  /\ tier \in Tier \cup {"none"} /\ demand \in Demand
  /\ lately \in [Tier -> 0 .. Ttl]
  /\ minute \in 0 .. Hour - 1 /\ cron \in BOOLEAN
  /\ phase \in {"starting", "loading", "up", "stopped"}
  /\ loaded \in Tier \cup {"none"}
  /\ state \in [tier : Tier \cup {"none"}, timer : Nat, inFlight : BOOLEAN]
  /\ timers \subseteq [id : Nat, every : Nat \ {0}, due : Nat]
  /\ publishing \in Nat /\ jobs \in 0 .. MaxJobs
  /\ store \in [demand : Demand, age : 0 .. Ttl] \cup {NoSnapshot}
  /\ \/ run \in [at : {"idle", "asking"}, row : {"none"}, new : {"none"}]
     \/ run \in [at : {"read"}, row : Tier, new : {"none"}]
     \/ run \in [at : {"updating", "updated"}, row : Tier, new : Tier]
  /\ meddled \in BOOLEAN

\* A registered tenant has one timer, at the interval of its tier, and never
\* two jobs of it are being published by one replica, though a tier change
\* replaces the timer in the middle of a publish; no timer is left when the
\* tenant is not registered, not by a change that comes after the shutdown.
DispatchIsSerial ==
  /\ publishing <= 1
  /\ IF Registered
     THEN \E t \in timers : /\ timers = {t}
                            /\ t.id = state.timer /\ t.every = Interval[state.tier]
                            /\ t.due <= t.every
     ELSE timers = {}

\* Records and timers together are the one clock of PollTimer: it strikes at
\* the interval of its tier and starts anew when the tier changes, a strike
\* publishes unless the last job is still under way, whatever happens to the
\* record meanwhile, and after a shutdown nothing strikes.
Left == IF Registered THEN (CHOOSE t \in timers : TRUE).due ELSE 0
Clock == INSTANCE PollTimer WITH tier <- state.tier, left <- Left
DispatcherIsAClock == Clock!Spec

\* The classification gives a tenant a tier above the lowest only if its
\* reservations have called for that tier within the life of a snapshot: it
\* never acts on a list older than that, however late it runs.
PromotionIsFresh ==
  [][ run.at = "read" /\ run'.at = "updating" /\ run'.new # "TIER3"
      => lately[run'.new] < Ttl ]_vars

\* Unless the row was written behind its back, by another replica or by an
\* update whose answer was lost, the replica polls at the interval of the
\* stored tier whenever no change of its own is half way through.
TierIsFollowed ==
  Registered /\ run.at # "updated" /\ ~meddled => state.tier = tier
=============================================================================
