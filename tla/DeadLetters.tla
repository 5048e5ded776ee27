---------------------------- MODULE DeadLetters ----------------------------
(***************************************************************************)
(* The sweep of the dead-letter queues and the handles of the bus that     *)
(* ServiceBusService keeps (apps/worker/src/service-bus).                  *)
(*                                                                         *)
(* Messages are received under a lock; one that is not completed becomes   *)
(* visible again when the receiver is closed or the lock runs out.  A      *)
(* sweep that waits for a message may still run when the next one starts.  *)
(* A letter is reported first and completed then, with a wait in between.  *)
(***************************************************************************)
EXTENDS Integers, Sequences, FiniteSets

CONSTANTS
  Letter,      \* messages that end up in a dead-letter queue
  Queues,      \* QUEUE_NAMES, in the order of the sweep
  QueueOf,
  Sweep,       \* runs of the cron job that may overlap
  MaxReceive,  \* messages per call of receiveMessages
  MaxHandles,  \* receivers a worker opens in the instance
  MaxReports   \* reports of one message that are told apart

ASSUME LettersAssumption ==
  /\ Queues \in Seq(STRING) /\ Queues # <<>>
  /\ MaxHandles \in Nat /\ MaxReports \in Nat \ {0}

VARIABLES
  letters,     \* per message: "live", "dead" or "gone"
  lockedBy,    \* the sweep whose receiver holds the message, or Nobody
  sweep,       \* per run: the queue it is at, its messages still to do, and
               \* the one it has reported and is completing
  receivers,   \* ServiceBusService.receivers: one entry per creation
  bus,         \* the client: "open", "closing", "closed"
  reports,     \* per message: how often it was reported
  lost         \* history: messages that were let go of and not completed

letterVars == <<letters, lockedBy, sweep, receivers, bus, reports, lost>>

Nobody == "nobody"

ASSUME SweepsAssumption == Nobody \notin Sweep

At(q, receiver) == [at |-> q, receiver |-> receiver, todo |-> {}, told |-> {}]
Resting == At(0, "none")

DeadInit ==
  /\ letters = [m \in Letter |-> "live"]
  /\ lockedBy = [m \in Letter |-> Nobody]
  /\ sweep = [w \in Sweep |-> Resting]
  /\ receivers = 0
  /\ bus = "open"
  /\ reports = [m \in Letter |-> 0] /\ lost = {}

\* From outside: the bus gives up on a message (PollPipeline has how).
DeadLettered(m) ==
  /\ letters[m] = "live"
  /\ letters' = [letters EXCEPT ![m] = "dead"]
  /\ UNCHANGED <<lockedBy, sweep, receivers, bus, reports, lost>>

\* createDeadLetterReceiver for the queue at hand; the first one when the job
\* begins.  A closed client throws, which ends the run.
OpenReceiver(w) ==
  /\ sweep[w].receiver = "none" /\ receivers < MaxHandles
  /\ LET q == IF sweep[w].at = 0 THEN 1 ELSE sweep[w].at
     IN IF bus = "closed"
          THEN sweep' = [sweep EXCEPT ![w] = Resting] /\ receivers' = receivers
          ELSE /\ sweep' = [sweep EXCEPT ![w] = At(q, "open")]
               /\ receivers' = receivers + 1
  /\ UNCHANGED <<letters, lockedBy, bus, reports, lost>>

Available(w) ==
  {m \in Letter : /\ letters[m] = "dead" /\ lockedBy[m] = Nobody
                  /\ QueueOf[m] = Queues[sweep[w].at]}

\* receiveMessages answers with what is there, as many as it may take.
Receive(w) ==
  /\ sweep[w].receiver = "open" /\ bus = "open"
  /\ \E got \in SUBSET Available(w) \ {{}} :
       /\ Cardinality(got) <= MaxReceive
       /\ lockedBy' = [m \in Letter |-> IF m \in got THEN w ELSE lockedBy[m]]
       /\ sweep' = [sweep EXCEPT ![w].todo = got, ![w].receiver = "used"]
  /\ UNCHANGED <<letters, receivers, bus, reports, lost>>

\* The logger's warning; it cannot fail.
Report(m) ==
  /\ reports' = [reports EXCEPT ![m] = IF @ < MaxReports THEN @ + 1 ELSE @]
  /\ UNCHANGED letters

\* completeMessage: it fails when the lock was lost, the link is closed or the
\* bus does not answer, and the sweep goes on all the same.
CompleteMessage(w, m) ==
  /\ \/ lockedBy[m] = w /\ bus = "open" /\ letters' = [letters EXCEPT ![m] = "gone"]
     \/ UNCHANGED letters
  /\ UNCHANGED reports

Begin(w, m) ==
  /\ m \in sweep[w].todo /\ sweep[w].told = {}
  /\ sweep' = [sweep EXCEPT ![w].told = {m}]
  /\ UNCHANGED <<lockedBy, receivers, bus, lost>>

End(w, m) ==
  /\ m \in sweep[w].told
  /\ sweep' = [sweep EXCEPT ![w].told = {}, ![w].todo = @ \ {m}]
  /\ UNCHANGED <<lockedBy, receivers, bus, lost>>

\* Mutation: only what could be taken off the queue is reported.
CompleteFirst(w, m) ==
  \/ Begin(w, m) /\ CompleteMessage(w, m)
  \/ End(w, m) /\ Report(m)

\* processDeadLetterMessage, for one message of the sweep after the other.
ProcessLetter(w, m) ==
  \/ Begin(w, m) /\ Report(m)
  \/ End(w, m) /\ CompleteMessage(w, m)

LetGo(ms) ==
  /\ lockedBy' = [m \in Letter |-> IF m \in ms THEN Nobody ELSE lockedBy[m]]
  /\ lost' = lost \cup {m \in ms : letters[m] = "dead"}
  /\ UNCHANGED <<letters, reports>>

Held == {m \in Letter : lockedBy[m] # Nobody}

\* The receiver is closed, at the end or when receiveMessages found nothing
\* or failed (which ends the run); messages it still holds are visible again.
CloseReceiver(w) ==
  /\ sweep[w].receiver # "none" /\ sweep[w].todo = {}
  /\ LetGo({m \in Held : lockedBy[m] = w})
  /\ \/ sweep' = [sweep EXCEPT ![w] =
           IF sweep[w].at = Len(Queues) THEN Resting ELSE At(sweep[w].at + 1, "none")]
     \/ sweep' = [sweep EXCEPT ![w] = Resting]
  /\ UNCHANGED <<receivers, bus>>

LockRunsOut(m) ==
  /\ m \in Held /\ letters[m] = "dead"
  /\ LetGo({m})
  /\ UNCHANGED <<sweep, receivers, bus>>

\* onModuleDestroy: the handles that are known are closed, then the client.
CloseBus ==
  /\ bus # "closed"
  /\ bus' = IF bus = "open" THEN "closing" ELSE "closed"
  /\ LetGo(Held)
  /\ UNCHANGED <<sweep, receivers>>

\* The worker stops, killed in the middle of a sweep maybe, and a new one runs:
\* the sweeps are forgotten and the links broken.
RestartWorker ==
  /\ sweep' = [w \in Sweep |-> Resting]
  /\ receivers' = 0 /\ bus' = "open"
  /\ LetGo(Held)

DeadNext ==
  \/ \E m \in Letter : DeadLettered(m) \/ LockRunsOut(m)
  \/ \E w \in Sweep : OpenReceiver(w) \/ Receive(w) \/ CloseReceiver(w)
  \/ \E w \in Sweep, m \in Letter : ProcessLetter(w, m)
  \/ CloseBus \/ RestartWorker

DeadSpec == DeadInit /\ [][DeadNext]_letterVars

-----------------------------------------------------------------------------
(* What is true of it                                                      *)

DeadTypeOK ==
  /\ letters \in [Letter -> {"live", "dead", "gone"}]
  /\ \A m \in Letter : lockedBy[m] \in Sweep \cup {Nobody}
  /\ \A w \in Sweep :
       /\ sweep[w].at \in 0 .. Len(Queues)
       /\ sweep[w].told \subseteq sweep[w].todo /\ sweep[w].todo \subseteq Letter
  /\ receivers \in 0 .. MaxHandles
  /\ reports \in [Letter -> 0 .. MaxReports] /\ lost \subseteq Letter

\* No dead letter leaves its queue unreported, at whatever point locks run out,
\* completions fail, sweeps overlap or the worker is stopped; and one that was
\* reported more than once had been let go of in between.
LettersAreReported ==
  \A m \in Letter :
    /\ letters[m] = "gone" => reports[m] > 0
    /\ reports[m] > 1 => m \in lost
=============================================================================
