# A TLA+ development of the Agentic Scheduler

The repository is the scheduling assistant of a flight school platform (FSP). A NestJS **worker** polls FSP for every
tenant's reservations, finds out what changed, and turns each change into *suggestions* ("offer this freed slot to this
student") that wait for a human. A NestJS **API** lets schedulers list, approve and reject them; approvals are validated
with FSP first and handed back over a queue. PostgreSQL (through Prisma) holds the rows, Azure Service Bus the three
queues `poll-jobs`, `change-events` and `suggestion-results`. Both programs run in one to ten replicas.

This directory models the parts of it where order, failure and concurrency decide whether it is right, checks the models
with TLC on small instances and proves all their safety properties with TLAPS for every value of the constants.

Paths below are relative to `src/`. `PROJECT.json` names, for every definition, the lines it stands for.

## 1. The system

    FSP ──poll──▶ PollJobConsumer ─▶ ChangeDetection ─▶ change-events ─▶ ChangeEventConsumer ─▶ four handlers
     ▲   ▲           ▲      │(snapshot store, hash, diff)                        │ (rationale, validateReservation)
     │   │   poll-jobs      ▼                                                    ▼
     │   │           │   TokenBucket                                    Suggestion + AuditLog rows
     │   └ FspHttpClient (shared per base URL)                                   │
     │               │                                                           ▼
     │        PollingDispatcher ◀─ TierClassifier (hourly)             API: approve / reject / bulk / expire
     └──────────────────── validateReservation ◀──────────────────────────┘  │
                                                                             ▼ suggestion-results

### 1.1 Components

| Component | State it keeps | Operations | What is hard about it |
|---|---|---|---|
| Suggestions API (`apps/api/src/suggestions`) | `Suggestion`, `AuditLog` rows; messages sent | create (worker), approve, reject, bulk forms, expiry cron, list | a status read in one transaction and an update by id in another, with an FSP call between; partial bulk; crash between commit and send |
| Change detection (`apps/worker/src/change-detection`) | per tenant: stored hash (DB), `DiscoveryProspect` rows | `processSnapshot`, `publishChange`, hash, diff | concurrent `publishChange` runs of one `Promise.all`; when the hash may move; duplicates and order in FSP's lists |
| Poll jobs (`polling/poll-job.consumer.ts`, `raw-snapshot.store.ts`) | in-memory snapshot per tenant and replica, with a 10 minute life | take a job, get a token, fetch, store, hand to change detection, complete / abandon | redelivery after the snapshot was already replaced; 429 re-enqueue; locks of one minute; replicas with snapshots of their own |
| Polling dispatcher (`polling/polling-dispatcher.service.ts`) | timer and `inFlight` flag per tenant | register, unregister, reschedule, publish a job | tier change during a publish; shutdown; the read at start-up and later registrations |
| Tier classifier (`polling/tier-classifier.service.ts`) | `pollingTier` column | hourly classification from the snapshot | every replica classifies from its own snapshot, the database is shared |
| Token bucket (`polling/token-bucket.ts`) | tokens, last refill, pause end | `acquire`, `pause` | refills noticed late; pause across refill boundaries |
| FSP HTTP client (`packages/fsp-client/src/fsp-http.client.ts`) | bearer token per instance, one pause flag per process | get, post, put, delete with retry on 429 and 5xx | callers of several tenants interleave on one instance |
| FSP services (`packages/fsp-client/src`) | none | the methods of 19 services, each one call and a `ServiceResult` | a write retried after a 5xx; errors told apart by their codes; whose operator a request is about |
| Use-case handlers (`apps/worker/src/use-cases`) | `Suggestion`, `AuditLog` rows | the change-events consumer; waitlist, reschedule, discovery, next lesson | redelivery beside a handling that goes on; the row and its audit entry are two statements; producer and consumers disagree on `rawDiff` and on the payload |
| Next-lesson scan | none of its own | hourly loop over tenants and students | check-then-create across a long handler |
| Priority weights (`suggestions/priority-weight.engine.ts`) | none | score and order candidates | ties and determinism; equal signals; weights that are all zero |
| Rationale generator (`llm/rationale-generator.ts`) | none | the model's answer against a timeout | a late answer; invalid answers; a confidence the constraints do not bear out |
| Dead letters (`service-bus`) | the DLQs; receivers kept open | sweep every 15 minutes, shutdown | locks, overlapping sweeps, a stop in the middle |
| Worker tokens (`apps/worker/src/auth`) | token and expiry per tenant, in memory | refresh cron, set, get | overlapping refreshes, answers out of order; a token that expired is not refreshed again |
| Notifications (`apps/worker/src/notifications`) | `Communication`, `AuditLog` rows | e-mail and SMS with audit | several statements, one catch block |
| Authentication guard (`apps/api/src/auth`) | tenant context of the request; one client for all of them | check the token with FSP, look the operator up | the client's token is shared by concurrent requests |
| Operator settings (`apps/api/src/operators`, `ConfigPage`) | JSON columns per section; the form | bootstrap, partial updates, the page's load, edit and save | read, merge and write are not one step; defaults come and go |
| Audit log (`apps/api/src/audit`, `ActivityFeed`) | `AuditLog`, its archive | list by cursor, scroll, archive job | rows commit out of the order of their stamps; copy and delete are two statements, and a trigger forbids one |
| Dashboard (`apps/api/src/dashboard`) | metrics cache | the figures of a period | concurrent misses, a slow computation that stores last |
| Review queue UI (`apps/web`) | list, open modal, disabled cards, selection | 30 s poll, decisions, bulk, filter | callbacks work with the values of an old render; answers out of order |
| Observability, deployment, tests, evaluation | – | – | no decision of the program depends on them |

### 1.2 How they interact

* **Calls**: consumers call their services and wait; every `await` is a point where other work of the same process, other
  replicas, the database and FSP move on. Between two awaits nothing interleaves (one JavaScript thread), so a stretch
  of code between awaits is one action of a model.
* **Messages**: Service Bus delivers at least once, under a one minute lock, up to `maxDeliveryCount` = 5 times
  (`infrastructure/service-bus.bicep`).
* **Shared rows**: API and worker write the same `Suggestion` and `AuditLog` tables; READ COMMITTED.
* **Shared objects**: one `FspHttpClient` per base URL and process, one `TokenBucket` per tenant and process.

### 1.3 What makes each correct

* *Suggestions*: a suggestion is decided once; what the row says, the audit trail says; only what FSP validated for this
  very approval is handed to the worker; nobody decides another tenant's rows; a success is reported only if it happened;
  requests end; overdue rows do not stay PENDING.
* *Detection pipeline*: an event tells the truth about FSP; a message has its row; the hash moves only behind the events;
  no change is missed; each job leaves the queue.
* *Bucket and client*: not more than a bucket per refill interval, none while paused; the shared pause ends; a call
  carries its own tenant's token; each call comes back.
* *Handlers*: limits per event, only validated offers, no unaudited leftovers but the last, daylight, a scan that adds nothing
  to pending lessons unless its check failed or came too early, every event settled; what is stored and shown is what FSP accepted.
* *Tenants of the API*: a handler runs as whom it was asked by, with rights of that caller's own; the feed of the trail skips nothing; an update of the settings changes what it names; figures are no older than promised.
* *Page*: only what was decided vanishes, a rejection is about the card it was opened for, and the page settles on what the server has.
* *Worker services*: a token at hand whenever FSP answers in time; a notice's record, audit entry and provider call agree (an e-mail's
  record says only that the service came to its end: it says SENT and nothing is sent); each dead letter is reported before it is gone; one answer per rationale, in time; a ranking by need; a write is repeated only after FSP disowned it.

## 2. Modules

| Module | Models | Role |
|---|---|---|
| `SuggestionStateMachine` | the state machine in the docs (PENDING is left once) | abstract |
| `SuggestionDecisions` | what the code can promise: decisions recorded one by one | abstract |
| `ChangeFeed` | changes recorded when they have happened, announced no more often than recorded | abstract |
| `WindowLimiter` | a limiter with fixed windows that can be closed | abstract |
| `SuggestionLedger` | rows written by one handling after the other, limits and audit entries | abstract |
| `PollTimer` | one clock per tenant | abstract |
| `SuggestionLifecycle` | the API's requests, cron and the worker's creation of rows | detailed, refines `SuggestionDecisions` |
| `SuggestionLifecycleProofs` | 7 theorems | proofs |
| `ReservationDiff` | hash, de-duplication and diff of two lists, as operators | pure |
| `PollPipeline` | FSP's schedule, timers, `poll-jobs`, replicas, snapshot stores, `publishChange` runs, hash | composition of dispatcher, consumer, store and change detection; refines `ChangeFeed` |
| `PollPipelineProofs` | 7 theorems | proofs |
| `TokenBucket`, `TokenBucketProofs` | bucket and polling `acquire`; 6 theorems | component, refines `WindowLimiter` |
| `FspHttpClient`, `FspHttpClientProofs` | calls over shared clients; 4 theorems | component |
| `UseCases`, `UseCasesProofs` | consumer, handlers, scan; 6 theorems | component, refines `SuggestionLedger` |
| `CandidatePayload` | one suggestion's data, field by field: message or list, validated request, stored JSON, prompt, card, approval | component |
| `PollingTiers`, `PollingTiersProofs` | dispatcher timer, publish, classifier, bootstrap, shutdown and crash of one tenant in one replica; 5 theorems | component, refines `PollTimer`; its environment is the rest of the pipeline and the other replicas |
| `ReviewQueue`, `ReviewQueueProofs` | the queue page: loads, decisions, modal, selection, bulk, filter; 3 theorems | component; the server's side of a decision is one step |
| `DiffOfPolls` | `ReservationDiff` on the lists of polls that follow one another | component |
| `AuditTrail`, `OperatorSettings`, `Dashboard`, `AuthGuard` | the other parts of the API, the first three with the part of the console that uses them | components |
| `FspServices`, `WorkerTokens`, `Notifications`, `DeadLetters`, `RationaleGenerator`, `PriorityWeights` | the other parts of the worker and the client library | components |
| `ServicesProofs` | 14 theorems, one on each small component (`CandidatePayload` and `DiffOfPolls` included) and two on their composition | proofs |
| `MCServices` | one behaviour per component: a variable `part` says which one moves | the small parts in one run. They share no state, so that a product of them would show nothing more |
| `MC...` | constants of the small instances | TLC |

### 2.1 How state and actions correspond to the code

**SuggestionLifecycle.** `status` and `audit` are the tables, `results` the messages sent, and every request is a
record with its operation, the ids left, what it read and what it will answer. `Load` is the first transaction (scoped read and guard; for a
rejection read and update are two statements of one transaction, still two actions, because READ COMMITTED allows another
commit between them); `FspAccepts`/`FspDeclines` the validation; `Persist` the second transaction (update by id and audit
entry commit together); `Publish`/`PublishFails` the hand-over; `Conclude` moves a bulk request to its next id or answers.
`ExpireSuggestions` is the cron. `Crash` drops a request anywhere.

**PollPipeline.** One tenant. `schedule` is FSP; a reservation there only moves forward: open, then flown (`done`, later off the list: `deleted`) or
cancelled (`cancelled` while FSP goes on listing it, `withdrawn` once it does not, at once or later). A replica has a snapshot (with age) and a handler; `Fetched` puts the new list in the place of the
old *before* the diff is published, as `RawSnapshotStore.set` does. Every change found has its own `publishChange` run:
row, then message, concurrently with the others; `UpdateHash` follows when all are through. Jobs return to the queue when
the handler throws, its lock expires or its replica dies, and are dead-lettered after `MaxDelivery`. As a `ChangeFeed` the rows are what is recorded, the
messages what is announced, the hash what is noted; jobs, replicas and snapshots vanish.

**ReservationDiff.** Lists are sequences with duplicates; the maps the code builds (the last entry of an id wins) are
functions; the hash is the canonical form it is computed from. In `DiffOfPolls` a step is a poll, and the property compares `diff` with a description by sets.

**TokenBucket.** Time is an integer; refills happen on a lattice fixed by the constructor and are noticed only when a
caller looks. `acquire` sleeps until the next refill or the end of the pause, one retry after the other. As a `WindowLimiter` it has used the capacity less the
tokens there *would* be if somebody looked now (`RefilledTokens`), so that the abstract window begins on time although the code refills late.

**FspHttpClient.** A call is attempts, sleeps (back-off or 429 pause) and an end; the bearer token belongs to the
instance, the pause flag is static: one for the process. `BearerFor` is what `setBearerToken` leaves behind, `Wake` clears the shared flag whoever set it.

**UseCases.** One tenant. `queue`/`delivered` are the event messages, `work[a]` the handling an actor is in: `started`
(reading operator, students, progress, offers), `offering` (the loop over offers), `valid` (before the insert) and `written`
(between the insert and its audit entry). The five paths differ in what `Found` returns, their limit, whether they
validate, and what a failed insert does. In the loop an offer is `Unavailable` (its data is not there), `Refused` by FSP, or passes
(`Validate`; `UseEvent` for an event of the solver, which is not validated). `Carried` lists the keys the producer puts into `rawDiff`; the filters are guarded
by `Known` as the code guards them by a field being there. `Take`, `Settled`, `Returned` are the consumer and the queue,
`StartScan`/`SkipStudent`/`ScheduleStudent` the scan; a check whose query fails lets the handler run like one that finds
nothing. `unsure` is history: the handlings whose check failed, and those that another actor's lesson has overtaken since their check (`Overtaken`). As a `SuggestionLedger` only the rows, the rows with an entry and the number of handlings each actor has begun
remain; that a handling writes about one thing and that an event has no more writers than deliveries is what queue, locks and stages amount to.

**CandidatePayload.** JSON objects are functions on field names, `f ++ g` is the spread of two; an undefined field is not in the domain, a null is `Nil`. An action
is a handler's way from what it found (a cancellation, an opening, a prospect, a lesson, a solver event) to what it asks FSP, what it stores, what
it tells the model and, later, what the card reads and what the approval sends. `HandMade` are payloads `POST /suggestions` may be given.

**PollingTiers.** One tenant, one replica. `state` is the dispatcher's record, `timers` the intervals that really run (apart
from the record, so that a leaked timer is visible), `publishing` the `dispatchPollJob` calls in their await; `run` is the classification in its three awaits
(query, snapshot and decision, update) up to `Reschedule`. `tier` is the shared column. Time passes by `Tick` in minutes, timers and cron are never late,
and without `"slow"` in `Failure` everything awaited settles within the minute. `demand` is what FSP's list calls for: a *set* of tiers, because
the classification compares starts with the time of its own run, which may fall on the other side of a limit. Other replicas are the environment: they take
jobs, poll into stores of their own and write the column (`OtherUpdates`). `meddled` remembers that the column was written without this replica's timer
being told. As a `PollTimer` the minutes left are those of the only timer there is, and the tier that of the dispatcher's record. Two things are assumed: a shutdown does not overlap the initialisation of the same process (a crash may), and a classification is over when the next
hour strikes.

**ReviewQueue.** `status` is the table, `suggestions`, `filter`, `updatingIds`, `selectedIds`, `rejectingId` and `rejectModalOpen` the page's React state under
their names, `load` the list requests under way, `call` the decisions under way, each
with the filter and the set of disabled cards *of the render it was clicked in*. `Poll` starts a load, `ShowList` shows its answer whenever it comes;
`HandleApprove`, `HandleRejectConfirm`, `HandleBulk`, `ChangeFilter` are clicks, `Answers` what the awaited call does to the page, success and rollback.
A behaviour's scheduler decides either on cards or through the bulk bar (`habit`); `modalFor` and `overlapped` are history.

**AuditTrail.** A row takes its stamp when its write begins and shows when it commits. `ListAuditEntries` is the page under a cursor, in any
order among equal stamps; `OpenFeed`, `ScrollFeed`, `FeedAnswered` are the panel; `CopyBatch`/`DeleteBatch` the two halves of the archive job, whose second one
the immutability trigger refuses, whatever it is asked to delete. `since` and `crossed` are history: what was there when the list was begun, and whether two requests of the panel overlapped.

**OperatorSettings.** One update is check, read (`merge`) and write, with a request that names some fields; `Told` is what readers get, defaults
included. `overtaken` is history. The form is filled, edited and saved section by section.

**Dashboard.** A computation reads in two rounds and stores at its end; each figure remembers when it was read, the cache when it was stored, `shown` the age of
what was last answered.

**AuthGuard.** A request sets the shared client's token, asks for the rights at once or after the client's pause (with the token of that moment), looks the
operator up and fills its own context. `disturbed` is history: the requests another one overlapped in the guard.

**FspServices.** Tables give each method's verb, client and effect; `AttemptFsp` is one attempt and what FSP answers, whose error bodies
`ExtractFspErrors` turns into codes; `effects` and `blamed` count what FSP carried out and what it called failed.

**WorkerTokens, Notifications, DeadLetters, RationaleGenerator.** A step ends where the code awaits. The minutely refresh may overlap itself; a notice goes through
template, sending, record and audit entry, each of which may be refused; a sweep receives under locks that run out, beside another sweep; a rationale races its timer.
A dead letter is reported in one step and completed in a later one (`told` is the letter in between): there the lock may run out and another sweep report the letter
again, the completion may fail, the bus be closed, or the worker be stopped and another one start (`RestartWorker`). `lost` is history: the letters that were let go of.

**PriorityWeights.** One step ranks one list of up to `MaxCandidates` students. Signals are integers of a scale, and a score is there twice: as it should be (`Score`) and as floating
point has it (`ComputedScore`), in units in the last place and off by one of the errors in `Rounding`, the same error for the same signals. `Before` is the comparison of `scoreCandidates`:
computed scores within `Epsilon` go by the id. It is not transitive, so "the sorted list" is not defined by it and depends on the list's order. What `Array.sort` guarantees all the same is that no two
*neighbours* are the wrong way round, and that a list of which this is true already stays as it is (V8's binary insertion and its merge of runs have both properties whatever the comparison). Students
come in any order; so the rankings `ScoreCandidates` allows are exactly the locally sorted orders.

## 3. Runs

| Run | Question | Instance |
|---|---|---|
| `suggestion_lifecycle` | safety of decisions, promise kept, requests and overdue rows end | 2 rows of 2 tenants, 2 concurrent requests, lists `<<>>`, one id, two ids, one id twice |
| `suggestion_stale_approval` ✗ | does the documented state machine hold under concurrency? | 2 rows, 2 requests |
| `pipeline_replicas` | a feed of what has happened, rows before messages; hash after events | 2 replicas, 2 jobs, 2 deliveries; sends, locks, crashes fail |
| `pipeline_one_replica` | nothing is missed without cause; jobs end | 1 replica, 2 jobs, every failure |
| `pipeline_retry` ✗ | is a change still announced when one send fails? | 3 jobs, sends fail |
| `http_calls` | pause of lonely calls, calls end | 3 calls, 2 instances, 2 retries |
| `http_tokens` ✗ | does a call carry its tenant's token? | 2 calls of 2 tenants on one instance |
| `use_cases` | the ledger of rows (limits, one task per handling), validation, audit, daylight, scan, settlement | 1 event of any kind delivered twice, 1 student scanned twice, 2 offers; a completed lesson's handler is what races the scan |
| `tiers` | one clock per tenant that publishes one job at a time, at the stored tier's interval; no promotion by an old list | intervals 1, 2, 4, snapshot life 3, classification every 8 minutes; every failure, other replicas, shutdown and crash |
| `review_queue` | what vanishes, what is rejected, and that the page settles | 2 cards, 2 decisions or filter changes, 2 loads under way, lost and declined requests |
| `services` | one question for each of the 13 small components (`MCServices`) | see 3.1 |
| `offer_approval` ✗ | does an approval validate what was validated at generation? | 3 reservations, 3 slots, 2 solver events, 2 students |

✗ marks runs whose property states what a document or comment says and which TLC refutes (section 6).

### 3.1 Bounds, and why they are enough

* Every race the hazards name is between *two* actors over *one* or *two* rows, so two of each show it. A third adds
  interleavings of independent pairs. Requests repeat within an instance, so sequences longer than two occur too.
* `MaxIds` (lists of two) covers an id named twice, success then failure, and the empty list; the loop body depends on
  nothing but the current id.
* `MaxDelivery` = 2 gives first delivery, redelivery and dead-letter; 5 repeats the middle. `Job` bounds the polls:
  two for a baseline and a change, three where the loss must be permanent.
* The pipeline's single reservation is at once a student's and crewed, so that one change has the greatest number of
  `publishChange` runs in parallel.
* `MaxRetries` = 2 of the client's 3 and `Backoff` 1, 2 against a pause of 3: retries exist on both sides of a pause's end.
* `services`: the bucket has capacity 2, interval 3, pause 5 and a horizon of ten, which is the longest pause and more than one interval after it; the diff
  sees all pairs of lists of up to 3 entries over 2 reservations (one a student's, one crewed), hence an id twice on either side; the trail has 2 own rows and one of
  another operator, pages of one and batches of one, so that pages and batches end in the middle; settings have a checked field and a map entry, the page and one other user;
  figures live 2, take up to 1 and are read over 4 days by two viewers; the guard has two users with rights at one operator each, one of which is unknown here;
  a token lives 5 with a buffer of 3, answers take up to 1; one notice by mail, one by SMS, texts of 100 and 161 characters, students without
  opt-in, number or address; three letters in two queues, two sweeps, two messages a call, reports counted to two; two rationales, timeout 2, confidences on both sides of the override and beyond 1;
  lists of one to three of three students with histories with and without past, coming and cancelled flights, four sets of weights, rounding errors 0, 1 and 3 against an `Epsilon` of 2, so that near to near need not be near; FSP calls for 2 operators with 2 retries.
* `ReviewQueue`: two cards tell the one decided from the other, two requests overlap, two loads come back in the wrong order.
* `UseCases`: `MaxHandlings` bounds what is begun (first deliveries and scheduled students together, so that event-event,
  event-scan and scan-scan are all there); two offers against limits of 1 and 2 meet each limit below, at and beyond.
  The kind of the event is chosen in the initial state, so one instance covers all four.
* `PollingTiers` keeps the order of the real constants (1, 5, 15 minutes; life 10; hour 60) at a scale where each pair of phases occurs: the life
  lies between the two slower intervals, the hour is longer than two of the slowest. Ages stop at the life, after which nothing looks at them. `MaxJobs` bounds jobs that wait; more of them change nothing for this replica.

The configurations except that of `tiers`, whose system never stops, say `CHECK_DEADLOCK FALSE` because the systems stop when their bounded inputs are used up. That nothing stops early is what `RequestsEnd`, `JobsEnd`, `CallsEnd` and
`EventsEnd` say, and `PageSettles` of the page.

### 3.2 Fairness

Only steps the program takes on its own are fair, and only weakly: continuing a handler whose awaited answer has come,
the receivers' message pump, timers and crons. Nothing is assumed of people, failures, crashes, lock expiry, or what FSP
answers. The page of `ReviewQueue` needs more: that not every answer on its way is lost (strong fairness of showing a list and
of a decision's answer), since a connection that fails for ever leaves it as it is. The `services` run checks safety and assumes nothing. That an awaited call settles *at all* is an assumption, not a fact of the code: axios is created without a
timeout (`fsp-http.client.ts:94`), so an attempt that FSP leaves unanswered holds its caller for ever; the network's own
timeouts stand behind `CallsEnd`.

## 4. What is proved

All theorems are `Spec => []P`, `Spec => [][A]_vars` or a refinement, for every value of the constants the assumptions allow, 52 in all.
33 of them state a property some run checks: every property of a passing run but the six of liveness. Of the others, seven (`...Types`, `TypeCorrect`) are the modules'
type invariants, and these are proved only, because a run on a small instance would say less or a refinement that is checked implies them: `TenantIsolation`
(`TenantsStayApart`), `EventTruth` (`EventsAreTrue`), `RowBeforeMessage` (`MessagesHaveRows`), `FeedTellsTheTruth` (of `ChangeFeed`), `BucketPerWindow` (`OneBucketPerWindow`),
`PauseHolds` (`PauseIsKept`), `BoundedWait` (`WaitIsBounded`), `PauseIsOwned` (`PauseHasOwner`), `OwnToken` (`AloneKeepsToken`), `Limits` (`LimitIsKept`), `SerialDispatch`
(`DispatchIsSerial`) and `ServicesAreApart`.

Five components implement an abstract specification: `Refinement`, `PipelineRefines`, `BucketRefines`, `HandlersRefine`, `DispatcherRefines`. Each proof has the same two halves, initial
states and steps, and uses the component's invariant before the step (and after it, where the mapping computes something) to show that a concrete step is an abstract one or a stutter.

Hardly any of the properties is inductive. Each module of proofs defines the strengthening, proves one lemma per conjunct or action, and ends in the theorems:

* **SuggestionLifecycle.** `TypeCorrect`, `AuditAgreement`, `HandOverSafety`, `LateRequestSafety`, `TenantIsolation`,
  `HonestResponses`, `Refinement`. Between `Load` and `Persist` the status may be changed by
  someone else. The strengthening says what a request in flight remembers: `PastTheGuard` (it saw a row of its tenant
  PENDING and, if it is beyond validation, FSP accepted it), `ResolvedStaysResolved` (a row once seen decided is never
  PENDING again), `EntriesArePast` (audit entries name requests and operations that were begun), `ShortLists` (the bulk
  bookkeeping). The refinement maps rows and audit trail to `SuggestionDecisions`: each step is a decision or a stutter.
* **PollPipeline.** `PipelineTypes`, `PipelineRefines`, `FeedTellsTheTruth`, `EventTruth`, `RowBeforeMessage`, `HashAfterEvents`, `OneReplicaMissesNothing`. The idea is that FSP's schedule
  only moves forward, so each list in a snapshot, a handler or the hash lies in the *past* of the schedule. `Truths` states
  that for every table kept anywhere, which makes any pair of lists a replica compares yield only changes that have
  happened; `ChangesOnTheirWay` and `RowsFirst` relate the runs in flight to tables and rows. With them each row is a `Record` of what has happened, each message an `Announce` below the number of rows
  (`RowsFirst` counts the runs that have their row and owe the message), each hash a `Note` of a list of the past. `Unharmed` adds where a change that was seen can be:
  announced, lost for a recorded cause, or in the handler's hands (`SeenIsKept`, `OwedIsInHand`), and that the hash is of the snapshot or the table it is compared
  with (`HashIsKnown`). Its hypothesis of a single replica is needed, not convenient: with two, the hash one writes swallows what the other has yet to compare.
* **TokenBucket.** `BucketTypes`, `BucketPerWindow`, `TwoBucketsAtMost`, `BucketRefines`, `PauseHolds`, `BoundedWait`. `OnLattice`: the last
  refill lies on the lattice of intervals; `Recent`: the last `Capacity` grants are in order and not in the future;
  `OneBucket`: tokens left plus grants since the last refill do not exceed the capacity. For the refinement: a window begins
  exactly at a point of the lattice, and there the tokens a caller would find are the capacity, whether the code has looked since or not.
* **FspHttpClient.** `HttpTypes`, `PauseIsOwned`, `OwnToken`, `OwnPause`. `OverlapIsRecorded` keeps track of which calls ever had
  company, `RecentLimitSleeps` says that whoever got a recent 429 alone is still asleep, `OwnTokenStays` that nobody touched the header.
* **UseCases.** `UseCaseTypes`, `HandlersRefine`, `Limits`, `AuditTrailKeepsUp`, `SoundOffers`, `ScansAddToNothing`. A handling is named by its actor and a number never used again, so
  `HandlingsInStep` can say, stage by stage, how many rows bear its name and which lacks its audit entry; the limit and the audit trail follow. `PathsFit` ties path, task
  and kind of event together, `OffersAreFiltered` is what the loop over offers has established so far, `ChecksHold` that while a handling
  of a scan is under way whose check was neither failed nor overtaken, all pending lessons are its own. `ScansAddToNothing` follows for any number of replicas: the failed check and the race are
  the only ways to a second suggestion.
  The refinement needs two more: `TasksAgree` (the rows of a handling are about its task) and `WritersCounted` (an event has no more handlings that wrote or may still write than deliveries).
* **PollingTiers.** `TierTypes`, `DispatcherRefines`, `SerialDispatch`, `TierFollowed`, `FreshPromotion`. `TimerMatches` (the timer that runs is the record's) and `PublishesOnce`
  (a publish is under way exactly if the record says so, or the process was stopped since) give the clock: one timer whose time is what is left, one publish which a change of tier does not forget; `UpFirst`, `RowIsKnown` and `SnapshotIsOfLate` (a snapshot that is
  alive is of a demand seen within its life) the others.
* **ReviewQueue.** `QueueTypes`, `OnlyDecidedLeave`, `ModalIsRight`. `SingleDecided`: a decision on one card that succeeded finds its card decided;
  `ModalKnows`: the card an open modal has noted is the one it was opened for, unless the end of another rejection made the page forget it.
* **ServicesProofs.** Every component has a part of its own.
  `NothingSkipped` needs `RequestsFit` (the cursor of a request on its way is the panel's, unless two crossed) and `FeedRight`, which says of list and cursor what the property says of the list.
  `LettersReported`: `SweepsAreSound` (what a sweep is about to complete has been reported), `GoneAreReported`, and `KeptAreSound`, which says of a letter never let go of (`NeverLetGo`) that it is in one sweep's hands at
  most, locked for that sweep, and that once it is reported no sweep has it still to report: the wait between report and completion is where this could fail. `HandlersKeepTheirOwn`: `Undisturbed`, whoever is alone in the guard finds its own token on the client.
  `SettledOnce`: `Races`, an unsettled call's timer has not run out. `CallsAccounted` is inductive with the bookkeeping of `FspServicesInv`. `FiguresStayFresh`:
  `RunsAreShort` and `CacheIsOfARun` bound how old a figure is when it is stored. `LoneUpdates`: an update not overtaken merges into what is still stored.
  `TokensKeepWorking`: `RenewalsInTime`, `StoreCountsLate` (the store's count of a life ends at most one answer after FSP's) and `RenewalUnderWay` (inside the buffer a refresh is running).
  `HonestRecords`: `Deliveries`, `CallAgrees`, `MessageFits`, one conjunct per step of a notice. `DiffKeepsItsPromise` is about lists of any length: `CleanTable` shows that the
  map of a list without duplicates has its entries. `CardIsHonest` shows for every handler's path (`OpeningAgrees`, `RescheduleAgrees`, `DiscoveryAgrees`, `LessonAgrees`) that what is
  stored and told agrees with what FSP was asked. `RankingIsOfNeed`: the comparison is not transitive, so nothing can be concluded from an order. A ranking only has neighbours that are not the wrong way round
  (`RankedOnce`: everybody once). But scores that differ by need differ by more than `Epsilon` and any two errors, so from neighbour to neighbour need never grows, and `RankedByNeed` carries that along the list, as it does
  the order of ids among equals where rounding tells no equals apart; `LongerWaitIsBetter` turns the time since the last flight into need. All this holds for lists of any length, any finite history and any errors the assumption allows. `ServicesAreApart`: the composition implements each of the thirteen specifications, so that what is
  proved of a component holds in it; `ServicesStayTyped` follows from that and one invariant per component.

The assumptions are those of the modules (`...Assumption`): positivity, finiteness, and that values which stand for something else (`Null`, `NoToken`, `None`, no cursor) are not
data. `RankAssumption` takes histories to be finite, the integers' scale not to be coarser than days, and `Epsilon` and the
rounding errors together to be smaller than the least difference in need: a score's errors are of the order of 1e-16, so the scale stands for needs that differ by clearly more than that.
Three say something of the world: `TokenAssumption` takes FSP to answer a refresh in less than half the buffer, `RationaleAssumption` the fallback's confidence not to exceed the limit
of the override, as `rationale-generator.ts` has it, and `PayloadAssumption` every slot to have its two times. TLC evaluates all of them in every run of their modules.

**Only model-checked**: liveness (`RequestsEnd`, `OverdueIsResolved`, `JobsEnd`, `CallsEnd`, `EventsEnd`, `PageSettles`), because the
prover has no support for fairness and ENABLED; and the refuted properties, which are false.

## 5. Hazards

`PROJECT.json` lists 40 places where this code can go wrong in ways a test hardly reaches, each with the property that
would notice. Where a property leaves a case out because the code does not handle it, the hazard's note and section 6 say so.
Whether FSP recognises a repeated POST (a 5xx after the reservation was made, `fsp-http.client.ts:190`) cannot be decided from this repository:
`CallsAreAccounted` counts that a write is carried out at most once more than FSP itself called it failed.

`RankingIsByNeed` says what the comparison with EPSILON still guarantees. The order of ids among equals it guarantees only if rounding does not tell equals apart, which IEEE arithmetic does: with the weights 1, 1, 1 (time since, time until, hours; caps of
90 days) the engine gives three students in equal need three different scores.

| Last flight | Next flight | Hours | Score |
|---|---|---|---|
| 49 days ago | in 80 days | 17 of 40 | 0.6694444444444443 |
| none | in 48 days | 1 of 40 | 0.6694444444444444 |
| none | in 75 days | 13 of 40 | 0.6694444444444446 |

They are one and two units in the last place apart, EPSILON is two such units: first and second are tied, second and third are tied, third and first are not. A fourth student like the first one, with the lowest id, is
ranked before or behind it depending on the order in which FSP lists the students.

## 6. Where code and documents disagree

With a run:

* `suggestion_stale_approval`: the deciding update selects by id alone; a decision or expiry between read and update is overwritten
  (`suggestions.service.ts:228`, against its own header, lines 10-13, and PRD 831).
* `pipeline_retry`: the snapshot is replaced before the events are out, so a redelivered job compares the new list with
  itself and the change is lost (PRD 792). In the run the lesson is cancelled and off FSP's list when the second poll asks; one FSP goes on listing as cancelled is announced by the redelivery.
* `http_tokens`: the worker's shared client holds one bearer token; only the poll consumer sets it (PRD 682).
* `offer_approval`: an approval casts the stored payload to a request; no handler stores `startDateTime` or `endDateTime` at its top level
  (they are `slotStart`, `slotEnd`, and once more inside `validateRequest`), so FSP is asked about a reservation without times (`suggestions.service.ts:212`, PRD 814, 832).

Met while modelling, described here only:

* A snapshot lives 10 minutes (`constants.ts:222`), TIER3 polls every 15: every comparison is with an empty list, and cancellations of such a tenant are never announced (PRD 792).
  `PipelineRetry.cfg` with `PollMinutes = 15` and `Failure = {}` refutes `NothingMissed` without any failure.
* For the same reason a TIER3 tenant is promoted only if a poll of this replica fell into the ten minutes before the hour; timers start with the process, so for a third of all
  phases this never happens (`tier-classifier.service.ts:148`, PRD 747).
* An operator bootstrapped while the worker runs is not polled until a restart: nothing but `onModuleInit` calls `register()` (PRD 749). In development
  a worker that starts without its database never polls at all, against its own warning (`polling-dispatcher.service.ts:109`).
* The replica that finds the column already changed returns at `tier-classifier.service.ts:154` and keeps its own timer at the old interval. Every
  replica runs a timer of its own, and nothing looks for a job already in the queue (PRD 729).
* The cancellation within the last two hours that should make a tenant TIER1 is not looked at (`tier-classifier.service.ts:110`, PRD 714).
* Two suggestions for one cancellation can both be approved; nothing in the approval looks at `changeEventId` (PRD 1037-1038).
* Two concurrent approvals of a row can both validate and both publish (PRD 846, 409).
* After the approval committed, a failed send leaves the row APPROVED with nothing handed over, and a retry gets 409
  (`suggestion-result.publisher.ts:81`).
* The expiry cron writes no audit entry (PRD 817).
* A restart or an expired snapshot loses what was cancelled in between; an empty baseline makes no cancellations.
* A cancelled reservation FSP keeps listing is announced again with every later change (`reservation-diff.service.ts:149-150`).
* Duplicate ids: the last wins (`reservation-diff.service.ts:130-131`).
* Up to two buckets within one window across a refill boundary, against "never exceeds 55 under any load" (PRD 743);
  `AtMostTwoBuckets` is the bound the code keeps.
* Calls that are backing off after a 5xx go out inside a 429 pause (`fsp-http.client.ts:190`).
* The client's own `FspRateLimitError` is no `FspApiError`, so a result built from it has no `fspErrors` and `is429Error` (`poll-job.consumer.ts:227-230`)
  does not recognise it: the consumer's 429 branch (PRD 720, 744) runs only for other failures whose body carries the code.
* Writes (`createReservation`, `publishBatch`, `addOverride`, `autoSchedule.execute`) are retried after a 5xx and may be carried out once per attempt; a failure does not say so.
* Nobody sets a bearer token on the worker's CURRICULUM client, nor the API one on its CORE client: those calls go without `Authorization`. The web app sends none to the API.
* The guard's permission check goes through one AUTH client; two requests that overlap may be checked with one's token (`fsp-auth.guard.ts:123`).
* The worker's token store is seeded by nothing outside tests; `isExpiringSoon` is false for an absent token although its comment says the opposite, and an expired one is not renewed.
* NEW_OPENING nests the slot under `freedSlot`; the waitlist handler reads top-level fields, so the squawk check never runs
  and the suggested slot is empty (`waitlist-use-case.service.ts:117-128`, PRD 1007). STATUS_CHANGE carries neither `studentId` nor
  `enrollmentId`.
* The solver's path creates suggestions without `validateReservation` (PRD 96: every suggestion); lessons and discoveries are validated without a student.
* The twilight filter of rescheduling reads `rawDiff.locationId`, which a CANCELLATION carries only inside `previous`
  (`reschedule-use-case.service.ts:20`, `reservation-diff.service.ts:157-166`, PRD 1025): slots in the dark are offered.
* The card parses `llmResponse` as JSON, which is plain text: "No rationale available", confidence 0.5 and 'Unknown' names always. The dashboard reads `flightHours`, which nobody stores: 0.
  The notices read names and dates nobody stores; a discovery has no student and its notice fails.
* Each decision of the queue page restores its own copy of the disabled cards when it fails; of two that overlap, one may stay disabled
  (`QueueView.tsx:106-121`, PRD 1269). A poll answer from before a decision shows the card again until the next one.
  A rejection is sent for `rejectingId` even if its card has left the list; but when another rejection ends while the modal is open it resets `rejectingId`
  (line 158), and confirming then does nothing.
* The activity feed pages by `createdAt` alone: entries of equal stamps across a page's end are skipped, and two requests that cross (close, reopen, scroll) lose pages; an actor filter
  replaces the tenant filter (PRD 1414).
* Of two concurrent partial updates of a settings section one is lost. The page fills its forms with constants rather than stored values (PRD 1372), an answer overwrites what was typed
  while saving, and no audit entry is written (PRD 1373, against the controller's comments, lines 117 and 136).
* `toConfigResponse.policyConfig` is always `{}`; the reschedule window defaults to 30 days where PRD says 7.
* The zeros of a failed dashboard computation are cached for five minutes like others; the trend of C_util is random; `getWeekStart` keeps the time of day.
* Ranking: students in equal need, or even with the same score, are not always in the order of their ids, and the ranking depends on the order of FSP's list (`priority-weight.engine.ts:91`, PRD 886;
  the scores of section 5). An unanswered reservation history counts as no flight at all; custom signals are not clamped.
* The archive job cannot finish: the trigger of `audit_log` refuses its DELETE, so the copied rows stay in both tables, and the next run fails on the archive's primary key
  (`audit.service.ts:291`, PRD 1391, 1400, 1414, 1416). Nothing calls it.
* The `constraintResults` the handlers give are constants, so that the confidence override never fires; the timer of an answered rationale is not cleared.
* E-mail is recorded as SENT and never sent; SMS providers are placeholders; nothing calls either service. An operator's SMS template goes out with `{{locationName}}`
  in it, the console's template keys are not the worker's (PRD 1163, 1191, 1208), a two character mailbox name is not obfuscated, and
  "NEVER throws" is untrue when the database refuses the record of a failure.
* The dead-letter sweep opens three receivers each time and closes them only at shutdown; it has no longest wait.
* The scan's check asks for a pending next-lesson suggestion of the *tenant*, so one student's suggestion keeps the others from being scheduled
  (`next-lesson-scan.service.ts:149`, against its own line 44 and PRD 1131).
* Between the check and the insert are many calls, and nothing in the database forbids a second suggestion: two replicas, whose scans start at the same hour, both find nothing and both create
  (`next-lesson-scan.service.ts:148`, PRD 1145). When the check itself fails, the scan goes on and creates, pending or not (lines 156-158). `ScanAddsToNothing` names both cases and excludes any other.
* A flown lesson that leaves FSP's list is announced as a CANCELLATION like a cancelled one (`reservation-diff.service.ts`, PRD 766 "cancelled or absent").
* "Always resolves" of the handlers is untrue when the audit entry fails; the consumer completes events whatever happened, so none is
  ever dead-lettered for a failing handler (its comment says so).

## 7. Not modelled, and why

* Observability (logging, counters, health answers) and deployment (infrastructure, containers): no decision depends on them. Tests and evaluation are not part of the running program.
* Text (prompts, templates, wording), layout and the console's forms beyond the state that requests carry; the reject modal's text field.
* Generated code; the database beyond the rows, keys and triggers an operation runs into.
* The `suggestion-results` queue has no consumer in the repository, and the worker's publisher for it no caller. `waitlist/change-event.consumer.ts` is an older consumer
  that no module provides. `sendEmail`/`SmsNotification` have no caller; `Notifications` models them as their tests use them.
* FSP itself: an answer or an error, chosen freely where a module calls it.

In `PollPipeline`, tenants do not interact but through bucket and client, which have modules of their own; the number of
reservations is bounded, their fields are reduced to status, student and crew. In `UseCases`, ranking is left open (any set
of candidates up to the limit), since no property there depends on who is best: `PriorityWeights` has it. `AuditTrail` leaves the filters of the list out,
`ReviewQueue` takes a decision at the server as one step, which `SuggestionLifecycle` has in detail, and its list is short: the request's `limit: 100` (`QueueView.tsx:59`) and the rows beyond it, for
which the page has no second request, are left out. `PollingTiers.Poll` takes FSP's answer and the store of the snapshot as one step, so that an answer long on its way counts as fresh when it comes;
`PollPipeline` has the two apart.

## 8. Plan

Order: what users lose when it is wrong, first.

1. *(done)* Suggestion lifecycle, its payload and its proofs; the queue page.
2. *(done)* Detection pipeline, diff and proofs.
3. *(done)* Token bucket and HTTP client with proofs; the FSP services over it.
4. *(done)* Use-case handlers, scan, tiers.
5. *(done)* The other services of API and worker.
6. *(done)* Theorems of `UseCases`, `PollingTiers`, `ReviewQueue`, of the pipeline with one replica, and of the small components.
7. *(done)* Types of the composition, the ranking, and the abstract specifications of feed, limiter, ledger and clock with their refinements: only liveness is left to TLC.

What could follow: the pipeline and the handlers in one specification, where the messages of the feed are the events of the ledger. Today the two meet in the
assumption of `UseCases` that any event may come.
