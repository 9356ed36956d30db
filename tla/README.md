# Verification of the orbit telemetry orchestrator

This directory holds TLA+ models of the orchestrator (a Go HTTP service with an
in-memory repository, a worker queue and an event bus), TLC configurations that check
them on small instances, and TLAPS proofs for every size of the constants. The code is
the only reference: every definition is translated from the Go source, and
`PROJECT.json` ("map") names the lines.

## 1. The system

All state lives in one process and nothing is persisted: a restart begins with the
seeded records and nothing else, so there is no recovery to verify. Concurrency comes from one goroutine per HTTP request,
the goroutines of the job queue, subscribers of the event bus, and timers.

| Component | State | Operations | Talks to |
| --- | --- | --- | --- |
| Repository (`store/memory.go`, `queries.go`) | maps of devices, streams, policies, samples, anomalies, incidents, actions, evidence; the idempotency index | Put/Get/Update/List per kind, each under one mutex and each returning clones | every service call |
| Device and stream registry (`service/devices.go`, `streams.go`) | device and stream records with a version | create, transition, touch, seed | repository, ingestion |
| Policies (`service/policies.go`, `domain/policy.go`) | policy records with a caller-chosen version | create, publish, lock, active | repository, evaluation |
| Telemetry (`service/telemetry.go`) | samples, anomalies, `App.sequence` | ingest, evaluate, `nextID` | repository, queue, detector |
| Detector (`aggregate/*`, `domain/telemetry.go`) | none | windows, rules, correlation keys | called by evaluation |
| Incident response (`service/actions.go`, `evidence.go`, `incidents.go`) | incidents, actions, evidence | create/execute/cancel action, add evidence, roll up, transition, correlate | repository, queue |
| Job queue (`queue/queue.go`) | bounded channel, worker goroutines, started flag | start, submit, stop, worker loop | service handlers |
| Scheduler (`queue/scheduler.go`) | timer per job id | schedule, cancel, drain | queue (unused by `main`) |
| Event bus (`events/bus.go`) | subscribers with channels, the next id | publish, subscribe, close | services, `/v1/events` |
| Shutdown (`cmd/orbitd/main.go`) | order of server, queue, bus, process exit | signal handling | all of the above |
| Rate limiter (`ratelimit/limiter.go`) | counter and window start per client | allow, remaining | HTTP middleware |
| Audit log (`audit/log.go`) | bounded list of entries | record, list | services |
| Metrics, reports, search, codec, clock | counters; none | | |

### What is hard here, and what makes each part correct

*Read, change, write back.* A service call reads a clone under the repository's mutex,
changes it without the lock and writes it back. Incidents, actions and policies are
written back without a version check that can fail, so a call may overwrite what another one has
completed. Devices and streams have a check that is skipped when the expected version is
0. The question for each kind is which facts survive every such overwrite (references,
key index, attempt counts, evidence of closed incidents) and which do not (finality of
states, attached lists, single execution).

*Background jobs.* `Submit` never waits and the caller ignores a full queue; a worker and
an HTTP request may execute one action at the same time; a failed attempt submits itself
again. Correctness: an accepted action settles, attempts stay within the limit, the queue
alone runs an effect once.

*Identifiers.* `nextID` increments a plain integer from many goroutines: two records may
get one id, and the loser's work is refused.

*Closing down.* Channels are closed while others send to or close them; `main` returns
when `ListenAndServe` does, which is when `Shutdown` begins, not when it ends.

*Windows and counters.* Window bounds, thresholds of 0, the order of samples, the rate
limiter's window, the bounded audit log.

Every such place is listed with its line under "hazards" in `PROJECT.json`, with the properties that
cover it or the reason why none does.

## 2. The modules

| Module | Models | Checked by | Proved in |
| --- | --- | --- | --- |
| `Response` | actions, evidence and incident transitions over the repository, with the job queue that executes and retries them | `MCResponse`, `response_*.cfg` | `Response_proofs` |
| `DeviceRegistry` | devices and streams with their version checks | as part of `Ingestion`; `MCDeviceRegistry`, `registry_retired.cfg` | `DeviceRegistry_proofs` |
| `DeviceLifecycle` | abstract: what version checks promise for a device | refined by `DeviceRegistry` and by `Ingestion` | `DeviceRegistry_proofs` |
| `Detector` | operators: the samples of a window, its summary, validation of rules, detection | as part of `Ingestion` | `Ingestion_proofs` |
| `Ingestion` | telemetry from the request to the detector, over `DeviceRegistry` and `Detector` | `MCIngestion`, `ingestion.cfg` | `Ingestion_proofs` |
| `Policies` | drafts, publication, locking and the active policy | `MCPolicies`, `policies.cfg` | `Policies_proofs` |
| `EventBus` | publishers, subscriptions, event streams and the closing of channels | as part of `Shutdown` | `Shutdown_proofs` |
| `JobQueue` | submission, workers and the stop of the queue | as part of `Shutdown` | `Shutdown_proofs` |
| `Shutdown` | the process: requests, workers and event streams over `EventBus` and `JobQueue`, and the order in which they end | `MCShutdown`, `shutdown.cfg` | `Shutdown_proofs` |
| `Evaluation` | the evaluation job: anomalies, `nextID`, correlation into incidents | `MCEvaluation`, `evaluation*.cfg` | `Evaluation_proofs` |
| `RateLimiter`, `AuditLog` | operators and state of the limiter's buckets and of the bounded log | as part of `Requests` | `Requests_proofs` |
| `Requests` | the way of a request from the clock to the limiter, through its handler, to the audit log | `MCRequests`, `requests.cfg` | `Requests_proofs` |
| `Induction` | models nothing: facts about loops and finite sets that the proofs share | | in itself |

### How state and steps correspond to the code

The same reading is used in every module.

* A repository method takes the mutex, so it is **one step**. What a service function does
  between two repository methods belongs to the step before or after it: domain methods
  work on a private clone, and the clock is read in the step that uses it.
* `frame[p]` is the stack of goroutine `p`: a label for the next repository method and
  the clones it holds. `idle` is a client between requests or a worker at the channel.
* A call that is refused after a single read, without having written, is not a step: it
  leaves no trace.
* Counters on `calls`, and `MaxTime` where there is a clock, are bounds of the model.
* A record keeps the fields that the modelled calls branch on or write. Sets stand for
  lists kept free of duplicates. `None` stands for a missing map entry.

**Response.** `incidents`, `actions`, `idempotency` and `evidence` are the maps of
`store.Memory`; `jobs` is the queue's channel; `sequence` is `App.sequence`; `effects`
is a history variable. `CreateAction` is Get, Put, Attach and the submission of the job;
`ExecuteAction` is Get, Start and Finish, and the submission of a retry; cancel, evidence, rollup and
transition are split at their repository calls in the same way. An error that the code
drops (`_ = ...`) leaves the copy as it was and the copy is still written. A full queue
drops the job silently, as `App.submit` does. The state begins where correlation has opened the incidents.

**DeviceRegistry.** Each call reads a record and holds the changed copy;
`UpdateDevice` and `UpdateStream` compare the version with the expected one unless that is
0. A transition to the status the record already has leaves the copy's version alone,
and the expected version is then one too low: this is why a record at version 1 can
be overwritten by a stale copy. `Seed` makes devices ready, at version 2, before the
server listens, and for these the check never expects 0.

**Ingestion** adds to the registry what `IngestTelemetry` and the evaluation job do. A call is `ingest[c]`: the rest of its batch,
the map `streams` of the records it has read (`cache`), the samples built so far. `GetStream` and `GetDevice` are the two repository
reads of the loop, of which only the second is repeated for every sample; a refused sample ends the call with nothing stored. `AddSamples`
stores and trims; then, for the streams in any order (a Go map), `TouchNext` begins the registry's `TouchDevice`, whose write `UpdateDevice`
is the registry's own step, and whose error is dropped, and `SubmitEvaluation` submits the job or loses it to a full queue. A worker takes a job, lists
the samples and runs the rules. `RegistryCall` lets every goroutine that is not ingesting make the registry's calls. Which
policy is active is any member of `RuleLists`, or none. `waiting` and `retired` are history variables.

**Detector.** Values are integers: the code compares and adds them. A rate is compared without the division:
`|last - min| > upper * (count - 1)`. `ListSamples` lists the samples inserted last first, so the window's last value is
the oldest of them; `WindowSummarises` says so, of the set of stored samples, where the code works on lists. A loop of the code is a
recursive function over its rounds (`list[n]` is what it has after `n` elements), so that the proofs can follow it round by round.

**Requests.** `Arrive` is `time.Now().UTC()` in `rateHandler`, `Ask` is `Limiter.Allow` under its mutex with that time, `Audit` is
`App.now` in `App.record` and `RecordEntry` is `Log.Record`. `UTC()` strips the monotonic reading, so limiter and log compare times of the wall
clock, which somebody may set (`SetClock`): `now` is the time that has passed, which no code reads, and `Wall == now + offset` is what it reads.
Goroutines reach a mutex in another order than the clock, too. Ids of entries are compared as strings: `Written` compares numbers as their digits to
`Base`, with no digits put together: as fractions `m / Base^digits`, with the denominators multiplied out. `Log.List` sorts and filters; here the
entry at each place is the one with that many newer ones before it (`Rank`). `admitted`, `lag`, `least`, `most` and the field `read` are history: when
requests were admitted, the longest way from the clock to the limiter, the extremes of the offset, and when a time was read. The properties allow for
`Spread == most - least`, which is 0 while nobody sets the clock: without it TLC finds `BurstBounded`, `RefusalsEarned` and `ListingFollows` violated,
and without `lag` the first of them.

**Policies.** A policy's version is chosen by its caller and no call changes it, so the
version check of `UpdatePolicy` always passes. The active policy is the highest version in
force. Time 0 is Go's zero time. Here and in `Evaluation` and `Ingestion` the clock only advances, although `App.now` is a wall clock: `ActiveVersionGrows` and
`IncidentsCoverAnomalies` assume that it is not set back, for a policy in force or an open incident would then lie in the future. Retirement of a device is one step of the environment here; its own calls are in `DeviceRegistry`.

**Evaluation.** A worker takes a job, the detector reports a list of severities (any of
`Detections` for its signal: it depends on samples and rules), and for each one the loop calls `nextID`,
stores the anomaly, looks for an open incident, updates or opens one and links the
anomaly. `nextID` is a load and a store, and the id is formed from what the goroutine stored or
what another one has stored since: ids of one kind may collide. A rollup takes its id the same way (`RollupLoad`, `RollupPut`), so its two steps race with those of evaluations. What the calls
of `Response` do to incidents is abstracted to "read an incident, later write the copy,
closed or not" (`ReadIncident`, `WriteIncident`); the other way round, `Response` leaves out the
`UpdateIncident` of correlation, which is an action here.

**EventBus.** `Publish` takes the read lock (`PublishLock`), sends to one subscriber after
another (`PublishSend`) and holds the lock until the last: `emitting[p].todo` says to whom it
has yet to send. `Subscribe` and both `Close` methods hold the write lock without waiting for anything
and are one step each, possible when nobody is sending. A `handler` is a goroutine of
`GET /v1/events`: it receives, writes, and closes its subscription when it returns. After `Bus.Close` that
close panics within the lock: the HTTP middleware recovers, and nobody ever gets the mutex again (`lost`).
`last` is a history variable.

**JobQueue.** `Submit` looks at `running` and sends in a second step; a worker's `select` takes either
way that is open; a job taken after the cancellation is refused by its own handler. `Start` is the initial state.

**Shutdown** extends both and adds whose calls these are: a request or a running job emits and submits in
any order and returns; the server accepts requests until the signal; the shutdown goroutine goes
through `After`: server, the three steps of `Stop`, bus; and `Exit`, the end of `main`, is possible
at any time after the signal, because `ListenAndServe` returns when `Shutdown` begins. The server waits five seconds at most,
so requests and streams may outlive it.

## 3. What the runs check

TLC finishes each passing run. Every property has a mutant in `PROJECT.json`: a changed
guard or assignment of the model with which the same run fails.

| Run | Question | Instance |
| --- | --- | --- |
| `incidents` | do references resolve and closed incidents have evidence, when evidence, actions, transitions and rollups of two incidents overlap? does a closed incident stay as it is once no call holds another copy of it? | 2 clients, 1 worker, 2 incidents, 3 calls |
| `executions` | do attempts stay within the limit, does every accepted action settle, and does it stay settled, when HTTP calls, the worker and cancellation race? | 2 clients, 1 worker, 1 action, limits 0 and 2, 4 calls, room for every job, weak fairness |
| `queue_only` | does the queue alone run an effect at most once, and do keys and actions agree? | 2 clients, 2 workers, 2 actions, 2 keys, a queue of 2 |
| `ingestion` | are samples of a batch refused, stored, kept to their device and evaluated as the checks promise, while devices and streams change? do windows and detections fit the stored samples? does the registry still implement `DeviceLifecycle`, is every write counted, do retired devices and disabled streams stay so? | 2 clients, 1 worker, a seeded and an unseeded device, 2 streams, 4 batches of up to 3 samples (refused ones too) of which 2 are sent, 3 samples kept, 2 listed, a queue of 1, rules of all four kinds, 5 registry calls, one tick |
| `policies` | does the version that evaluation uses ever fall, does a locked policy keep its lock? | 2 clients, 2 policies of one device, versions 0 to 2, dates past, present and future, 5 calls |
| `evaluation` | do incidents and anomalies agree when two workers correlate at once? | 1 client, 2 workers, 2 signals, a mild and then a severe detection on one and a mild one on the other, a queue of 1, a window that passes, 2 calls |
| `requests` | what passes around the end of a window, is every refusal earned, which entries does the log keep and list, when goroutines overtake each other and the wall clock is set forward and back? | 2 clients, 1 worker, 1 key, 1 label, a limit of 2 in a window of 2, 2 entries kept, numbers to base 2, 6 calls of limiter and log, 2 ticks, the wall clock 0 or 2 ahead |
| `shutdown` | are channels closed safely, events in order, workers ended before the bus; does `Stop` return, does every publisher proceed, is every accepted job taken unless the queue is stopped first? | 1 request, 1 worker, 1 stream of one of 2 topics, channels of 2 events and 1 job, ids up to 4, 2 jobs |
| `stale_reopens` | (violated) closed is final | 2 clients, 3 calls |
| `executes_twice` | (violated) actions are idempotent | 2 clients, 1 worker, 1 action |
| `registry_retired` | (violated) retired is final, for devices made by callers | 2 clients, 1 device |
| `evaluation_two_incidents` | (violated) one open incident per device, signal and window | 2 workers |

*Why these bounds are enough to be of use.* Every hazard here is a pair of overlapping
read-change-write calls and, at most, a third that puts the record into the state in
which the overlap hurts (resolved, published, version 1). Two clients, or a client and a worker, with
three to six calls give every such triple on one record; a second incident or key is there where a
property relates two. `Buffer` is small where a full queue matters, and large enough for every job in
`executions`, because a dropped job does leave its action queued for ever: that is the condition of `ActionsSettle`.
`Width = 0` with one tick is the smallest window that an anomaly can miss. In
`ingestion` three kept samples and two listed ones are passed by two batches, a batch touches two devices while one of them is retired, and the queue is full when
two jobs are submitted at once; a sample at time 1 falls out of the window that ends at 1. In `requests` two readings can overtake each other across the end of a window,
and the clock can be set by as much as a window, forward and back. Six calls are one more than the `2 * Limit + 1` that `BurstBounded` compares, and one more than it
takes to fill a bucket, start the next and be refused; with base 2 the numbers 1, 2 to 3 and 4 differ in length, as 9 and 10 do. In
`shutdown` the subscription takes an id too, so three events meet a channel for two. The second job waits in the channel behind a busy worker, is submitted by the
worker itself, or meets a full channel; both may be there when the queue is stopped. Deadlock is not
checked: every instance stops when its calls are used up, and a process that has exited takes no step; that nobody waits
for ever is what the liveness properties of `executions` and `shutdown` say.

*Symmetry.* Goroutines of a kind and ids that callers choose are interchangeable. No
liveness run uses it, and neither does `ingestion`, whose refinement singles out the seeded device. In `requests` clients
are alike to every action, to the invariants and to the one action property. There is one label in that run, so a filter finds all entries or none; `ListingsFollow` is
proved for any labels.

*Fairness.* `FairSpec` assumes weak fairness of `Resume(p)`, the steps by which goroutine
`p` goes on or a worker takes a job: the Go scheduler runs every runnable goroutine, and no
modelled step of `Response` waits for a lock held by one that cannot run. `Request` has none: nobody has to make a call.
In `Shutdown` every request, worker and stream that can go on does, and so does the shutdown goroutine once it has been woken;
the client of a stream need not leave, no signal has to come, no request has to be made, and `Exit` need not happen. A handler
returns after finitely many calls (no service function loops over calls of its own making), which is why `Return` is fair.
For the mutex weak fairness is enough: only finitely many events are published, and Go's `RWMutex` prefers a waiting writer anyway.

### Where the code does not do what it says

Four runs end in a violation; each property quotes a line of the repository, and "findings"
gives the sequence.

* `ClosedIsFinal`: a transition that has read a resolved incident overwrites the closed one.
* `ActionsIdempotent`: two executions read the action before either has stored it, and both complete it.
* `RetiredIsFinal`: the expected version 0 of a no-op transition lets a stale copy bring a
  retired device back to version 1.
* `OneOpenIncident`: two evaluations find no incident, and both open one.

The other side of these overwrites is checked and proved. `ClosedStays`, `SettledStays`, `LockedStays` and `FinalStays` say that once a record
is in its last state, and no call holds a copy that differs from it (for an action: none is executing or cancelling it), no later call, job or retry
changes it. So finality is lost through overlapping calls alone: for incidents and policies through any of them, for devices and streams only where the version check
lets the copy through.

Seen while modelling, and not given a run because no line of the repository promises
otherwise, because it is the same overwrite, or because the model would only restate a missing check. Two of them do
contradict the plan (`.go-create-new-project.json:36-37`: a device's status is checked before it receives a policy; a publication does not overwrite a locked version):
a draft is published although its device was retired after creation, and a publication computed from the draft replaces a locked policy (policy.go:114).
The others: a cancellation marks an action skipped that a worker has started meanwhile (actions.go:115
says that only queued actions can be cancelled); a detection reports the
farther threshold, with a value that may be short of it, because either one triggers the rule (detector.go:27 and 55); a threshold left at 0 takes part; a rate rule never reports
a signal that only rises, because the last value of a window is its oldest; a stream paused during a call still receives its samples; entries of one instant
are listed out of order where their numbers differ in length; twice the limit passes around the end of a window;
attached evidence may be lost from an incident's list; an action of a closed incident is stored and
executed, though not listed by the incident (the error of the attach is dropped); an action whose job met a full queue stays
queued; a disabled stream at version 1 can be reactivated; two overlapping publications may leave
a lower version as the later one; jobs that were accepted
and are in the channel when the queue is stopped are never run; after the wall clock has been set back, a full bucket refuses for that much longer than a window and a later
audit entry is listed below an earlier one, and a clock set forward ends a window early; `main` may return while workers still run jobs or the bus is open (`Exit` at any stage); a stream that is open when the
bus is closed takes the bus's mutex with it (`lost`), which harms nobody because the workers have ended (`WorkersEndFirst`), and
requests that outlive the five seconds at most hang until the process exits. After a device has been taken back to version 1, versions repeat, and a copy from before may pass the
check again: this is why the refinement is claimed for seeded devices only.

## 4. What is proved

`tlapm` checks every proof. All theorems are for any finite or infinite sets of goroutines,
ids and records and any bounds; the only assumptions are those named in the modules
(`ResponseAssumption` and so on): clients are not workers, publishers and submitters are the requests and the workers, the capacity is positive, bounds are
numbers, `None` is none of the records.

The properties of stored records are not inductive: a step writes a copy that was read any time
before. **The strengthening is the same in the modules over the repository: say of every copy in a frame what
makes it harmless to write.**

* `Response_proofs`. `TypeInvariant` says which copies each label holds. `ActionInvariant`: a
  copied action has the identity (incident, key, limit) of the stored one and a status that
  fits its own attempt count; hence `KeysAgree` and `AttemptsBounded`. `LinkInvariant`: copied
  incidents refer to stored records, and are closed only with evidence; hence
  `ReferencesAlwaysResolve` and `ClosedIncidentsHaveEvidence`. `ClosedIncidentsStay` and `SettledActionsStay` go through the steps once more: every
  method leaves a closed copy as it is, and nothing begins to execute or cancel a settled action.
* `DeviceRegistry_proofs`. `VersionsCounted` for every record. `SeededInvariant`: a copy of a
  seeded device either fails the version check or is a legal successor of the stored record;
  hence `SeededImplementLifecycle`, the refinement of `DeviceLifecycle`, in which every write
  of a seeded device is one abstract step and every other step stutters. `FinalRecordsStay` for every device and stream.
* `Policies_proofs`. `Invariant`: a copy that will be written has the effective date of the stored
  policy, or both dates are past; hence a write never takes an active policy out of force
  (`ActiveVersionNeverFalls`). `LockedPoliciesStay`: a locked copy is neither published nor locked again.
* `Evaluation_proofs`. `Invariant`: what holds of stored incidents holds of all copies
  (`Known`), two of which list a common anomaly only if they are copies of one incident;
  and an anomaly that is being correlated has one owner, nobody else names it, and no
  incident lists it until its owner adds it. Hence `OneSignal`, `AnomaliesCovered`, `AnomaliesListedOnce` and
  `LinksNameTheLister`, also when ids collide: a duplicate id is refused by
  `PutAnomaly` or `PutIncident`, whose goroutine then owns nothing.
* `Response_proofs` also proves `EffectsOnce`: if "ExecuteAction" is not among the clients' calls, no action takes effect twice. `OnceInv`: at any
  time at most one of the queued jobs, the workers that have taken one and the calls about to submit one carries an action, none does before the action is
  stored, and none after it has taken effect. `executes_twice` shows that the assumption is needed.
* `Ingestion_proofs`. `IngestionImplementsRegistry`: every step is a step of `DeviceRegistry` or leaves it alone, so `VersionsCount`, `FinalStays` and the refinement of
  `DeviceLifecycle` hold here too. `PipelineInvariant`: every cached stream, built sample, stored sample and job agrees with the stored
  stream on its device, which never changes; hence `SamplesKeepTheirDevice`. `RetiredRefused` uses that a seeded
  device that was retired stays retired, a consequence of `SeededInvariant`. `NoSampleIsForgotten` follows each stream in `waiting` through call, channel and worker.
  `WindowsSummarise` and `DetectionsMatch` are the correctness of the detector for any samples, rules and limits: by induction over its rounds, `ListSamples` has the
  last of the matching samples, newest first, `BuildWindow` the count, the sum, the extremes and the last value of what it has passed, and `Detect` just the rules
  that have triggered. Hence `IngestionTypeCorrect`, which covers what a worker holds.
* `Requests_proofs`. `ClockInv` and `PastStays`: a reading was taken at an offset between `least` and `most`, whatever the clock is set to later. `LimiterInv`: a bucket counts
  the requests admitted since its start, which are the last ones of `admitted`, and the windows of a key start at least a window apart on the wall clock; hence `BurstsBounded` and
  `RefusalsAreEarned`, for any limit, window and offsets. The log's invariant gives `NewestAreKept`.
  `ListingsFollow`: an entry is listed above those whose clock was read earlier by at least `Spread`, unless the times shown are equal and the numbers differ in length. It rests on an invariant
  of the readings (`Timed`), on `Written` being a strict total order of numbers for any base above 1, and on counting: a newer entry has a smaller rank, no two have
  the same, so the ranks of the entries found are 0, 1, 2 and so on.
* `Shutdown_proofs`. `BusInvariant`: a handler that has not subscribed has no channel, only `Bus.Close`
  closes the channel of a handler that has not ended, and what a publisher has yet to send is greater
  than everything the handler has of it, in its channel or received (`SentBefore`). Hence, for the bus alone,
  `NeverSendsOnClosed`, `DeliveredInOrder`, `BusTypeCorrect`, and that the mutex is lost only after `Bus.Close`.
  `RunsBusAndQueue`: every step of the process is a step of the bus or a stutter, and the same
  for the queue, so the theorems of the parts hold in the process. `OrderInvariant` (the bus is closed
  in the last stage only, and from "bus" on all workers have ended) with `LostAfterClose` gives `WorkersEnd`.
* `Induction`. The prover cannot use the library's induction theorems, which take an operator as a parameter. `SetInduction` and `RoundInduction` state induction
  with a set in the operator's place (the finite sets, or the rounds, for which a fact holds), and `LoopRuns` and `SequenceContinues` that the recursive functions
  of the loops exist and satisfy their equations. They are proved from the library's theorem that `<` is well-founded on the natural numbers.

Only model-checked: `StopReturns`, `PublishersProceed`, `JobsTaken` and `ActionsSettle`, which are liveness under fairness and need `ENABLED`, out of this prover's reach. `JobsTaken` claims
nothing once the queue is stopped, and `StopReturns` nothing once the process has exited. Every
invariant and every action property of a passing run is a theorem; `EffectOnce` under the assumption that the run makes too. The violations are counterexamples of TLC.

## 5. What is not modelled, and what could follow

Not modelled: metrics (counters under one mutex), reports, search and statistics (reads and formatting), the HTTP
codec (each route is one service call), the clock's wrapper, the wording of ids, thresholds, logs and events. Cancellation
of a request's context is left out: it is checked at the start of a call, which is then refused.

Dead code in this program: the scheduler (`queue/scheduler.go`: nothing constructs one), maintenance windows, `WindowBuilder` and `Correlator` in
`aggregate`, `Limiter.Remaining`, `App.EvaluateIncident`, retirement of policies. Two rules that the repository states have no code at all: that no
isolation is started in a maintenance window, and the limit of concurrent actions per device.

What could follow: an abstract queue (a job is accepted once and handled at most once) that both `JobQueue` and the channel of
`Response` implement; the bus with DropWhenFull off, where a slow stream holds up everyone; a composition of `Ingestion` and `Policies`, in which the rules are
those of the policy that is active when the job runs.
