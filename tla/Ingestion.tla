----------------------------- MODULE Ingestion -----------------------------
(***************************************************************************)
(* Telemetry from the request to the detector (internal/service/           *)
(* telemetry.go): IngestTelemetry checks a batch sample by sample against  *)
(* the registry, stores it, touches the devices and submits an evaluation  *)
(* job for each stream; a worker lists the samples of its stream and runs  *)
(* the rules of the active policy over them.  Other calls change devices   *)
(* and streams meanwhile (module DeviceRegistry, every step of which is a  *)
(* step here); which policy is active is a free choice (module Policies),  *)
(* and what becomes of a detection is module Evaluation.                   *)
(***************************************************************************)
EXTENDS DeviceRegistry, Detector, FiniteSets

CONSTANTS
  Workers,     \* goroutines of the job queue
  Batches,     \* batches that callers send: lists of inputs
  Signals,     \* signals
  SignalOf,    \* the signal that a stream is created with
  RuleLists,   \* rules that policies are created with
  Keep,        \* the repository keeps no more samples than this
  Buffer,      \* capacity of the job queue
  MaxBatches,  \* bound: number of batches
  MaxTime      \* bound: the clock stops there

(* valid: NewSample accepts the input.  observed is the time of the sample.*)
Input  == [stream: StreamIDs, value: Int, good: BOOLEAN, observed: Nat, valid: BOOLEAN]
Sample == [device: DeviceIDs, stream: StreamIDs, value: Int, good: BOOLEAN, observed: Nat]
Rule   == [signal: Signals, comparator: Comparators, lower: Int, upper: Int]
Job    == [stream: StreamIDs, device: DeviceIDs]

ASSUME IngestionAssumption ==
  /\ Batches \subseteq Seq(Input)
  /\ SignalOf \in [StreamIDs -> Signals]
  /\ RuleLists \subseteq Seq(Rule)
  /\ Keep \in Nat \ {0} /\ Buffer \in Nat \ {0}
  /\ Width \in Nat \ {0} /\ ListLimit \in Nat \ {0}
  /\ MaxBatches \in Nat /\ MaxTime \in Nat
  /\ None \notin StreamIDs \cup Job

VARIABLES
  samples,  \* the repository's list of samples, the oldest first
  jobs,     \* the queue's channel of evaluation jobs
  ingest,   \* per goroutine that serves requests: its call of IngestTelemetry
  worker,   \* per worker: its evaluation
  now,      \* the clock
  batches,  \* number of batches sent
  waiting   \* history: streams with samples that no evaluation has followed

ingestionVars == <<samples, jobs, ingest, worker, now, batches, waiting>>
allVars       == <<vars, ingestionVars>>
-----------------------------------------------------------------------------
(***************************************************************************)
(* The call: what is left of the batch, the map `streams` of the records   *)
(* read so far, the samples built so far, and the stream whose device is   *)
(* being touched.  retired is history: the seeded devices that had been    *)
(* retired when the call began.                                            *)
(***************************************************************************)
Places == {"idle", "loop", "touch", "submit"}

Call == [at: Places, inputs: Seq(Input), cache: [StreamIDs -> Stream \cup {None}],
         result: Seq(Sample), stream: StreamIDs \cup {None}, retired: SUBSET Seeded]

NoCache == [s \in StreamIDs |-> None]
NoCall  == [at |-> "idle", inputs |-> <<>>, cache |-> NoCache, result |-> <<>>,
            stream |-> None, retired |-> {}]

AtPlace(c, place) == ingest[c].at = place
Cached(c)         == {s \in StreamIDs : ingest[c].cache[s] # None}
End(c)            == ingest' = [ingest EXCEPT ![c] = NoCall]

Go(c, place, inputs, cache, result, s) ==
  ingest' = [ingest EXCEPT ![c] =
    [at |-> place, inputs |-> inputs, cache |-> cache, result |-> result, stream |-> s,
     retired |-> ingest[c].retired]]

IngestTelemetry(c) ==
  /\ At(c, "idle") /\ AtPlace(c, "idle")
  /\ batches < MaxBatches
  /\ batches' = batches + 1
  /\ \E batch \in Batches :
       /\ batch # <<>>
       /\ ingest' = [ingest EXCEPT ![c] =
            [at |-> "loop", inputs |-> batch, cache |-> NoCache, result |-> <<>>,
             stream |-> None, retired |-> {d \in Seeded : devices[d].status = "retired"}]]
  /\ UNCHANGED <<vars, samples, jobs, worker, now, waiting>>

(* The first sample of a stream reads its record, the others use the copy. *)
GetStream(c) ==
  LET call == ingest[c]
      s    == Head(call.inputs).stream
  IN
  /\ AtPlace(c, "loop")
  /\ call.inputs # <<>>
  /\ call.cache[s] = None
  /\ \/ streams[s] = None /\ End(c)
     \/ /\ streams[s] # None
        /\ Go(c, "loop", call.inputs, [call.cache EXCEPT ![s] = streams[s]], call.result, None)
  /\ UNCHANGED <<vars, samples, jobs, worker, now, batches, waiting>>

FaultAccepts(stream, device) == stream.status = "active"

(* AcceptsSamples and CanReceiveTelemetry                                  *)
Accepts(stream, device) == stream.status = "active" /\ device.status \in {"ready", "degraded"}

NewSample(input, stream) ==
  [device |-> stream.device, stream |-> stream.id, value |-> input.value,
   good |-> input.good, observed |-> input.observed]

(* The device is read for every sample.  One sample that is refused ends   *)
(* the call and nothing of the batch is stored.                            *)
GetDevice(c) ==
  LET call     == ingest[c]
      input    == Head(call.inputs)
      stream   == call.cache[input.stream]
      accepted == Accepts(stream, devices[stream.device]) /\ input.valid
  IN
  /\ AtPlace(c, "loop")
  /\ call.inputs # <<>>
  /\ stream # None
  /\ \/ ~accepted /\ End(c)
     \/ /\ accepted
        /\ Go(c, "loop", Tail(call.inputs), call.cache,
              Append(call.result, NewSample(input, stream)), None)
  /\ UNCHANGED <<vars, samples, jobs, worker, now, batches, waiting>>

FaultLatest(list) == SubSeq(list, Greatest(1, Len(list) - Keep), Len(list))

Latest(list) == SubSeq(list, Greatest(1, Len(list) - Keep + 1), Len(list))

AddSamples(c) ==
  LET call == ingest[c] IN
  /\ AtPlace(c, "loop")
  /\ call.inputs = <<>>
  /\ samples' = Latest(samples \o call.result)
  /\ Go(c, "touch", <<>>, call.cache, <<>>, None)
  /\ waiting' = waiting \cup Cached(c)
  /\ UNCHANGED <<vars, jobs, worker, now, batches>>

FaultTouchNext(c) ==
  \E s \in Cached(c) :
    LET d == ingest[c].cache[s].device IN
    /\ AtPlace(c, "touch")
    /\ \/ TouchDevice(c, d) /\ Go(c, "submit", <<>>, ingest[c].cache, <<>>, s)
       \/ devices[d].status = "retired" /\ End(c) /\ UNCHANGED vars
    /\ UNCHANGED <<samples, jobs, worker, now, batches, waiting>>

(* The streams of the call, in any order: touch the device, which fails if *)
(* it has been retired, and submit the job.  UpdateDevice, the write of a  *)
(* touch, is the registry's step.                                          *)
TouchNext(c) ==
  \E s \in Cached(c) :
    LET d == ingest[c].cache[s].device IN
    /\ AtPlace(c, "touch")
    /\ \/ TouchDevice(c, d)
       \/ devices[d].status = "retired" /\ UNCHANGED vars
    /\ Go(c, "submit", <<>>, ingest[c].cache, <<>>, s)
    /\ UNCHANGED <<samples, jobs, worker, now, batches, waiting>>

(* A full queue drops the job, and the call goes on.                       *)
SubmitEvaluation(c) ==
  LET call == ingest[c]
      s    == call.stream
      job  == [stream |-> s, device |-> call.cache[s].device]
      room == Len(jobs) < Buffer
  IN
  /\ AtPlace(c, "submit")
  /\ At(c, "idle")
  /\ jobs' = IF room THEN Append(jobs, job) ELSE jobs
  /\ waiting' = IF room THEN waiting ELSE waiting \ {s}
  /\ \/ Cached(c) = {s} /\ End(c)
     \/ /\ Cached(c) # {s}
        /\ Go(c, "touch", <<>>, [call.cache EXCEPT ![s] = None], <<>>, None)
  /\ UNCHANGED <<vars, samples, worker, now, batches>>
-----------------------------------------------------------------------------
(***************************************************************************)
(* The evaluation job.                                                     *)
(***************************************************************************)
NoEvaluation == [at |-> "idle", job |-> None, rules |-> <<>>, window |-> None, found |-> <<>>]

TakeJob(w) ==
  /\ worker[w].at = "idle"
  /\ jobs # <<>>
  /\ worker' = [worker EXCEPT ![w] =
       [at |-> "job", job |-> Head(jobs), rules |-> <<>>, window |-> None, found |-> <<>>]]
  /\ jobs' = Tail(jobs)
  /\ UNCHANGED <<vars, samples, ingest, now, batches, waiting>>

Drop(w) == worker' = [worker EXCEPT ![w] = NoEvaluation]

(* EvaluateTelemetry up to its detections.  Without an active policy it    *)
(* ends.  Policies are created with valid rules only.                      *)
EvaluateTelemetry(w) ==
  LET job  == worker[w].job
      list == ListSamples(samples, job.stream, now)
  IN
  /\ worker[w].at = "job"
  /\ \/ Drop(w)
     \/ BuildFails(list, now) /\ Drop(w)
     \/ /\ ~BuildFails(list, now)
        /\ \E rules \in RuleLists :
             LET window == BuildWindow(list, now) IN
             /\ \A i \in DOMAIN rules : Valid(rules[i])
             /\ worker' = [worker EXCEPT ![w] =
                  [at |-> "detected", job |-> job, rules |-> rules, window |-> window,
                   found |-> Detect(window, SignalOf[job.stream], rules)]]
  /\ waiting' = waiting \ {job.stream}
  /\ UNCHANGED <<vars, samples, jobs, ingest, now, batches>>

(* The detections become anomalies (module Evaluation).                    *)
EndEvaluation(w) ==
  /\ worker[w].at = "detected"
  /\ Drop(w)
  /\ UNCHANGED <<vars, samples, jobs, ingest, now, batches, waiting>>

(* Calls of the registry begin in goroutines that are not ingesting.       *)
RegistryCall(c) ==
  /\ \/ /\ AtPlace(c, "idle")
        /\ \/ CreateDevice(c)
           \/ TransitionDeviceGet(c)
           \/ CreateStreamGet(c)
           \/ CreateStreamPut(c)
           \/ TransitionStreamGet(c)
           \/ UpdateStream(c)
     \/ UpdateDevice(c)
  /\ UNCHANGED ingestionVars

Tick ==
  /\ now < MaxTime
  /\ now' = now + 1
  /\ UNCHANGED <<vars, samples, jobs, ingest, worker, batches, waiting>>
-----------------------------------------------------------------------------
IngestionInit ==
  /\ Init
  /\ samples = <<>>
  /\ jobs = <<>>
  /\ ingest = [c \in Clients |-> NoCall]
  /\ worker = [w \in Workers |-> NoEvaluation]
  /\ now = 0
  /\ batches = 0
  /\ waiting = {}

IngestionNext ==
  \/ \E c \in Clients :
       \/ RegistryCall(c)
       \/ IngestTelemetry(c)
       \/ GetStream(c)
       \/ GetDevice(c)
       \/ AddSamples(c)
       \/ TouchNext(c)
       \/ SubmitEvaluation(c)
  \/ \E w \in Workers : TakeJob(w) \/ EvaluateTelemetry(w) \/ EndEvaluation(w)
  \/ Tick

IngestionSpec == IngestionInit /\ [][IngestionNext]_allVars
-----------------------------------------------------------------------------
(***************************************************************************)
(* Properties                                                              *)
(***************************************************************************)
Window == [device: DeviceIDs, stream: StreamIDs, count: Nat, min: Int, max: Int,
           total: Int, last: Int, bad: Nat]

(* Every variable keeps its type, and the list of samples and the channel  *)
(* their bounds.                                                           *)
PipelineTypeOK ==
  /\ samples \in Seq(Sample) /\ Len(samples) <= Keep
  /\ jobs \in Seq(Job) /\ Len(jobs) <= Buffer
  /\ ingest \in [Clients -> Call]
  /\ \A w \in Workers : worker[w].at = "job" => worker[w].job \in Job
  /\ now \in Nat /\ batches \in Nat
  /\ waiting \in SUBSET StreamIDs

IngestionTypeOK ==
  /\ TypeOK
  /\ PipelineTypeOK
  /\ worker \in [Workers ->
       [at: {"idle", "job", "detected"}, job: Job \cup {None}, rules: Seq(Rule),
        window: Window \cup {None}, found: Seq(Nat)]]

(* While no evaluation has followed the samples of a stream, its job is in *)
(* the queue, taken, or still to be submitted, whatever became of the      *)
(* device since the samples were accepted; only a full queue loses it.     *)
JobComes(s) ==
  \/ \E i \in DOMAIN jobs : jobs[i].stream = s
  \/ \E w \in Workers : worker[w].at = "job" /\ worker[w].job.stream = s
  \/ \E c \in Clients : ingest[c].at \in {"touch", "submit"} /\ s \in Cached(c)

NoSampleForgotten == \A s \in waiting : JobComes(s)

(* Samples, jobs and the copies that an ingestion works with name the      *)
(* device of the stream they belong to, although streams change meanwhile: *)
(* no evaluation meets samples of two devices, or another device than its  *)
(* job's.                                                                  *)
OfStream(s, d) == streams[s] # None /\ streams[s].device = d

SamplesKeepDevice ==
  /\ \A i \in DOMAIN samples : OfStream(samples[i].stream, samples[i].device)
  /\ \A i \in DOMAIN jobs : OfStream(jobs[i].stream, jobs[i].device)
  /\ \A w \in Workers :
       worker[w].at = "job" => OfStream(worker[w].job.stream, worker[w].job.device)

(* A call that began after a seeded device was retired stores no sample of *)
(* it, whatever copies of the device are written back meanwhile.           *)
NoneOfRetired ==
  \A c \in Clients : \A i \in DOMAIN ingest[c].result :
    ingest[c].result[i].device \notin ingest[c].retired
-----------------------------------------------------------------------------
(***************************************************************************)
(* What an evaluation should make of the stored samples, said of the set   *)
(* of their places in the repository's list.                               *)
(***************************************************************************)
InStream(s) == {i \in DOMAIN samples : samples[i].stream = s /\ InWindow(samples[i], now)}

Listed(s) == {i \in InStream(s) : Cardinality({j \in InStream(s) : j > i}) < ListLimit}

Oldest(I)   == samples[CHOOSE i \in I : \A j \in I : i <= j].value
Lowest(I)   == CHOOSE v \in {samples[i].value : i \in I} : \A i \in I : v <= samples[i].value
Highest(I)  == CHOOSE v \in {samples[i].value : i \in I} : \A i \in I : v >= samples[i].value
Total(I)    == LET total[i \in 0..Len(samples)] ==
                     IF i = 0 THEN 0 ELSE total[i - 1] + IF i \in I THEN samples[i].value ELSE 0
               IN total[Len(samples)]

Evaluates(w) == worker[w].at = "job" /\ worker'[w].at = "detected"

(* The window that the rules see counts, bounds and adds up the samples of *)
(* the stream that were inserted last; its last value is the oldest one's. *)
WindowSummarises ==
  [][\A w \in Workers : Evaluates(w) =>
       LET I == Listed(worker[w].job.stream)
           W == worker'[w].window
       IN /\ W.device = worker[w].job.device
          /\ W.count = Cardinality(I) /\ W.bad = Cardinality({i \in I : ~samples[i].good})
          /\ W.min = Lowest(I) /\ W.max = Highest(I) /\ W.last = Oldest(I)
          /\ W.total = Total(I)]_allVars

(* A rule is reported just when the oldest listed value is beyond the      *)
(* nearer of its thresholds (0 if one was left out), or, for a rate, when  *)
(* the signal fell: a rate rule never reports a signal that only rises.    *)
Holds(rule, I) ==
  CASE rule.comparator = "above"   -> Oldest(I) > Least(rule.lower, rule.upper)
    [] rule.comparator = "below"   -> Oldest(I) < Greatest(rule.lower, rule.upper)
    [] rule.comparator = "outside" -> Oldest(I) \notin rule.lower .. rule.upper
    [] rule.comparator = "rate"    -> Oldest(I) - Lowest(I) > rule.upper * (Cardinality(I) - 1)

DetectionsMatchSamples ==
  [][\A w \in Workers : Evaluates(w) =>
       LET s == worker[w].job.stream
           W == worker'[w]
       IN \A i \in DOMAIN W.rules :
            (\E k \in DOMAIN W.found : W.found[k] = i) <=>
               W.rules[i].signal = SignalOf[s] /\ Holds(W.rules[i], Listed(s))]_allVars
=============================================================================
