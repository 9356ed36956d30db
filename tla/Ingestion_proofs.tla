-------------------------- MODULE Ingestion_proofs --------------------------
(***************************************************************************)
(* Proofs about Ingestion, for any clients, workers, devices, streams,     *)
(* batches and rules: ingestion uses the registry as its module describes, *)
(* samples keep the device of their stream, no stored sample is left       *)
(* without an evaluation, retired devices are refused; and, from the loops *)
(* of ListSamples, BuildWindow and Detect, the window of an evaluation     *)
(* summarises the samples it is meant to, and exactly the rules that hold  *)
(* of them are reported.                                                   *)
(***************************************************************************)
EXTENDS Ingestion, DeviceRegistry_proofs, Induction, FiniteSetTheorems

(* What the proofs need to know of the worker that a step moves.           *)
WorkersOK == DOMAIN worker = Workers

(* A copy of a stream in a call, or in the frame of a transition, names    *)
(* the device of the stored stream.                                        *)
CopyOf(x) == x \in Stream /\ OfStream(x.id, x.device)

StreamCopies ==
  \A c \in Clients : At(c, "stream.update") => CopyOf(frame[c].stream)

(* A call of IngestTelemetry works with such copies, has accepted samples  *)
(* of streams it has read and of devices that were not retired when it     *)
(* began, and submits a job for a stream it has read.                      *)
SoundCall(c) ==
  LET call == ingest[c] IN
  /\ \A s \in Cached(c) : CopyOf(call.cache[s]) /\ call.cache[s].id = s
  /\ \A i \in DOMAIN call.result : OfStream(call.result[i].stream, call.result[i].device)
  /\ call.at = "submit" => call.stream \in Cached(c)

NothingRetired(c) ==
  /\ \A d \in ingest[c].retired : devices[d].status = "retired"
  /\ \A i \in DOMAIN ingest[c].result : ingest[c].result[i].device \notin ingest[c].retired

(* After the step, the stream of x has the device that x names.            *)
KeepsDevice(x) == streams'[x.stream] # None /\ streams'[x.stream].device = x.device

Pipeline ==
  /\ PipelineTypeOK /\ WorkersOK
  /\ StreamCopies
  /\ \A c \in Clients : SoundCall(c)
  /\ SamplesKeepDevice
-----------------------------------------------------------------------------
(***************************************************************************)
(* The registry under ingestion.                                           *)
(***************************************************************************)
(* Every step of the pipeline is a step of the registry or none.           *)
LEMMA RegistryStep ==
  ASSUME Pipeline, [IngestionNext]_allVars
  PROVE  [Next]_vars
<1>1. ASSUME NEW c \in Clients, RegistryCall(c) PROVE [Next]_vars
  BY <1>1 DEF RegistryCall, Next
<1>2. ASSUME NEW c \in Clients, TouchNext(c) PROVE [Next]_vars
  <2>1. PICK s \in Cached(c) :
          \/ TouchDevice(c, ingest[c].cache[s].device)
          \/ UNCHANGED vars
    BY <1>2 DEF TouchNext
  <2>2. ingest[c].cache[s].device \in DeviceIDs
    BY <2>1 DEF Pipeline, SoundCall, CopyOf, Stream
  <2> QED  BY <2>1, <2>2 DEF Next, TouchDeviceGet
<1>3. ASSUME NEW c \in Clients,
             \/ IngestTelemetry(c) \/ GetStream(c) \/ GetDevice(c) \/ AddSamples(c)
             \/ SubmitEvaluation(c)
      PROVE  [Next]_vars
  BY <1>3 DEF IngestTelemetry, GetStream, GetDevice, AddSamples, SubmitEvaluation
<1>4. ASSUME NEW w \in Workers, TakeJob(w) \/ EvaluateTelemetry(w) \/ EndEvaluation(w)
      PROVE  [Next]_vars
  BY <1>4 DEF TakeJob, EvaluateTelemetry, EndEvaluation
<1>5. CASE Tick
  BY <1>5 DEF Tick
<1>6. CASE UNCHANGED allVars
  BY <1>6 DEF allVars
<1> QED  BY <1>1, <1>2, <1>3, <1>4, <1>5, <1>6 DEF IngestionNext

(* Moved keeps the device of a stream.                                     *)
LEMMA MovedKeepsDevice ==
  ASSUME NEW x \in Stream, NEW s \in StreamStatus
  PROVE  Moved(x, s).device = x.device
<1> DEFINE z == [x EXCEPT !.status = s]
<1>1. z \in Stream /\ z.device = x.device
  BY DEF Stream
<1>2. Moved(x, s) = IF s = x.status THEN x ELSE [z EXCEPT !.version = x.version + 1]
  BY DEF Moved
<1> HIDE DEF z
<1>3. [z EXCEPT !.version = x.version + 1].device = z.device
  BY <1>1 DEF Stream
<1> QED  BY <1>1, <1>2, <1>3

(* A stream keeps its device: it is created once, and what a transition    *)
(* writes is a copy.                                                       *)
LEMMA OfStreamStays ==
  ASSUME TypeInv, StreamCopies, [Next]_vars, NEW s \in StreamIDs, NEW d, OfStream(s, d)
  PROVE  OfStream(s, d)'
<1>a. streams[s] # None /\ streams[s].device = d
  BY DEF OfStream
<1>1. CASE UNCHANGED streams
  BY <1>1, <1>a DEF OfStream
<1>2. ASSUME NEW c \in Clients, UpdateStream(c) PROVE OfStream(s, d)'
  <2> DEFINE x == frame[c].stream
  <2>1. CopyOf(x)
    BY <1>2 DEF StreamCopies, UpdateStream
  <2>2. streams'[s] = streams[s] \/ (s = x.id /\ streams'[s] = x)
    BY <1>2, StoreStream
  <2> HIDE DEF x
  <2> QED  BY <1>a, <2>1, <2>2, RegistryAssumption DEF CopyOf, OfStream, RegistryAssumption
<1>3. ASSUME NEW c \in Clients,
             \/ CreateDevice(c) \/ TransitionDeviceGet(c) \/ TouchDeviceGet(c) \/ UpdateDevice(c)
             \/ CreateStreamGet(c) \/ CreateStreamPut(c) \/ TransitionStreamGet(c)
      PROVE  OfStream(s, d)'
  BY <1>3, <1>a, StreamWrites DEF OfStream
<1> QED  BY <1>1, <1>2, <1>3 DEF Next, vars

(* The copies of transitions stay copies.                                  *)
LEMMA StreamCopiesNext ==
  ASSUME TypeInv, StreamCopies, [Next]_vars
  PROVE  StreamCopies'
<1> SUFFICES ASSUME NEW c \in Clients, At(c, "stream.update")'
             PROVE  CopyOf(frame[c].stream)'
  BY DEF StreamCopies
<1>1. CASE frame'[c] = frame[c]
  <2>1. At(c, "stream.update") /\ frame'[c].stream = frame[c].stream
    BY <1>1 DEF At
  <2>2. CopyOf(frame[c].stream)
    BY <2>1 DEF StreamCopies
  <2>3. frame[c].stream.id \in StreamIDs
    BY <2>2 DEF CopyOf, Stream
  <2> QED  BY <2>1, <2>2, <2>3, OfStreamStays DEF CopyOf
<1>2. CASE frame'[c] # frame[c]
  <2>a. frame \in [Clients -> Frame]
    BY DEF TypeInv, TypeOK
  <2>1. PICK b \in Clients : TransitionStreamGet(b) /\ b = c
    <3>1. ASSUME NEW b \in Clients,
                 \/ CreateDevice(b) \/ UpdateDevice(b) \/ CreateStreamPut(b) \/ UpdateStream(b)
          PROVE  FALSE
      BY <1>2, <2>a, <3>1, ReturnFrame DEF CreateDevice, UpdateDevice, CreateStreamPut, UpdateStream, At
    <3>2. ASSUME NEW b \in Clients,
                 TransitionDeviceGet(b) \/ TouchDeviceGet(b) \/ CreateStreamGet(b)
          PROVE  FALSE
      BY <1>2, <2>a, <3>2
      DEF TransitionDeviceGet, TouchDeviceGet, TouchDevice, CreateStreamGet, HoldDevice, HoldStream, At
    <3>3. ASSUME NEW b \in Clients, TransitionStreamGet(b) PROVE b = c
      BY <1>2, <2>a, <3>3 DEF TransitionStreamGet, HoldStream
    <3> QED  BY <1>2, <3>1, <3>2, <3>3 DEF Next, vars
  <2>2. PICK x \in StreamIDs, s \in StreamStatus :
          streams[x] # None /\ HoldStream(c, "stream.update", Moved(streams[x], s))
    BY <2>1 DEF TransitionStreamGet
  <2>3. streams[x] \in Stream /\ streams[x].id = x
    BY <2>2 DEF TypeInv, TypeOK
  <2> DEFINE y == Moved(streams[x], s)
  <2>4. y \in Stream /\ y.id = x /\ y.device = streams[x].device
    BY <2>3, StreamMethods, MovedKeepsDevice
  <2>5. frame'[c].stream = y
    BY <2>a, <2>2 DEF HoldStream
  <2>6. UNCHANGED streams
    BY <2>1 DEF TransitionStreamGet
  <2> HIDE DEF y
  <2> QED  BY <2>2, <2>4, <2>5, <2>6 DEF CopyOf, OfStream
<1> QED  BY <1>1, <1>2
-----------------------------------------------------------------------------
(***************************************************************************)
(* How steps change calls, lists and workers.                              *)
(***************************************************************************)
(* A call that goes on is where it says, and no other call moves.          *)
LEMMA GoCall ==
  ASSUME ingest \in [Clients -> Call], NEW c \in Clients, NEW place \in Places,
         NEW inputs \in Seq(Input), NEW cache \in [StreamIDs -> Stream \cup {None}],
         NEW result \in Seq(Sample), NEW s \in StreamIDs \cup {None},
         Go(c, place, inputs, cache, result, s)
  PROVE  /\ ingest' \in [Clients -> Call]
         /\ ingest'[c].at = place /\ ingest'[c].inputs = inputs /\ ingest'[c].cache = cache
         /\ ingest'[c].result = result /\ ingest'[c].stream = s
         /\ ingest'[c].retired = ingest[c].retired
         /\ \A b \in Clients \ {c} : ingest'[b] = ingest[b]
<1>1. [at |-> place, inputs |-> inputs, cache |-> cache, result |-> result, stream |-> s,
       retired |-> ingest[c].retired] \in Call
  BY DEF Call
<1> QED  BY <1>1 DEF Go

(* The value of a goroutine that is not ingesting.                         *)
LEMMA NoCallProperties ==
  /\ NoCall \in Call
  /\ NoCall.at = "idle" /\ NoCall.result = <<>> /\ NoCall.retired = {}
  /\ \A s \in StreamIDs : NoCall.cache[s] = None
BY DEF NoCall, NoCache, Call, Places

(* A call that ends leaves nothing.                                        *)
LEMMA EndCall ==
  ASSUME ingest \in [Clients -> Call], NEW c \in Clients, End(c)
  PROVE  /\ ingest' \in [Clients -> Call] /\ ingest'[c] = NoCall
         /\ \A b \in Clients \ {c} : ingest'[b] = ingest[b]
BY NoCallProperties DEF End

(* The first element and the rest of a list (the head of the channel, the  *)
(* loop over a batch).                                                     *)
LEMMA HeadTail ==
  ASSUME NEW S, NEW q \in Seq(S), q # <<>>
  PROVE  /\ Head(q) \in S /\ Tail(q) \in Seq(S) /\ Len(Tail(q)) = Len(q) - 1
         /\ Head(q) = q[1] /\ 1 \in DOMAIN q
         /\ \A i \in DOMAIN Tail(q) : i + 1 \in DOMAIN q /\ Tail(q)[i] = q[i + 1]
         /\ \A i \in DOMAIN q : q[i] = Head(q) \/ (i - 1 \in DOMAIN Tail(q) /\ q[i] = Tail(q)[i - 1])
OBVIOUS

(* An element at the end of a list.                                        *)
LEMMA AppendProperties ==
  ASSUME NEW S, NEW q \in Seq(S), NEW x \in S
  PROVE  /\ Append(q, x) \in Seq(S) /\ Len(Append(q, x)) = Len(q) + 1
         /\ \A i \in DOMAIN q : i \in DOMAIN Append(q, x) /\ Append(q, x)[i] = q[i]
         /\ Len(q) + 1 \in DOMAIN Append(q, x) /\ Append(q, x)[Len(q) + 1] = x
         /\ \A i \in DOMAIN Append(q, x) : Append(q, x)[i] = x \/ (i \in DOMAIN q /\ Append(q, x)[i] = q[i])
OBVIOUS

(* AddSamples keeps the end of the list, within the bound.                 *)
LEMMA LatestProperties ==
  ASSUME NEW p \in Seq(Sample), NEW q \in Seq(Sample)
  PROVE  LET list == Latest(p \o q) IN
         /\ list \in Seq(Sample) /\ Len(list) <= Keep
         /\ \A i \in DOMAIN list :
              \/ \E j \in DOMAIN p : list[i] = p[j]
              \/ \E j \in DOMAIN q : list[i] = q[j]
<1> DEFINE r == p \o q
           m == Greatest(1, Len(r) - Keep + 1)
<1>1. /\ r \in Seq(Sample) /\ Len(r) = Len(p) + Len(q)
      /\ \A i \in DOMAIN r : \/ i \in DOMAIN p /\ r[i] = p[i]
                             \/ i - Len(p) \in DOMAIN q /\ r[i] = q[i - Len(p)]
  OBVIOUS
<1>2. Keep \in Nat \ {0}
  BY IngestionAssumption DEF IngestionAssumption
<1> HIDE DEF r
<1>3. m \in Nat \ {0} /\ Len(r) - m + 1 <= Keep /\ (m = 1 \/ m <= Len(r))
  BY <1>1, <1>2 DEF Greatest
<1> HIDE DEF m
<1>4. /\ SubSeq(r, m, Len(r)) \in Seq(Sample)
      /\ Len(SubSeq(r, m, Len(r))) <= Keep
      /\ \A i \in DOMAIN SubSeq(r, m, Len(r)) :
           m + i - 1 \in DOMAIN r /\ SubSeq(r, m, Len(r))[i] = r[m + i - 1]
  BY <1>1, <1>2, <1>3
<1>5. Latest(p \o q) = SubSeq(r, m, Len(r))
  BY DEF Latest, r, m
<1> HIDE DEF Latest
<1> QED  BY <1>1, <1>4, <1>5
-----------------------------------------------------------------------------
(***************************************************************************)
(* The pipeline's invariant.                                               *)
(***************************************************************************)
(* Nothing is under way at the start.                                      *)
LEMMA PipelineInit == IngestionInit => Pipeline
<1> SUFFICES ASSUME IngestionInit PROVE Pipeline
  OBVIOUS
<1>1. PipelineTypeOK /\ WorkersOK
  BY NoCallProperties, IngestionAssumption
  DEF IngestionInit, PipelineTypeOK, WorkersOK, NoEvaluation, IngestionAssumption
<1>2. StreamCopies
  BY DEF IngestionInit, Init, Idle, StreamCopies, At
<1>3. \A c \in Clients : SoundCall(c)
  <2> SUFFICES ASSUME NEW c \in Clients PROVE SoundCall(c)
    OBVIOUS
  <2>1. ingest[c] = NoCall
    BY DEF IngestionInit
  <2>2. Cached(c) = {} /\ ingest[c].result = <<>> /\ ingest[c].at # "submit"
    BY <2>1, NoCallProperties DEF Cached
  <2> QED  BY <2>2 DEF SoundCall
<1>4. SamplesKeepDevice
  BY DEF IngestionInit, SamplesKeepDevice, NoEvaluation
<1> QED  BY <1>1, <1>2, <1>3, <1>4 DEF Pipeline

(* A call that does not move stays sound.                                  *)
LEMMA SoundStays ==
  ASSUME TypeInv, Pipeline, [Next]_vars, NEW c \in Clients, ingest'[c] = ingest[c]
  PROVE  SoundCall(c)'
<1>a. ingest[c] \in Call /\ SoundCall(c) /\ StreamCopies
  BY DEF Pipeline, PipelineTypeOK
<1>1. Cached(c)' = Cached(c)
  BY DEF Cached
<1>2. ASSUME NEW s \in Cached(c), NEW x \in {ingest[c].cache[s]} PROVE CopyOf(x)' /\ x.id = s
  <2>1. CopyOf(x) /\ x.id = s /\ s \in StreamIDs
    BY <1>a DEF SoundCall, Cached
  <2> QED  BY <1>a, <2>1, OfStreamStays DEF CopyOf
<1>3. ASSUME NEW i \in DOMAIN ingest[c].result, NEW x \in {ingest[c].result[i]}
      PROVE  OfStream(x.stream, x.device)'
  <2>1. OfStream(x.stream, x.device)
    BY <1>a DEF SoundCall
  <2>2. ingest[c].result \in Seq(Sample)
    BY <1>a DEF Call
  <2>3. ingest[c].result[i] \in Sample
    BY <2>2
  <2>4. x.stream \in StreamIDs
    BY <2>3 DEF Sample
  <2> QED  BY <1>a, <2>1, <2>4, OfStreamStays
<1> QED  BY <1>a, <1>1, <1>2, <1>3 DEF SoundCall, CopyOf, OfStream

(* Samples, jobs and evaluations keep the device of their stream.          *)
LEMMA DevicesStay ==
  ASSUME TypeInv, Pipeline, [Next]_vars
  PROVE  /\ \A i \in DOMAIN samples : KeepsDevice(samples[i])
         /\ \A i \in DOMAIN jobs : KeepsDevice(jobs[i])
         /\ \A w \in Workers : worker[w].at = "job" => KeepsDevice(worker[w].job)
<1>a. /\ samples \in Seq(Sample) /\ jobs \in Seq(Job) /\ StreamCopies /\ SamplesKeepDevice
      /\ \A w \in Workers : worker[w].at = "job" => worker[w].job \in Job
  BY DEF Pipeline, PipelineTypeOK
<1>b. ASSUME NEW x, x.stream \in StreamIDs, OfStream(x.stream, x.device) PROVE KeepsDevice(x)
  <2>1. OfStream(x.stream, x.device)'
    BY <1>a, <1>b, OfStreamStays
  <2> QED  BY <2>1 DEF OfStream, KeepsDevice
<1>1. ASSUME NEW i \in DOMAIN samples PROVE KeepsDevice(samples[i])
  <2>1. samples[i] \in Sample
    BY <1>a
  <2> QED  BY <1>a, <1>b, <2>1 DEF SamplesKeepDevice, Sample
<1>2. ASSUME NEW i \in DOMAIN jobs PROVE KeepsDevice(jobs[i])
  <2>1. jobs[i] \in Job
    BY <1>a
  <2> QED  BY <1>a, <1>b, <2>1 DEF SamplesKeepDevice, Job
<1>3. ASSUME NEW w \in Workers, worker[w].at = "job" PROVE KeepsDevice(worker[w].job)
  BY <1>a, <1>b, <1>3 DEF SamplesKeepDevice, Job
<1> QED  BY <1>1, <1>2, <1>3

(* After the step, x is still a copy of the stream it was read from.       *)
KeepsCopy(x) == x \in Stream /\ streams'[x.id] # None /\ streams'[x.id].device = x.device

(* What a call holds stays sound, whatever the step does to the records.   *)
LEMMA HeldStays ==
  ASSUME TypeInv, Pipeline, [Next]_vars, NEW c \in Clients
  PROVE  /\ ingest[c].inputs \in Seq(Input) /\ ingest[c].result \in Seq(Sample)
         /\ ingest[c].cache \in [StreamIDs -> Stream \cup {None}]
         /\ \A s \in StreamIDs : ingest[c].cache[s] # None =>
              ingest[c].cache[s].id = s /\ KeepsCopy(ingest[c].cache[s])
         /\ \A i \in DOMAIN ingest[c].result : KeepsDevice(ingest[c].result[i])
<1>a. ingest[c] \in Call /\ SoundCall(c) /\ StreamCopies
  BY DEF Pipeline, PipelineTypeOK
<1>1. /\ ingest[c].inputs \in Seq(Input) /\ ingest[c].result \in Seq(Sample)
      /\ ingest[c].cache \in [StreamIDs -> Stream \cup {None}]
  BY <1>a DEF Call
<1>2. ASSUME NEW s \in StreamIDs, ingest[c].cache[s] # None
      PROVE  ingest[c].cache[s].id = s /\ KeepsCopy(ingest[c].cache[s])
  <2>1. CopyOf(ingest[c].cache[s]) /\ ingest[c].cache[s].id = s
    BY <1>a, <1>2 DEF SoundCall, Cached
  <2>2. OfStream(s, ingest[c].cache[s].device)
    BY <2>1 DEF CopyOf
  <2>3. ASSUME NEW d, OfStream(s, d) PROVE streams'[s] # None /\ streams'[s].device = d
    <3>1. OfStream(s, d)'
      BY <1>a, <2>3, OfStreamStays
    <3> QED  BY <3>1 DEF OfStream
  <2> QED  BY <2>1, <2>2, <2>3 DEF CopyOf, KeepsCopy
<1>3. ASSUME NEW i \in DOMAIN ingest[c].result PROVE KeepsDevice(ingest[c].result[i])
  <2> DEFINE x == ingest[c].result[i]
  <2>1. OfStream(x.stream, x.device)
    BY <1>a DEF SoundCall
  <2>2. x \in Sample
    BY <1>1
  <2>3. x.stream \in StreamIDs
    BY <2>2 DEF Sample
  <2>4. ASSUME NEW s \in StreamIDs, NEW d, OfStream(s, d) PROVE streams'[s] # None /\ streams'[s].device = d
    <3>1. OfStream(s, d)'
      BY <1>a, <2>4, OfStreamStays
    <3> QED  BY <3>1 DEF OfStream
  <2> QED  BY <2>1, <2>3, <2>4 DEF KeepsDevice
<1> QED  BY <1>1, <1>2, <1>3

(* A call that goes on leaves all calls sound if what it holds then is.    *)
LEMMA SoundGo ==
  ASSUME TypeInv, Pipeline, [Next]_vars, NEW c \in Clients, NEW place \in Places,
         NEW inputs \in Seq(Input), NEW cache \in [StreamIDs -> Stream \cup {None}],
         NEW result \in Seq(Sample), NEW s \in StreamIDs \cup {None},
         Go(c, place, inputs, cache, result, s),
         \A x \in StreamIDs : cache[x] # None => cache[x].id = x /\ KeepsCopy(cache[x]),
         \A i \in DOMAIN result : KeepsDevice(result[i]),
         place = "submit" => s \in StreamIDs /\ cache[s] # None
  PROVE  ingest' \in [Clients -> Call] /\ \A b \in Clients : SoundCall(b)'
<1>1. /\ ingest' \in [Clients -> Call]
      /\ ingest'[c].at = place /\ ingest'[c].cache = cache
      /\ ingest'[c].result = result /\ ingest'[c].stream = s
      /\ \A b \in Clients \ {c} : ingest'[b] = ingest[b]
  BY GoCall DEF Pipeline, PipelineTypeOK
<1>2. \A x \in Cached(c)' : CopyOf(cache[x])' /\ cache[x].id = x
  BY <1>1 DEF Cached, CopyOf, OfStream, KeepsCopy
<1>3. \A i \in DOMAIN result : OfStream(result[i].stream, result[i].device)'
  BY DEF KeepsDevice, OfStream
<1>4. place = "submit" => s \in Cached(c)'
  BY <1>1 DEF Cached
<1>5. SoundCall(c)'
  BY <1>1, <1>2, <1>3, <1>4 DEF SoundCall, CopyOf, OfStream
<1> QED  BY <1>1, <1>5, SoundStays

(* So does a call that ends.                                               *)
LEMMA SoundEnd ==
  ASSUME TypeInv, Pipeline, [Next]_vars, NEW c \in Clients, End(c)
  PROVE  ingest' \in [Clients -> Call] /\ \A b \in Clients : SoundCall(b)'
<1>1. /\ ingest' \in [Clients -> Call] /\ ingest'[c] = NoCall
      /\ \A b \in Clients \ {c} : ingest'[b] = ingest[b]
  BY EndCall DEF Pipeline, PipelineTypeOK
<1>2. Cached(c)' = {} /\ ingest'[c].result = <<>> /\ ingest'[c].at # "submit"
  BY <1>1, NoCallProperties DEF Cached
<1>3. SoundCall(c)'
  BY <1>2 DEF SoundCall
<1> QED  BY <1>1, <1>3, SoundStays

(* What a step that keeps its variables' types and devices leaves true.    *)
LEMMA PipelineKept ==
  ASSUME TypeInv, Pipeline, [Next]_vars,
         ingest' \in [Clients -> Call], \A c \in Clients : SoundCall(c)',
         samples' \in Seq(Sample), Len(samples') <= Keep,
         \A i \in DOMAIN samples' : KeepsDevice(samples'[i]),
         jobs' \in Seq(Job), Len(jobs') <= Buffer, \A i \in DOMAIN jobs' : KeepsDevice(jobs'[i]),
         DOMAIN worker' = Workers,
         \A w \in Workers : worker'[w].at = "job" =>
           worker'[w].job \in Job /\ KeepsDevice(worker'[w].job),
         now' \in Nat, batches' \in Nat, waiting' \in SUBSET StreamIDs
  PROVE  Pipeline'
<1>1. StreamCopies'
  BY StreamCopiesNext DEF Pipeline
<1>2. SamplesKeepDevice'
  BY DEF SamplesKeepDevice, KeepsDevice, OfStream
<1>3. PipelineTypeOK' /\ WorkersOK'
  BY DEF PipelineTypeOK, WorkersOK
<1> QED  BY <1>1, <1>2, <1>3 DEF Pipeline

(* Every step of the pipeline keeps the invariant.                         *)
LEMMA PipelineNext == TypeInv /\ Pipeline /\ [IngestionNext]_allVars => Pipeline'
<1> SUFFICES ASSUME TypeInv, Pipeline, [IngestionNext]_allVars PROVE Pipeline'
  OBVIOUS
<1>a. [Next]_vars
  BY RegistryStep
<1>b. /\ samples \in Seq(Sample) /\ Len(samples) <= Keep
      /\ jobs \in Seq(Job) /\ Len(jobs) <= Buffer
      /\ ingest \in [Clients -> Call] /\ DOMAIN worker = Workers
      /\ \A w \in Workers : worker[w].at = "job" => worker[w].job \in Job
      /\ now \in Nat /\ batches \in Nat /\ waiting \in SUBSET StreamIDs
  BY DEF Pipeline, PipelineTypeOK, WorkersOK
<1>c. /\ \A i \in DOMAIN samples : KeepsDevice(samples[i])
      /\ \A i \in DOMAIN jobs : KeepsDevice(jobs[i])
      /\ \A w \in Workers : worker[w].at = "job" => KeepsDevice(worker[w].job)
  BY <1>a, DevicesStay
<1>d. ASSUME UNCHANGED ingest
      PROVE  ingest' \in [Clients -> Call] /\ \A c \in Clients : SoundCall(c)'
  BY <1>a, <1>b, <1>d, SoundStays
<1>e. <<>> \in Seq(Input) /\ <<>> \in Seq(Sample) /\ DOMAIN <<>> = {}
  OBVIOUS
<1>1. CASE UNCHANGED <<samples, jobs, ingest, worker, batches, waiting>> /\ now' \in Nat
  BY <1>1, <1>a, <1>b, <1>c, <1>d, PipelineKept
(* Steps of a call that leave the lists as they are.                       *)
<1>2. ASSUME ingest' \in [Clients -> Call] /\ \A c \in Clients : SoundCall(c)',
             UNCHANGED <<samples, jobs, worker, now>>, batches' \in Nat, waiting' \in SUBSET StreamIDs
      PROVE  Pipeline'
  BY <1>2, <1>a, <1>b, <1>c, PipelineKept
<1>3. ASSUME NEW c \in Clients, IngestTelemetry(c) PROVE Pipeline'
  <2>1. PICK batch \in Batches :
          ingest' = [ingest EXCEPT ![c] =
            [at |-> "loop", inputs |-> batch, cache |-> NoCache, result |-> <<>>,
             stream |-> None, retired |-> {d \in Seeded : devices[d].status = "retired"}]]
    BY <1>3 DEF IngestTelemetry
  <2>2. batch \in Seq(Input) /\ NoCache \in [StreamIDs -> Stream \cup {None}]
    BY IngestionAssumption DEF IngestionAssumption, NoCache
  <2>3. ingest' \in [Clients -> Call]
    <3>1. [at |-> "loop", inputs |-> batch, cache |-> NoCache, result |-> <<>>,
           stream |-> None, retired |-> {d \in Seeded : devices[d].status = "retired"}] \in Call
      BY <1>e, <2>2 DEF Call, Places
    <3> QED  BY <1>b, <2>1, <3>1
  <2>4. /\ ingest'[c].at # "submit" /\ ingest'[c].cache = NoCache /\ ingest'[c].result = <<>>
        /\ \A b \in Clients \ {c} : ingest'[b] = ingest[b]
    BY <1>b, <2>1
  <2>5. SoundCall(c)'
    BY <1>e, <2>4 DEF SoundCall, Cached, NoCache
  <2>6. \A b \in Clients : SoundCall(b)'
    BY <1>a, <2>4, <2>5, SoundStays
  <2>7. UNCHANGED <<samples, jobs, worker, now, waiting>> /\ batches' = batches + 1
    BY <1>3 DEF IngestTelemetry
  <2> QED  BY <1>2, <1>b, <2>3, <2>6, <2>7
<1>4. ASSUME NEW c \in Clients, GetStream(c) PROVE Pipeline'
  <2> DEFINE s == Head(ingest[c].inputs).stream
             call == ingest[c]
  <2>1. UNCHANGED <<vars, samples, jobs, worker, now, batches, waiting>>
    BY <1>4 DEF GetStream
  <2>2. CASE End(c)
    BY <1>2, <1>a, <1>b, <2>1, <2>2, SoundEnd
  <2>3. CASE ~End(c)
    <3>1. /\ streams[s] # None /\ call.inputs # <<>>
          /\ Go(c, "loop", call.inputs, [call.cache EXCEPT ![s] = streams[s]], call.result, None)
      BY <1>4, <2>3 DEF GetStream
    <3>2. /\ call.inputs \in Seq(Input) /\ call.result \in Seq(Sample)
          /\ call.cache \in [StreamIDs -> Stream \cup {None}]
          /\ \A x \in StreamIDs : call.cache[x] # None => call.cache[x].id = x /\ KeepsCopy(call.cache[x])
          /\ \A i \in DOMAIN call.result : KeepsDevice(call.result[i])
      BY <1>a, HeldStays
    <3>3. Head(call.inputs) \in Input
      BY <3>1, <3>2, HeadTail
    <3>4. s \in StreamIDs
      BY <3>3 DEF Input
    <3>5. streams[s] \in Stream /\ streams[s].id = s /\ streams' = streams
      BY <2>1, <3>1, <3>4 DEF TypeInv, TypeOK, vars
    <3>6. KeepsCopy(streams[s])
      BY <3>1, <3>5 DEF KeepsCopy
    <3> DEFINE cache == [call.cache EXCEPT ![s] = streams[s]]
    <3>7. /\ cache \in [StreamIDs -> Stream \cup {None}]
          /\ \A x \in StreamIDs : cache[x] # None => cache[x].id = x /\ KeepsCopy(cache[x])
      BY <3>2, <3>4, <3>5, <3>6
    <3>8. "loop" \in Places /\ "loop" # "submit"
      BY DEF Places
    <3>9. Go(c, "loop", call.inputs, cache, call.result, None)
      BY <3>1
    <3> HIDE DEF cache, call
    <3>10. ingest' \in [Clients -> Call] /\ \A b \in Clients : SoundCall(b)'
      BY <1>a, <3>2, <3>7, <3>8, <3>9, SoundGo
    <3> QED  BY <1>2, <1>b, <2>1, <3>10
  <2> QED  BY <2>2, <2>3
<1>5. ASSUME NEW c \in Clients, GetDevice(c) PROVE Pipeline'
  <2> DEFINE call == ingest[c]
             input == Head(call.inputs)
             stream == call.cache[input.stream]
  <2>1. UNCHANGED <<vars, samples, jobs, worker, now, batches, waiting>>
    BY <1>5 DEF GetDevice
  <2>2. CASE End(c)
    BY <1>2, <1>a, <1>b, <2>1, <2>2, SoundEnd
  <2>3. CASE ~End(c)
    <3>1. /\ call.inputs # <<>> /\ stream # None
          /\ Go(c, "loop", Tail(call.inputs), call.cache,
                Append(call.result, NewSample(input, stream)), None)
      BY <1>5, <2>3 DEF GetDevice
    <3>2. /\ call.inputs \in Seq(Input) /\ call.result \in Seq(Sample)
          /\ call.cache \in [StreamIDs -> Stream \cup {None}]
          /\ \A x \in StreamIDs : call.cache[x] # None => call.cache[x].id = x /\ KeepsCopy(call.cache[x])
          /\ \A i \in DOMAIN call.result : KeepsDevice(call.result[i])
      BY <1>a, HeldStays
    <3>3. input \in Input /\ Tail(call.inputs) \in Seq(Input)
      BY <3>1, <3>2, HeadTail
    <3>4. input.stream \in StreamIDs /\ input.value \in Int /\ input.good \in BOOLEAN /\ input.observed \in Nat
      BY <3>3 DEF Input
    <3>5. stream \in Stream /\ KeepsCopy(stream)
      BY <3>1, <3>2, <3>4 DEF KeepsCopy
    <3> DEFINE x == NewSample(input, stream)
    <3>6. x \in Sample /\ KeepsDevice(x)
      BY <3>4, <3>5 DEF NewSample, Sample, Stream, KeepsDevice, KeepsCopy
    <3> DEFINE result == Append(call.result, x)
    <3>7. Go(c, "loop", Tail(call.inputs), call.cache, result, None)
      BY <3>1
    <3> HIDE DEF call, input, x
    <3>8. result \in Seq(Sample) /\ \A i \in DOMAIN result : KeepsDevice(result[i])
      BY <3>2, <3>6, AppendProperties
    <3>9. "loop" \in Places /\ "loop" # "submit"
      BY DEF Places
    <3> HIDE DEF result
    <3>10. ingest' \in [Clients -> Call] /\ \A b \in Clients : SoundCall(b)'
      BY <1>a, <3>2, <3>3, <3>7, <3>8, <3>9, SoundGo
    <3> QED  BY <1>2, <1>b, <2>1, <3>10
  <2> QED  BY <2>2, <2>3
<1>6. ASSUME NEW c \in Clients, AddSamples(c) PROVE Pipeline'
  <2> DEFINE call == ingest[c]
  <2>1. /\ UNCHANGED <<vars, jobs, worker, now, batches>>
        /\ samples' = Latest(samples \o call.result)
        /\ Go(c, "touch", <<>>, call.cache, <<>>, None)
        /\ waiting' = waiting \cup Cached(c)
    BY <1>6 DEF AddSamples
  <2>2. /\ call.result \in Seq(Sample)
        /\ call.cache \in [StreamIDs -> Stream \cup {None}]
        /\ \A x \in StreamIDs : call.cache[x] # None => call.cache[x].id = x /\ KeepsCopy(call.cache[x])
        /\ \A i \in DOMAIN call.result : KeepsDevice(call.result[i])
    BY <1>a, HeldStays
  <2>3. "touch" \in Places /\ "touch" # "submit" /\ waiting' \in SUBSET StreamIDs
    BY <1>b, <2>1 DEF Places, Cached
  <2> HIDE DEF call
  <2>4. ingest' \in [Clients -> Call] /\ \A b \in Clients : SoundCall(b)'
    BY <1>a, <1>e, <2>1, <2>2, <2>3, SoundGo
  <2>5. /\ samples' \in Seq(Sample) /\ Len(samples') <= Keep
        /\ \A i \in DOMAIN samples' : \/ \E j \in DOMAIN samples : samples'[i] = samples[j]
                                      \/ \E j \in DOMAIN call.result : samples'[i] = call.result[j]
    BY <1>b, <2>1, <2>2, LatestProperties
  <2>6. \A i \in DOMAIN samples' : KeepsDevice(samples'[i])
    BY <1>c, <2>2, <2>5 DEF KeepsDevice
  <2> QED  BY <1>a, <1>b, <1>c, <2>1, <2>3, <2>4, <2>5, <2>6, PipelineKept
<1>7. ASSUME NEW c \in Clients, TouchNext(c) PROVE Pipeline'
  <2> DEFINE call == ingest[c]
  <2>1. PICK s \in Cached(c) :
          /\ Go(c, "submit", <<>>, call.cache, <<>>, s)
          /\ UNCHANGED <<samples, jobs, worker, now, batches, waiting>>
    BY <1>7 DEF TouchNext
  <2>2. /\ call.cache \in [StreamIDs -> Stream \cup {None}]
        /\ \A x \in StreamIDs : call.cache[x] # None => call.cache[x].id = x /\ KeepsCopy(call.cache[x])
    BY <1>a, HeldStays
  <2>3. "submit" \in Places /\ s \in StreamIDs /\ call.cache[s] # None
    BY <2>1 DEF Places, Cached
  <2> HIDE DEF call
  <2>4. ingest' \in [Clients -> Call] /\ \A b \in Clients : SoundCall(b)'
    BY <1>a, <1>e, <2>1, <2>2, <2>3, SoundGo
  <2> QED  BY <1>2, <1>b, <2>1, <2>4
<1>8. ASSUME NEW c \in Clients, SubmitEvaluation(c) PROVE Pipeline'
  <2> DEFINE call == ingest[c]
             s    == call.stream
             job  == [stream |-> s, device |-> call.cache[s].device]
  <2>1. /\ UNCHANGED <<vars, samples, worker, now, batches>>
        /\ call.at = "submit"
        /\ jobs' = IF Len(jobs) < Buffer THEN Append(jobs, job) ELSE jobs
        /\ waiting' = IF Len(jobs) < Buffer THEN waiting ELSE waiting \ {s}
        /\ \/ End(c)
           \/ Go(c, "touch", <<>>, [call.cache EXCEPT ![s] = None], <<>>, None)
    BY <1>8 DEF SubmitEvaluation, AtPlace
  <2>2. /\ call.cache \in [StreamIDs -> Stream \cup {None}]
        /\ \A x \in StreamIDs : call.cache[x] # None => call.cache[x].id = x /\ KeepsCopy(call.cache[x])
    BY <1>a, HeldStays
  <2>3. s \in StreamIDs /\ call.cache[s] # None
    BY <2>1 DEF Pipeline, SoundCall, Cached
  <2>4. job \in Job /\ KeepsDevice(job)
    BY <2>2, <2>3 DEF Job, KeepsDevice, KeepsCopy, Stream
  <2> DEFINE cache == [call.cache EXCEPT ![s] = None]
  <2>5. /\ cache \in [StreamIDs -> Stream \cup {None}]
        /\ \A x \in StreamIDs : cache[x] # None => cache[x].id = x /\ KeepsCopy(cache[x])
    BY <2>2, <2>3
  <2>6. End(c) \/ Go(c, "touch", <<>>, cache, <<>>, None)
    BY <2>1
  <2>7. "touch" \in Places /\ "touch" # "submit"
    BY DEF Places
  <2> HIDE DEF job, s, cache
  <2>8. ingest' \in [Clients -> Call] /\ \A b \in Clients : SoundCall(b)'
    BY <1>a, <1>e, <2>5, <2>6, <2>7, SoundGo, SoundEnd
  <2>9. jobs' \in Seq(Job) /\ Len(jobs') <= Buffer
    BY <1>b, <2>1, <2>4, AppendProperties, IngestionAssumption DEF IngestionAssumption
  <2>10. \A i \in DOMAIN jobs' : KeepsDevice(jobs'[i])
    <3>1. CASE jobs' = jobs
      BY <1>c, <3>1 DEF KeepsDevice
    <3>2. CASE jobs' = Append(jobs, job)
      BY <1>b, <1>c, <2>4, <3>2, AppendProperties DEF KeepsDevice
    <3> QED  BY <2>1, <3>1, <3>2
  <2>11. waiting' \in SUBSET StreamIDs
    BY <1>b, <2>1
  <2> QED  BY <1>a, <1>b, <1>c, <2>1, <2>8, <2>9, <2>10, <2>11, PipelineKept
<1>9. ASSUME NEW w \in Workers, TakeJob(w) PROVE Pipeline'
  <2>1. /\ UNCHANGED <<samples, ingest, now, batches, waiting>>
        /\ jobs # <<>> /\ jobs' = Tail(jobs)
        /\ worker' = [worker EXCEPT ![w] =
             [at |-> "job", job |-> Head(jobs), rules |-> <<>>, window |-> None, found |-> <<>>]]
    BY <1>9 DEF TakeJob
  <2>2. /\ Head(jobs) \in Job /\ jobs' \in Seq(Job) /\ Len(jobs') <= Buffer
        /\ Head(jobs) = jobs[1] /\ 1 \in DOMAIN jobs
        /\ \A i \in DOMAIN jobs' : i + 1 \in DOMAIN jobs /\ jobs'[i] = jobs[i + 1]
    BY <1>b, <2>1, HeadTail, IngestionAssumption DEF IngestionAssumption
  <2>3. KeepsDevice(Head(jobs)) /\ \A i \in DOMAIN jobs' : KeepsDevice(jobs'[i])
    BY <1>c, <2>2 DEF KeepsDevice
  <2>4. /\ DOMAIN worker' = Workers /\ worker'[w].job = Head(jobs)
        /\ \A v \in Workers \ {w} : worker'[v] = worker[v]
    BY <1>b, <2>1
  <2>5. \A v \in Workers : worker'[v].at = "job" => worker'[v].job \in Job /\ KeepsDevice(worker'[v].job)
    BY <1>b, <1>c, <2>2, <2>3, <2>4 DEF KeepsDevice
  <2> QED  BY <1>a, <1>b, <1>c, <1>d, <2>1, <2>2, <2>3, <2>4, <2>5, PipelineKept
<1>10. ASSUME NEW w \in Workers, EvaluateTelemetry(w) \/ EndEvaluation(w) PROVE Pipeline'
  <2>1. /\ UNCHANGED <<samples, jobs, ingest, now, batches>> /\ waiting' \subseteq waiting
        /\ \E x : x.at # "job" /\ worker' = [worker EXCEPT ![w] = x]
    <3>1. CASE EndEvaluation(w)
      BY <3>1 DEF EndEvaluation, Drop, NoEvaluation
    <3>2. CASE EvaluateTelemetry(w)
      BY <3>2 DEF EvaluateTelemetry, Drop, NoEvaluation
    <3> QED  BY <1>10, <3>1, <3>2
  <2>2. /\ DOMAIN worker' = Workers /\ worker'[w].at # "job"
        /\ \A v \in Workers \ {w} : worker'[v] = worker[v]
    BY <1>b, <2>1
  <2>3. \A v \in Workers : worker'[v].at = "job" => worker'[v].job \in Job /\ KeepsDevice(worker'[v].job)
    BY <1>b, <1>c, <2>2 DEF KeepsDevice
  <2> QED  BY <1>a, <1>b, <1>c, <1>d, <2>1, <2>2, <2>3, PipelineKept
<1>11. ASSUME NEW c \in Clients, RegistryCall(c) PROVE Pipeline'
  BY <1>1, <1>11, <1>b DEF RegistryCall, ingestionVars
<1>12. CASE Tick
  BY <1>1, <1>12, <1>b DEF Tick
<1>13. CASE UNCHANGED allVars
  BY <1>1, <1>13, <1>b DEF allVars, ingestionVars
<1> QED  BY <1>3, <1>4, <1>5, <1>6, <1>7, <1>8, <1>9, <1>10, <1>11, <1>12, <1>13 DEF IngestionNext

(* Copies, samples, jobs and evaluations name the device of their stream   *)
(* in every reachable state.                                               *)
THEOREM PipelineInvariant == IngestionSpec => [](TypeInv /\ Pipeline)
<1>1. IngestionInit => TypeInv /\ Pipeline
  BY TypeInit, PipelineInit DEF IngestionInit
<1>2. TypeInv /\ Pipeline /\ [IngestionNext]_allVars => TypeInv' /\ Pipeline'
  BY RegistryStep, TypeNext, PipelineNext
<1> QED  BY <1>1, <1>2, PTL DEF IngestionSpec

(* Samples, jobs and evaluations belong to the device of their stream      *)
(* (service/telemetry.go IngestTelemetry).                                 *)
THEOREM SamplesKeepTheirDevice == IngestionSpec => []SamplesKeepDevice
<1>1. Pipeline => SamplesKeepDevice
  BY DEF Pipeline
<1> QED  BY <1>1, PipelineInvariant, PTL

(* The registry keeps its types under ingestion, and the pipeline its own; *)
(* the list and the channel keep their bounds (store/memory.go AddSamples, *)
(* queue/queue.go).                                                        *)
THEOREM PipelineTypeCorrect == IngestionSpec => [](TypeOK /\ PipelineTypeOK)
<1>1. TypeInv /\ Pipeline => TypeOK /\ PipelineTypeOK
  BY DEF TypeInv, Pipeline
<1> QED  BY <1>1, PipelineInvariant, PTL

(* Ingestion implements the registry: what it does to devices and streams  *)
(* is what calls of the registry do.                                       *)
THEOREM IngestionImplementsRegistry == IngestionSpec => Spec
<1>1. IngestionInit => Init
  BY DEF IngestionInit
<1>2. TypeInv /\ Pipeline /\ [IngestionNext]_allVars => [Next]_vars
  BY RegistryStep
<1> QED  BY <1>1, <1>2, PipelineInvariant, PTL DEF IngestionSpec, Spec

(* So versions count the writes under ingestion too.                       *)
THEOREM VersionsCountedIngesting == IngestionSpec => VersionsCount
BY IngestionImplementsRegistry, VersionsCounted, PTL

(* And the touches of ingestion keep the lifecycle of seeded devices.      *)
THEOREM SeededLifecycleIngesting == IngestionSpec => SeededLifecycle
BY IngestionImplementsRegistry, SeededImplementLifecycle, PTL

(* And what is retired or disabled stays so under ingestion, but for calls *)
(* that read it before.                                                    *)
THEOREM FinalStaysIngesting == IngestionSpec => FinalStays
BY IngestionImplementsRegistry, FinalRecordsStay, PTL
-----------------------------------------------------------------------------
(***************************************************************************)
(* No stored sample is forgotten.                                          *)
(*                                                                         *)
(* The streams that wait are those a call still has to submit, those in    *)
(* the channel and those a worker has taken; a step that takes a stream    *)
(* from one of these puts it into the next, or ends its wait.              *)
(***************************************************************************)
LEMMA WaitingNext ==
  ASSUME TypeInv, Pipeline, NoSampleForgotten, [IngestionNext]_allVars
  PROVE  NoSampleForgotten'
<1>a. /\ jobs \in Seq(Job) /\ ingest \in [Clients -> Call] /\ DOMAIN worker = Workers
      /\ waiting \in SUBSET StreamIDs
  BY DEF Pipeline, PipelineTypeOK, WorkersOK
<1>b. ASSUME NEW s \in waiting PROVE JobComes(s)
  BY DEF NoSampleForgotten
<1>1. CASE UNCHANGED <<jobs, ingest, worker, waiting>>
  BY <1>1 DEF NoSampleForgotten, JobComes, Cached
(* Steps of a call that has nothing to submit.                             *)
<1>2. ASSUME NEW c \in Clients, IngestTelemetry(c) \/ GetStream(c) \/ GetDevice(c)
      PROVE  NoSampleForgotten'
  <2>1. ingest[c].at \notin {"touch", "submit"} /\ UNCHANGED <<jobs, worker, waiting>>
    BY <1>2 DEF IngestTelemetry, GetStream, GetDevice, AtPlace
  <2>2. \A b \in Clients \ {c} : ingest'[b] = ingest[b]
    BY <1>a, <1>2 DEF IngestTelemetry, GetStream, GetDevice, Go, End
  <2> QED  BY <2>1, <2>2 DEF NoSampleForgotten, JobComes, Cached
(* Steps of a call that keeps its streams.                                 *)
<1>3. ASSUME NEW c \in Clients, AddSamples(c) \/ TouchNext(c)
      PROVE  NoSampleForgotten'
  <2>1. /\ UNCHANGED <<jobs, worker>> /\ waiting' \subseteq waiting \cup Cached(c)
        /\ ingest'[c].at \in {"touch", "submit"} /\ ingest'[c].cache = ingest[c].cache
        /\ \A b \in Clients \ {c} : ingest'[b] = ingest[b]
    <3>1. CASE AddSamples(c)
      BY <1>a, <3>1 DEF AddSamples, Go
    <3>2. CASE TouchNext(c)
      BY <1>a, <3>2 DEF TouchNext, Go
    <3> QED  BY <1>3, <3>1, <3>2
  <2>2. Cached(c)' = Cached(c)
    BY <2>1 DEF Cached
  <2>3. ASSUME NEW s \in waiting PROVE JobComes(s)'
    BY <1>b, <2>1, <2>2 DEF JobComes, Cached
  <2>4. ASSUME NEW s \in Cached(c) PROVE JobComes(s)'
    BY <2>1, <2>2 DEF JobComes
  <2> QED  BY <2>1, <2>3, <2>4 DEF NoSampleForgotten
<1>4. ASSUME NEW c \in Clients, SubmitEvaluation(c)
      PROVE  NoSampleForgotten'
  <2> DEFINE s   == ingest[c].stream
             job == [stream |-> s, device |-> ingest[c].cache[s].device]
  <2>1. /\ UNCHANGED worker /\ ingest[c].at = "submit"
        /\ jobs' = IF Len(jobs) < Buffer THEN Append(jobs, job) ELSE jobs
        /\ waiting' = IF Len(jobs) < Buffer THEN waiting ELSE waiting \ {s}
        /\ \/ Cached(c) = {s} /\ End(c)
           \/ Go(c, "touch", <<>>, [ingest[c].cache EXCEPT ![s] = None], <<>>, None)
    BY <1>4 DEF SubmitEvaluation, AtPlace
  <2>2. \A b \in Clients \ {c} : ingest'[b] = ingest[b]
    BY <1>a, <2>1 DEF Go, End
  <2>3. s \in Cached(c) /\ s \in StreamIDs
    BY <2>1 DEF Pipeline, SoundCall, Cached
  <2>4. ASSUME NEW x \in Cached(c) \ {s} PROVE ingest'[c].at = "touch" /\ x \in Cached(c)'
    <3>1. Go(c, "touch", <<>>, [ingest[c].cache EXCEPT ![s] = None], <<>>, None)
      BY <2>1
    <3>2. ingest'[c].at = "touch" /\ ingest'[c].cache = [ingest[c].cache EXCEPT ![s] = None]
      BY <1>a, <3>1 DEF Go
    <3>3. ingest[c].cache \in [StreamIDs -> Stream \cup {None}]
      BY <1>a DEF Call
    <3> HIDE DEF s
    <3> QED  BY <3>2, <3>3 DEF Cached
  <2>5. [stream |-> s, device |-> ingest[c].cache[s].device].stream = s
    OBVIOUS
  <2>6. job \in Job
    <3>1. CopyOf(ingest[c].cache[s])
      BY <2>3 DEF Pipeline, SoundCall
    <3> QED  BY <2>3, <3>1 DEF CopyOf, Stream, Job
  <2>7. job.stream = s
    BY <2>5
  <2> HIDE DEF s, job
  <2>8. \A i \in DOMAIN jobs : i \in DOMAIN jobs' /\ jobs'[i] = jobs[i]
    BY <1>a, <2>1, <2>6, AppendProperties
  <2>9. ASSUME NEW x \in waiting', x # s PROVE JobComes(x)'
    <3>1. JobComes(x)
      BY <1>b, <2>1, <2>9
    <3>2. CASE \E i \in DOMAIN jobs : jobs[i].stream = x
      BY <2>8, <3>2 DEF JobComes
    <3>3. CASE \E w \in Workers : worker[w].at = "job" /\ worker[w].job.stream = x
      BY <2>1, <3>3 DEF JobComes
    <3>4. ASSUME NEW b \in Clients, ingest[b].at \in {"touch", "submit"}, x \in Cached(b)
          PROVE  JobComes(x)'
      <4>1. CASE b = c
        BY <2>4, <2>9, <3>4, <4>1 DEF JobComes
      <4>2. CASE b # c
        BY <2>2, <3>4, <4>2 DEF JobComes, Cached
      <4> QED  BY <4>1, <4>2
    <3> QED  BY <3>1, <3>2, <3>3, <3>4 DEF JobComes
  <2>10. ASSUME NEW x \in waiting', x = s PROVE JobComes(x)'
    <3>1. jobs' = Append(jobs, job)
      BY <2>1, <2>10
    <3>2. \E i \in DOMAIN jobs' : jobs'[i].stream = x
      BY <1>a, <2>6, <2>7, <2>10, <3>1, AppendProperties
    <3> QED  BY <3>2 DEF JobComes
  <2> QED  BY <2>9, <2>10 DEF NoSampleForgotten
<1>5. ASSUME NEW w \in Workers, TakeJob(w)
      PROVE  NoSampleForgotten'
  <2>1. /\ worker[w].at = "idle" /\ jobs # <<>> /\ jobs' = Tail(jobs)
        /\ worker' = [worker EXCEPT ![w] =
             [at |-> "job", job |-> Head(jobs), rules |-> <<>>, window |-> None, found |-> <<>>]]
        /\ UNCHANGED <<ingest, waiting>>
    BY <1>5 DEF TakeJob
  <2>2. /\ worker'[w].at = "job" /\ worker'[w].job = Head(jobs)
        /\ \A v \in Workers \ {w} : worker'[v] = worker[v]
    BY <1>a, <2>1
  <2>3. \A i \in DOMAIN jobs : jobs[i] = Head(jobs) \/ (i - 1 \in DOMAIN jobs' /\ jobs[i] = jobs'[i - 1])
    BY <1>a, <2>1, HeadTail
  <2>4. ASSUME NEW s \in waiting PROVE JobComes(s)'
    <3>1. CASE \E i \in DOMAIN jobs : jobs[i].stream = s
      BY <2>2, <2>3, <3>1 DEF JobComes
    <3>2. CASE \E v \in Workers : worker[v].at = "job" /\ worker[v].job.stream = s
      BY <2>1, <2>2, <3>2 DEF JobComes
    <3>3. CASE \E c \in Clients : ingest[c].at \in {"touch", "submit"} /\ s \in Cached(c)
      BY <2>1, <3>3 DEF JobComes, Cached
    <3> QED  BY <1>b, <3>1, <3>2, <3>3 DEF JobComes
  <2> QED  BY <2>1, <2>4 DEF NoSampleForgotten
<1>6. ASSUME NEW w \in Workers, EvaluateTelemetry(w) \/ EndEvaluation(w)
      PROVE  NoSampleForgotten'
  <2>1. /\ UNCHANGED <<jobs, ingest>> /\ waiting' \subseteq waiting
        /\ worker[w].at = "job" => worker[w].job.stream \notin waiting'
        /\ \A v \in Workers \ {w} : worker'[v] = worker[v]
    <3>1. CASE EvaluateTelemetry(w)
      BY <1>a, <3>1 DEF EvaluateTelemetry, Drop
    <3>2. CASE EndEvaluation(w)
      BY <1>a, <3>2 DEF EndEvaluation, Drop
    <3> QED  BY <1>6, <3>1, <3>2
  <2> QED  BY <1>b, <2>1 DEF NoSampleForgotten, JobComes, Cached
<1>7. ASSUME NEW c \in Clients, RegistryCall(c) PROVE UNCHANGED <<jobs, ingest, worker, waiting>>
  BY <1>7 DEF RegistryCall, ingestionVars
<1>8. CASE Tick
  BY <1>1, <1>8 DEF Tick
<1>9. CASE UNCHANGED allVars
  BY <1>1, <1>9 DEF allVars, ingestionVars
<1> QED  BY <1>1, <1>2, <1>3, <1>4, <1>5, <1>6, <1>7, <1>8, <1>9 DEF IngestionNext

(* While no evaluation has followed the samples of a stream, its job is    *)
(* still to come; only a full queue loses it (service/telemetry.go:60).    *)
THEOREM NoSampleIsForgotten == IngestionSpec => []NoSampleForgotten
<1>1. IngestionInit => NoSampleForgotten
  BY DEF IngestionInit, NoSampleForgotten
<1>2. TypeInv /\ Pipeline /\ NoSampleForgotten /\ [IngestionNext]_allVars => NoSampleForgotten'
  BY WaitingNext
<1> QED  BY <1>1, <1>2, PipelineInvariant, PTL DEF IngestionSpec
-----------------------------------------------------------------------------
(***************************************************************************)
(* Retired devices are refused.                                            *)
(***************************************************************************)
(* A seeded device that is retired stays retired.                          *)
LEMMA RetiredStays ==
  ASSUME TypeInv, SeededInv, [Next]_vars, NEW d \in Seeded, devices[d].status = "retired"
  PROVE  devices'[d].status = "retired"
BY SeededWrite DEF LegalStep, DeviceAllowed

(* What a call knows to be retired stays so, and it accepts none of it.    *)
LEMMA RetiredNext ==
  ASSUME TypeInv, Pipeline, SeededInv, \A c \in Clients : NothingRetired(c), [IngestionNext]_allVars
  PROVE  \A c \in Clients : NothingRetired(c)'
<1>a. /\ [Next]_vars /\ ingest \in [Clients -> Call]
      /\ \A c \in Clients : ingest[c].retired \subseteq Seeded
  BY RegistryStep DEF Pipeline, PipelineTypeOK, Call
<1>b. ASSUME NEW c \in Clients, ingest'[c].retired = ingest[c].retired,
             \A i \in DOMAIN ingest'[c].result : ingest'[c].result[i].device \notin ingest[c].retired
      PROVE  NothingRetired(c)'
  BY <1>a, <1>b, RetiredStays DEF NothingRetired
<1>1. ASSUME NEW c \in Clients, ingest'[c] = ingest[c] PROVE NothingRetired(c)'
  BY <1>b, <1>1 DEF NothingRetired
<1>2. ASSUME NEW c \in Clients, End(c) PROVE \A b \in Clients : NothingRetired(b)'
  <2>1. ingest'[c] = NoCall /\ \A b \in Clients \ {c} : ingest'[b] = ingest[b]
    BY <1>a, <1>2, EndCall
  <2>2. NothingRetired(c)'
    BY <2>1, NoCallProperties DEF NothingRetired
  <2> QED  BY <1>1, <2>1, <2>2
<1>3. ASSUME NEW c \in Clients, NEW place, NEW inputs, NEW cache, NEW result, NEW s,
             Go(c, place, inputs, cache, result, s),
             \A i \in DOMAIN result : result[i].device \notin ingest[c].retired
      PROVE  \A b \in Clients : NothingRetired(b)'
  <2>1. /\ ingest'[c].result = result /\ ingest'[c].retired = ingest[c].retired
        /\ \A b \in Clients \ {c} : ingest'[b] = ingest[b]
    BY <1>a, <1>3 DEF Go
  <2>2. NothingRetired(c)'
    BY <1>b, <1>3, <2>1
  <2> QED  BY <1>1, <2>1, <2>2
<1>4. ASSUME NEW c \in Clients, IngestTelemetry(c) PROVE \A b \in Clients : NothingRetired(b)'
  <2>1. /\ UNCHANGED vars /\ ingest'[c].result = <<>>
        /\ ingest'[c].retired = {d \in Seeded : devices[d].status = "retired"}
        /\ \A b \in Clients \ {c} : ingest'[b] = ingest[b]
    BY <1>a, <1>4 DEF IngestTelemetry
  <2>2. NothingRetired(c)'
    BY <2>1 DEF NothingRetired, vars
  <2> QED  BY <1>1, <2>1, <2>2
<1>5. ASSUME NEW c \in Clients, GetStream(c) \/ AddSamples(c) \/ TouchNext(c) \/ SubmitEvaluation(c)
      PROVE  \A b \in Clients : NothingRetired(b)'
  <2>1. \/ End(c)
        \/ \E place, inputs, cache, s :
             Go(c, place, inputs, cache, <<>>, s) \/ Go(c, place, inputs, cache, ingest[c].result, s)
    BY <1>5 DEF GetStream, AddSamples, TouchNext, SubmitEvaluation
  <2>2. \A i \in DOMAIN ingest[c].result : ingest[c].result[i].device \notin ingest[c].retired
    BY DEF NothingRetired
  <2> QED  BY <1>2, <1>3, <2>1, <2>2
<1>6. ASSUME NEW c \in Clients, GetDevice(c) PROVE \A b \in Clients : NothingRetired(b)'
  <2> DEFINE call == ingest[c]
             input == Head(call.inputs)
             stream == call.cache[input.stream]
             x == NewSample(input, stream)
  <2>1. CASE End(c)
    BY <1>2, <2>1
  <2>2. CASE ~End(c)
    <3>1. /\ call.inputs # <<>> /\ stream # None /\ devices[stream.device].status # "retired"
          /\ Go(c, "loop", Tail(call.inputs), call.cache, Append(call.result, x), None)
      BY <1>6, <2>2 DEF GetDevice, Accepts
    <3>2. /\ call.result \in Seq(Sample) /\ call.inputs \in Seq(Input)
          /\ \A s \in StreamIDs : call.cache[s] # None => KeepsCopy(call.cache[s])
      BY <1>a, HeldStays
    <3>3. input \in Input
      BY <3>1, <3>2, HeadTail
    <3>4. stream \in Stream /\ input.stream \in StreamIDs
      BY <3>1, <3>2, <3>3 DEF Input, KeepsCopy
    <3>5. x \in Sample /\ x.device = stream.device
      BY <3>3, <3>4 DEF NewSample, Sample, Input, Stream
    <3>6. x.device \notin call.retired
      BY <3>1, <3>5 DEF NothingRetired
    <3>7. \A i \in DOMAIN call.result : call.result[i].device \notin call.retired
      BY DEF NothingRetired
    <3> HIDE DEF x, input, stream
    <3>8. \A i \in DOMAIN Append(call.result, x) :
            Append(call.result, x)[i] = x \/ (i \in DOMAIN call.result /\ Append(call.result, x)[i] = call.result[i])
      BY <3>2, <3>5, AppendProperties
    <3>9. \A i \in DOMAIN Append(call.result, x) : Append(call.result, x)[i].device \notin call.retired
      BY <3>6, <3>7, <3>8
    <3> QED  BY <1>3, <3>1, <3>9
  <2> QED  BY <2>1, <2>2
<1>7. ASSUME UNCHANGED ingest PROVE \A b \in Clients : NothingRetired(b)'
  BY <1>1, <1>7
<1> QED  BY <1>4, <1>5, <1>6, <1>7
         DEF IngestionNext, RegistryCall, ingestionVars, TakeJob, EvaluateTelemetry, EndEvaluation, Tick, allVars

(* A call that began after a seeded device was retired stores no sample of *)
(* it (service/telemetry.go:49, domain/device.go CanReceiveTelemetry).     *)
THEOREM RetiredRefused == IngestionSpec => []NoneOfRetired
<1> DEFINE Inv == \A c \in Clients : NothingRetired(c)
<1>1. IngestionInit => Inv
  BY NoCallProperties DEF IngestionInit, NothingRetired
<1>2. TypeInv /\ Pipeline /\ SeededInv /\ Inv /\ [IngestionNext]_allVars => Inv'
  BY RetiredNext
<1>3. IngestionSpec => []SeededInv
  BY IngestionImplementsRegistry, SeededInvariant, PTL
<1>4. Inv => NoneOfRetired
  BY DEF NothingRetired, NoneOfRetired
<1> HIDE DEF Inv
<1> QED  BY <1>1, <1>2, <1>3, <1>4, PipelineInvariant, PTL DEF IngestionSpec
-----------------------------------------------------------------------------
(***************************************************************************)
(* ListSamples: the loop over the samples, last one first.                 *)
(***************************************************************************)
(* ListSamples is such a loop: one round for every place in the list.     *)
LEMMA ListRounds ==
  ASSUME samples \in Seq(Sample), NEW s
  PROVE  \E f : /\ f[0] = <<>>
                /\ \A k \in 1..Len(samples) :
                     f[k] = List(f[k - 1], samples[Len(samples) - k + 1], s, now)
                /\ ListSamples(samples, s, now) = f[Len(samples)]
<1> DEFINE N == Len(samples)
           x(k) == samples[N - k + 1]
           step == [k \in 1..N |-> [q \in Seq(Sample) |-> List(q, x(k), s, now)]]
           round(f) == [k \in 0..N |-> IF k = 0 THEN <<>> ELSE List(f[k - 1], x(k), s, now)]
           list == CHOOSE f : f = round(f)
<1>1. N \in Nat /\ \A k \in 1..N : x(k) \in Sample
  <2>1. N \in Nat /\ \A i \in 1..N : samples[i] \in Sample
    OBVIOUS
  <2>2. \A k \in 1..N : N - k + 1 \in 1..N
    BY <2>1
  <2> QED  BY <2>1, <2>2
<1>a. ListSamples(samples, s, now) = list[N]
  BY Zenon DEF ListSamples
<1> HIDE DEF x, N
<1>2. step \in [1..N -> [Seq(Sample) -> Seq(Sample)]] /\ <<>> \in Seq(Sample)
  <2>1. ASSUME NEW q \in Seq(Sample), NEW k \in 1..N PROVE List(q, x(k), s, now) \in Seq(Sample)
    <3>1. Append(q, x(k)) \in Seq(Sample)
      BY <1>1
    <3> QED  BY <3>1 DEF List
  <2> QED  BY <2>1
<1>3. PICK f : Runs(f, N, Seq(Sample), <<>>, step)
  <2> HIDE DEF step
  <2> QED  BY <1>1, <1>2, LoopRuns
<1>4. ASSUME NEW k \in 1..N PROVE f[k] = List(f[k - 1], x(k), s, now)
  <2>1. k - 1 \in 0..N
    BY <1>1
  <2>2. f[k - 1] \in Seq(Sample)
    BY <1>3, <2>1 DEF Runs
  <2> QED  BY <1>3, <2>2 DEF Runs
<1>5. f = round(f)
  BY <1>1, <1>3, <1>4 DEF Runs
<1>6. list = round(list)
  <2> HIDE DEF round
  <2> QED  BY <1>5, Zenon
<1> HIDE DEF list, step
<1>7. list[0] = <<>> /\ \A k \in 1..N : list[k] = List(list[k - 1], x(k), s, now)
  BY <1>1, <1>6
<1> QED  BY <1>a, <1>7 DEF N, x

Recent(s, m) == {i \in InStream(s) : i > m}

(* The list holds the samples at the places I, the last one first; pos are *)
(* the places.                                                             *)
Matches(list, pos, I) ==
  /\ list \in Seq(Sample)
  /\ pos \in [1..Len(list) -> I]
  /\ \A j \in 1..Len(list) : list[j] = samples[pos[j]]
  /\ \A j, h \in 1..Len(list) : j < h => pos[j] > pos[h]
  /\ \A i \in I : \E j \in 1..Len(list) : pos[j] = i
  /\ IsFiniteSet(I) /\ Len(list) = Cardinality(I)

(* A sample before all others, at the end of the list.                     *)
LEMMA MatchesAppend ==
  ASSUME samples \in Seq(Sample), NEW list, NEW pos, NEW I \in SUBSET Nat, Matches(list, pos, I),
         NEW i \in DOMAIN samples, \A j \in I : j > i
  PROVE  \E p : Matches(Append(list, samples[i]), p, I \cup {i})
<1> DEFINE x == samples[i]
           l == Append(list, x)
           p == [j \in 1..(Len(list) + 1) |-> IF j = Len(list) + 1 THEN i ELSE pos[j]]
           J == I \cup {i}
<1>1. list \in Seq(Sample) /\ x \in Sample /\ Len(list) \in Nat /\ i \in Nat
  BY DEF Matches
<1>2. /\ l \in Seq(Sample) /\ Len(l) = Len(list) + 1 /\ l[Len(list) + 1] = x
      /\ \A j \in 1..Len(list) : l[j] = list[j]
  BY <1>1
<1> HIDE DEF l
<1>3. \A j \in 1..(Len(list) + 1) : j = Len(list) + 1 \/ j \in 1..Len(list)
  BY <1>1
<1>4. \A j \in 1..Len(list) : j # Len(list) + 1 /\ j \in 1..(Len(list) + 1)
  BY <1>1
<1>5. p \in [1..Len(l) -> J]
  BY <1>2, <1>3 DEF Matches
<1>6. ASSUME NEW j \in 1..Len(l) PROVE l[j] = samples[p[j]]
  BY <1>1, <1>2, <1>3, <1>4, <1>6 DEF Matches
<1>7. ASSUME NEW j \in 1..Len(l), NEW h \in 1..Len(l), j < h PROVE p[j] > p[h]
  <2>1. j \in 1..Len(list) /\ p[j] = pos[j]
    BY <1>1, <1>2, <1>7
  <2>2. CASE h = Len(list) + 1
    BY <1>1, <1>2, <2>1, <2>2 DEF Matches
  <2>3. CASE h # Len(list) + 1
    <3>1. h \in 1..Len(list) /\ p[h] = pos[h]
      BY <1>2, <1>3, <2>3
    <3> QED  BY <1>7, <2>1, <3>1 DEF Matches
  <2> QED  BY <2>2, <2>3
<1>8. ASSUME NEW m \in J PROVE \E j \in 1..Len(l) : p[j] = m
  <2>1. CASE m = i
    <3>1. Len(list) + 1 \in 1..Len(l) /\ p[Len(list) + 1] = i
      BY <1>1, <1>2
    <3> QED  BY <2>1, <3>1
  <2>2. CASE m # i
    <3>1. PICK j \in 1..Len(list) : pos[j] = m
      BY <1>8, <2>2 DEF Matches
    <3>2. j \in 1..Len(l) /\ p[j] = m
      BY <1>2, <1>4, <3>1
    <3> QED  BY <3>2
  <2> QED  BY <2>1, <2>2
<1>9. IsFiniteSet(J) /\ Len(l) = Cardinality(J)
  <2>1. i \notin I
    BY <1>1
  <2> QED  BY <1>2, <2>1, FS_AddElement DEF Matches
<1>10. Matches(l, p, J)
  <2> HIDE DEF p, J
  <2> QED  BY <1>2, <1>5, <1>6, <1>7, <1>8, <1>9 DEF Matches
<1> HIDE DEF p
<1> QED  BY <1>10 DEF l

(* What the loop of ListSamples has computed when it has come down to the  *)
(* place m.                                                                *)
Later(s, m) == {i \in Listed(s) : i > m}

ListedFrom(list, s, m) ==
  /\ \E pos : Matches(list, pos, Later(s, m))
  /\ IsFiniteSet(Recent(s, m))
  /\ Len(list) = Least(Cardinality(Recent(s, m)), ListLimit)

(* The next round of the loop takes the sample if it belongs to the window *)
(* and the list is not full, that is if it is one of the last of its kind. *)
LEMMA ListRound ==
  ASSUME samples \in Seq(Sample), NEW s, NEW m \in 1..Len(samples),
         NEW list, ListedFrom(list, s, m)
  PROVE  ListedFrom(List(list, samples[m], s, now), s, m - 1)
<1> DEFINE x == samples[m]
<1>1. /\ m \in Nat /\ m - 1 \in Nat /\ m \in DOMAIN samples /\ ListLimit \in Nat \ {0}
      /\ InStream(s) \subseteq Nat /\ Listed(s) \subseteq InStream(s)
  BY IngestionAssumption DEF IngestionAssumption, InStream, Listed
<1>2. PICK pos : Matches(list, pos, Later(s, m))
  BY DEF ListedFrom
<1>3. /\ IsFiniteSet(Recent(s, m)) /\ Cardinality(Recent(s, m)) \in Nat
      /\ Len(list) = Least(Cardinality(Recent(s, m)), ListLimit)
  BY FS_CardinalityType DEF ListedFrom
<1>4. m \in InStream(s) <=> x.stream = s /\ InWindow(x, now)
  BY <1>1 DEF InStream
<1>5. m \in Listed(s) <=> m \in InStream(s) /\ Cardinality(Recent(s, m)) < ListLimit
  BY <1>1 DEF Listed, Recent
<1>6. Len(list) < ListLimit <=> Cardinality(Recent(s, m)) < ListLimit
  BY <1>1, <1>3 DEF Least
<1>7. List(list, x, s, now) = IF m \in Listed(s) THEN Append(list, x) ELSE list
  BY <1>4, <1>5, <1>6 DEF List
<1>8. /\ Recent(s, m - 1) = IF m \in InStream(s) THEN Recent(s, m) \cup {m} ELSE Recent(s, m)
      /\ Later(s, m - 1) = IF m \in Listed(s) THEN Later(s, m) \cup {m} ELSE Later(s, m)
      /\ m \notin Recent(s, m)
  <2>1. \A i \in Nat : i > m - 1 <=> i > m \/ i = m
    BY <1>1
  <2> QED  BY <1>1, <2>1 DEF Recent, Later
<1>9. /\ IsFiniteSet(Recent(s, m - 1))
      /\ Cardinality(Recent(s, m - 1)) =
           IF m \in InStream(s) THEN Cardinality(Recent(s, m)) + 1 ELSE Cardinality(Recent(s, m))
  BY <1>3, <1>8, FS_AddElement
<1>10. list \in Seq(Sample) /\ x \in Sample
  BY <1>1, <1>2 DEF Matches
<1> HIDE DEF x
<1>11. CASE m \in Listed(s)
  <2>1. \E p : Matches(Append(list, x), p, Later(s, m) \cup {m})
    <3>1. Later(s, m) \in SUBSET Nat /\ \A j \in Later(s, m) : j > m
      BY <1>1 DEF Later
    <3> QED  BY <1>1, <1>2, <3>1, MatchesAppend DEF x
  <2>2. Len(Append(list, x)) = Len(list) + 1
    BY <1>10
  <2>3. Len(Append(list, x)) = Least(Cardinality(Recent(s, m)) + 1, ListLimit)
    BY <1>1, <1>3, <1>5, <1>11, <2>2 DEF Least
  <2> QED  BY <1>5, <1>7, <1>8, <1>9, <1>11, <2>1, <2>3 DEF ListedFrom, x
<1>12. CASE m \notin Listed(s)
  <2>1. CASE m \notin InStream(s)
    BY <1>2, <1>3, <1>7, <1>8, <1>9, <1>12, <2>1 DEF ListedFrom, x
  <2>2. CASE m \in InStream(s)
    <3>1. ~(Cardinality(Recent(s, m)) < ListLimit)
      BY <1>5, <1>12, <2>2
    <3>2. Least(Cardinality(Recent(s, m)) + 1, ListLimit) = Least(Cardinality(Recent(s, m)), ListLimit)
      BY <1>1, <1>3, <3>1 DEF Least
    <3> QED  BY <1>2, <1>3, <1>7, <1>8, <1>9, <1>12, <2>2, <3>2 DEF ListedFrom, x
  <2> QED  BY <2>1, <2>2
<1> QED  BY <1>11, <1>12

(* ListSamples returns the samples of the stream in the window that were   *)
(* inserted last, no more than its limit, the last one first.              *)
LEMMA ListSamplesLists ==
  ASSUME samples \in Seq(Sample), NEW s
  PROVE  \E pos : Matches(ListSamples(samples, s, now), pos, Listed(s))
<1> DEFINE N == Len(samples)
<1>1. PICK f : /\ f[0] = <<>>
               /\ \A k \in 1..N : f[k] = List(f[k - 1], samples[N - k + 1], s, now)
               /\ ListSamples(samples, s, now) = f[N]
  BY ListRounds
<1>2. N \in Nat /\ DOMAIN samples = 1..N /\ ListLimit \in Nat
  BY IngestionAssumption DEF IngestionAssumption
<1> DEFINE T == {k \in 0..N : ListedFrom(f[k], s, N - k)}
<1>3. 0 \in T
  <2>1. Recent(s, N) = {} /\ Later(s, N) = {}
    BY <1>2 DEF Recent, Later, Listed, InStream
  <2>2. IsFiniteSet({}) /\ Cardinality({}) = 0
    BY FS_EmptySet
  <2>3. Matches(<<>>, [j \in 1..0 |-> 0], {})
    BY <2>2 DEF Matches
  <2>4. Len(<<>>) = Least(0, ListLimit)
    BY <1>2 DEF Least
  <2>5. ListedFrom(<<>>, s, N)
    <3> DEFINE p == [j \in 1..0 |-> 0]
    <3>1. \E pos : Matches(<<>>, pos, {})
      BY <2>3
    <3> QED  BY <2>1, <2>2, <2>4, <3>1 DEF ListedFrom
  <2> QED  BY <1>1, <1>2, <2>5
<1>4. ASSUME NEW k \in 1..N, k - 1 \in T PROVE k \in T
  <2> DEFINE m == N - k + 1
  <2>1. m \in 1..N /\ N - (k - 1) = m /\ m - 1 = N - k /\ k \in 0..N
    BY <1>2
  <2>2. ListedFrom(f[k - 1], s, m)
    BY <1>4, <2>1
  <2>3. ListedFrom(List(f[k - 1], samples[m], s, now), s, m - 1)
    <3> HIDE DEF m
    <3> QED  BY <2>1, <2>2, ListRound
  <2> QED  BY <1>1, <2>1, <2>3
<1>5. N \in T
  <2>1. \A k \in 0..N : k \in T
    <3> HIDE DEF T, N
    <3> QED  BY <1>2, <1>3, <1>4, RoundInduction
  <2> QED  BY <1>2, <2>1
<1>6. ListedFrom(f[N], s, 0)
  BY <1>2, <1>5
<1>7. Later(s, 0) = Listed(s)
  BY DEF Later, Listed, InStream
<1> QED  BY <1>1, <1>6, <1>7 DEF ListedFrom

-----------------------------------------------------------------------------
(***************************************************************************)
(* BuildWindow: the loop over the list, and the sum it builds up.          *)
(***************************************************************************)
(* The sum of the values at the places I, place by place.                  *)
LEMMA TotalRounds ==
  ASSUME samples \in Seq(Sample), NEW I
  PROVE  \E f : /\ f \in [0..Len(samples) -> Int]
                /\ f[0] = 0
                /\ \A i \in 1..Len(samples) :
                     f[i] = f[i - 1] + IF i \in I THEN samples[i].value ELSE 0
                /\ Total(I) = f[Len(samples)]
<1> DEFINE N == Len(samples)
           x(i) == IF i \in I THEN samples[i].value ELSE 0
           step == [i \in 1..N |-> [t \in Int |-> t + x(i)]]
           round(f) == [i \in 0..N |-> IF i = 0 THEN 0 ELSE f[i - 1] + x(i)]
           total == CHOOSE f : f = round(f)
<1>1. N \in Nat /\ \A i \in 1..N : x(i) \in Int
  <2>1. N \in Nat /\ \A i \in 1..N : samples[i] \in Sample
    OBVIOUS
  <2> QED  BY <2>1 DEF Sample
<1>2. Total(I) = total[N]
  BY Zenon DEF Total
<1> HIDE DEF x, N
<1>3. step \in [1..N -> [Int -> Int]]
  BY <1>1
<1>4. PICK f : Runs(f, N, Int, 0, step)
  <2> DEFINE S    == Int
             zero == 0
  <2>1. N \in Nat /\ zero \in S /\ step \in [1..N -> [S -> S]]
    BY <1>1, <1>3
  <2>2. \E f : Runs(f, N, S, zero, step)
    <3> HIDE DEF step, S, zero
    <3> QED  BY <2>1, LoopRuns
  <2> QED  BY <2>2
<1>5. ASSUME NEW i \in 1..N PROVE f[i] = f[i - 1] + x(i)
  <2>1. i - 1 \in 0..N
    BY <1>1
  <2>2. f[i - 1] \in Int
    BY <1>4, <2>1 DEF Runs
  <2> QED  BY <1>4, <2>2 DEF Runs
<1>6. f = round(f)
  BY <1>1, <1>4, <1>5 DEF Runs
<1>7. total = round(total)
  <2> HIDE DEF round
  <2> QED  BY <1>6, Zenon
<1> HIDE DEF total, step
<1>8. total[0] = 0 /\ \A i \in 1..N : total[i] = total[i - 1] + x(i)
  BY <1>1, <1>7
<1>9. \A i \in 0..N : total[i] \in Int
  <2> DEFINE T == {i \in 0..N : total[i] \in Int}
  <2>1. 0 \in T /\ \A i \in 1..N : i - 1 \in T => i \in T
    BY <1>1, <1>8
  <2>2. \A i \in 0..N : i \in T
    <3> HIDE DEF T
    <3> QED  BY <1>1, <2>1, RoundInduction
  <2> QED  BY <2>2
<1>10. total \in [0..N -> Int]
  <2>1. total = [i \in 0..N |-> total[i]]
    BY <1>7
  <2> QED  BY <1>9, <2>1
<1> QED  BY <1>2, <1>8, <1>10 DEF N, x

(* Nothing sums up to 0.                                                   *)
LEMMA TotalOfNone ==
  ASSUME samples \in Seq(Sample)
  PROVE  Total({}) = 0
<1> DEFINE N == Len(samples)
<1>1. PICK f : /\ f[0] = 0
               /\ \A i \in 1..N : f[i] = f[i - 1] + IF i \in {} THEN samples[i].value ELSE 0
               /\ Total({}) = f[N]
  BY TotalRounds
<1>2. N \in Nat
  OBVIOUS
<1> HIDE DEF N
<1> DEFINE T == {i \in 0..N : f[i] = 0}
<1>3. 0 \in T /\ \A i \in 1..N : i - 1 \in T => i \in T
  BY <1>1, <1>2
<1>4. \A i \in 0..N : i \in T
  <2> HIDE DEF T
  <2> QED  BY <1>2, <1>3, RoundInduction
<1> QED  BY <1>1, <1>2, <1>4

(* One place more adds its value.                                          *)
LEMMA TotalAdds ==
  ASSUME samples \in Seq(Sample), NEW I, NEW i \in DOMAIN samples, i \notin I
  PROVE  Total(I \cup {i}) = Total(I) + samples[i].value
<1> DEFINE N == Len(samples)
           J == I \cup {i}
           x(K, m) == IF m \in K THEN samples[m].value ELSE 0
<1>1. PICK f : /\ f \in [0..N -> Int] /\ f[0] = 0
               /\ \A m \in 1..N : f[m] = f[m - 1] + x(I, m)
               /\ Total(I) = f[N]
  BY TotalRounds
<1>2. PICK g : /\ g \in [0..N -> Int] /\ g[0] = 0
               /\ \A m \in 1..N : g[m] = g[m - 1] + x(J, m)
               /\ Total(J) = g[N]
  BY TotalRounds
<1>3. N \in Nat /\ i \in 1..N /\ \A m \in 1..N : samples[m].value \in Int
  <2>1. N \in Nat /\ i \in 1..N /\ \A m \in 1..N : samples[m] \in Sample
    OBVIOUS
  <2> QED  BY <2>1 DEF Sample
<1>4. \A m \in 1..N : x(J, m) = IF m = i THEN samples[i].value ELSE x(I, m)
  OBVIOUS
<1>5. x(I, i) = 0 /\ \A m \in 1..N : x(I, m) \in Int
  BY <1>3
<1> HIDE DEF x, N, J
<1> DEFINE T == {m \in 0..N : g[m] = f[m] + IF m >= i THEN samples[i].value ELSE 0}
<1>6. 0 \in T
  BY <1>1, <1>2, <1>3
<1>7. ASSUME NEW m \in 1..N, m - 1 \in T PROVE m \in T
  <2>1. m \in 0..N /\ m - 1 \in 0..N /\ f[m - 1] \in Int /\ g[m - 1] \in Int /\ f[m] \in Int
    <3>1. m \in 0..N /\ m - 1 \in 0..N
      BY <1>3
    <3> QED  BY <1>1, <1>2, <3>1
  <2>2. f[m] = f[m - 1] + x(I, m) /\ g[m] = g[m - 1] + x(J, m)
    BY <1>1, <1>2
  <2>3. CASE m = i
    <3>1. g[m - 1] = f[m - 1]
      BY <1>3, <1>7, <2>1, <2>3
    <3> QED  BY <1>3, <1>4, <1>5, <2>1, <2>2, <2>3, <3>1
  <2>4. CASE m < i
    <3>1. g[m - 1] = f[m - 1]
      BY <1>3, <1>7, <2>1, <2>4
    <3>2. x(J, m) = x(I, m)
      BY <1>3, <1>4, <2>4
    <3>3. g[m] = f[m] /\ ~(m >= i)
      BY <1>3, <2>2, <2>4, <3>1, <3>2
    <3> QED  BY <2>1, <3>3
  <2>5. CASE m > i
    <3>1. g[m - 1] = f[m - 1] + samples[i].value
      BY <1>3, <1>7, <2>1, <2>5
    <3>2. \A a, b, c \in Int : (a + c) + b = (a + b) + c
      OBVIOUS
    <3>3. x(J, m) = x(I, m) /\ x(I, m) \in Int /\ samples[i].value \in Int
      BY <1>3, <1>4, <1>5, <2>5
    <3>4. g[m] = (f[m - 1] + samples[i].value) + x(I, m)
      BY <2>2, <3>1, <3>3
    <3>5. g[m] = f[m] + samples[i].value
      BY <2>1, <2>2, <3>2, <3>3, <3>4
    <3>6. m >= i
      BY <1>3, <2>5
    <3> QED  BY <2>1, <3>5, <3>6
  <2> QED  BY <1>3, <2>1, <2>3, <2>4, <2>5
<1>8. \A m \in 0..N : m \in T
  <2> HIDE DEF T
  <2> QED  BY <1>3, <1>6, <1>7, RoundInduction
<1> QED  BY <1>1, <1>2, <1>3, <1>8 DEF J

(* A window of the program's type stays one when a sample is added.        *)
LEMMA WindowTypes ==
  ASSUME NEW x \in Sample
  PROVE  /\ EmptyWindow(x) \in Window
         /\ \A W \in Window : AddToWindow(W, x) \in Window
<1>1. /\ x.device \in DeviceIDs /\ x.stream \in StreamIDs /\ x.value \in Int
      /\ x.good \in BOOLEAN
  BY DEF Sample
<1>2. EmptyWindow(x) \in Window
  BY <1>1 DEF EmptyWindow, Window
<1>3. ASSUME NEW W \in Window PROVE AddToWindow(W, x) \in Window
  <2>1. /\ W.device \in DeviceIDs /\ W.stream \in StreamIDs /\ W.count \in Nat
        /\ W.min \in Int /\ W.max \in Int /\ W.total \in Int /\ W.bad \in Nat
    BY DEF Window
  <2>2. Least(W.min, x.value) \in Int /\ Greatest(W.max, x.value) \in Int
    BY <1>1, <2>1 DEF Least, Greatest
  <2> QED  BY <1>1, <2>1, <2>2 DEF AddToWindow, Window
<1> QED  BY <1>2, <1>3

(* The loop of BuildWindow.                                                *)
LEMMA WindowRounds ==
  ASSUME NEW list \in Seq(Sample), list # <<>>
  PROVE  \E f : /\ f[0] = EmptyWindow(list[1])
                /\ \A k \in 1..Len(list) :
                     f[k] = IF InWindow(list[k], now) THEN AddToWindow(f[k - 1], list[k])
                            ELSE f[k - 1]
                /\ BuildWindow(list, now) = f[Len(list)]
<1> DEFINE N == Len(list)
           base == EmptyWindow(list[1])
           next(W, k) == IF InWindow(list[k], now) THEN AddToWindow(W, list[k]) ELSE W
           step == [k \in 1..N |-> [W \in Window |-> next(W, k)]]
           round(f) == [k \in 0..N |-> IF k = 0 THEN base
                                       ELSE IF InWindow(list[k], now)
                                            THEN AddToWindow(f[k - 1], list[k])
                                       ELSE f[k - 1]]
           window == CHOOSE f : f = round(f)
<1>1. BuildWindow(list, now) = window[N]
  BY Zenon DEF BuildWindow
<1>2. N \in Nat /\ base \in Window /\ \A W \in Window : \A k \in 1..N : next(W, k) \in Window
  <2>1. N \in Nat /\ 1 \in 1..N /\ \A k \in 1..N : list[k] \in Sample
    OBVIOUS
  <2> HIDE DEF N
  <2> QED  BY <2>1, WindowTypes
<1>3. \A W, k : next(W, k) = IF InWindow(list[k], now) THEN AddToWindow(W, list[k]) ELSE W
  OBVIOUS
<1> HIDE DEF N, base, next
<1>4. step \in [1..N -> [Window -> Window]]
  BY <1>2
<1>5. PICK f : Runs(f, N, Window, base, step)
  <2> HIDE DEF step
  <2> QED  BY <1>2, <1>4, LoopRuns
<1>6. ASSUME NEW k \in 1..N PROVE f[k] = next(f[k - 1], k)
  <2>1. k - 1 \in 0..N
    BY <1>2
  <2>2. f[k - 1] \in Window
    BY <1>5, <2>1 DEF Runs
  <2> QED  BY <1>5, <2>2 DEF Runs
<1>7. f = round(f)
  <2>1. f = [k \in 0..N |-> f[k]] /\ f[0] = base
    BY <1>5 DEF Runs
  <2> HIDE DEF step
  <2>2. \A k \in 0..N : k = 0 \/ k \in 1..N
    BY <1>2
  <2> QED  BY <1>3, <1>6, <2>1, <2>2
<1>8. window = round(window)
  <2> HIDE DEF round
  <2> QED  BY <1>7, Zenon
<1> HIDE DEF window, step
<1>9. window[0] = base /\ \A k \in 1..N : window[k] = next(window[k - 1], k)
  BY <1>2, <1>3, <1>8
<1> QED  BY <1>1, <1>3, <1>9 DEF N, base

(* What the loop of BuildWindow has computed after k rounds over a list    *)
(* whose samples are at pos.                                               *)
PlacesOf(pos, k) == {pos[j] : j \in 1..k}
Bad(I)         == {i \in I : ~samples[i].good}

WindowOf(W, list, pos, k) ==
  /\ W \in Window /\ W.device = list[1].device
  /\ W.count = k
  /\ IsFiniteSet(Bad(PlacesOf(pos, k))) /\ W.bad = Cardinality(Bad(PlacesOf(pos, k)))
  /\ W.total = Total(PlacesOf(pos, k))
  /\ \A j \in 1..k : W.min <= list[j].value /\ list[j].value <= W.max
  /\ \E j \in 1..Len(list) : W.min = list[j].value
  /\ \E j \in 1..Len(list) : W.max = list[j].value
  /\ k > 0 => W.last = list[k].value

(* One round.                                                              *)
LEMMA WindowRound ==
  ASSUME samples \in Seq(Sample), NEW list, NEW pos, NEW I \in SUBSET (DOMAIN samples),
         Matches(list, pos, I), NEW k \in 1..Len(list), NEW W, WindowOf(W, list, pos, k - 1)
  PROVE  WindowOf(AddToWindow(W, list[k]), list, pos, k)
<1> DEFINE x == list[k]
           V == AddToWindow(W, x)
           P == PlacesOf(pos, k - 1)
<1>1. /\ Len(list) \in Nat /\ k \in Nat /\ k - 1 \in Nat /\ k > 0 /\ 1 \in 1..Len(list)
      /\ list \in Seq(Sample) /\ \A j \in 1..Len(list) : list[j] \in Sample
  BY DEF Matches
<1>2. x \in Sample /\ x = samples[pos[k]] /\ pos[k] \in DOMAIN samples
  BY <1>1 DEF Matches
<1>3. W \in Window /\ V \in Window
  BY <1>2, WindowTypes DEF WindowOf
<1>4. PlacesOf(pos, k) = P \cup {pos[k]}
  <2>1. 1..k = (1..(k - 1)) \cup {k}
    BY <1>1
  <2> QED  BY <2>1 DEF PlacesOf
<1>5. pos[k] \notin P
  <2>1. ASSUME NEW j \in 1..(k - 1) PROVE pos[j] > pos[k] /\ pos[j] \in Nat /\ pos[k] \in Nat
    <3>1. j \in 1..Len(list) /\ j < k
      BY <1>1
    <3>2. pos[j] > pos[k] /\ pos[j] \in DOMAIN samples
      BY <3>1 DEF Matches
    <3> QED  BY <1>2, <3>2
  <2>2. \A a, b \in Nat : a > b => a # b
    OBVIOUS
  <2> QED  BY <2>1, <2>2 DEF PlacesOf
<1>6. /\ V.device = W.device /\ V.count = W.count + 1 /\ V.total = W.total + x.value
      /\ V.last = x.value /\ V.min = Least(W.min, x.value) /\ V.max = Greatest(W.max, x.value)
      /\ V.bad = W.bad + IF x.good THEN 0 ELSE 1
  BY DEF AddToWindow
<1> HIDE DEF x, V, P
<1>7. /\ W.count \in Nat /\ W.min \in Int /\ W.max \in Int /\ W.bad \in Nat /\ W.total \in Int
      /\ x.value \in Int /\ x.good \in BOOLEAN /\ \A j \in 1..Len(list) : list[j].value \in Int
  BY <1>1, <1>2, <1>3 DEF Window, Sample
<1>8. V.count = k
  BY <1>1, <1>6, <1>7 DEF WindowOf
<1>9. V.total = Total(PlacesOf(pos, k))
  <2>1. Total(P \cup {pos[k]}) = Total(P) + samples[pos[k]].value
    BY <1>2, <1>5, TotalAdds
  <2> QED  BY <1>2, <1>4, <1>6, <2>1 DEF WindowOf, P
<1>10. IsFiniteSet(Bad(PlacesOf(pos, k))) /\ V.bad = Cardinality(Bad(PlacesOf(pos, k)))
  <2>1. Bad(PlacesOf(pos, k)) = IF x.good THEN Bad(P) ELSE Bad(P) \cup {pos[k]}
    BY <1>2, <1>4 DEF Bad
  <2>2. IsFiniteSet(Bad(P)) /\ W.bad = Cardinality(Bad(P)) /\ pos[k] \notin Bad(P)
    BY <1>5 DEF WindowOf, P, Bad
  <2>3. CASE x.good
    BY <1>6, <1>7, <2>1, <2>2, <2>3
  <2>4. CASE ~x.good
    <3>1. Bad(PlacesOf(pos, k)) = Bad(P) \cup {pos[k]}
      BY <2>1, <2>4
    <3>2. IsFiniteSet(Bad(P) \cup {pos[k]}) /\ Cardinality(Bad(P) \cup {pos[k]}) = Cardinality(Bad(P)) + 1
      BY <2>2, FS_AddElement
    <3>3. V.bad = W.bad + 1
      BY <1>6, <2>4
    <3> QED  BY <2>2, <3>1, <3>2, <3>3
  <2> QED  BY <2>3, <2>4
<1>11. ASSUME NEW j \in 1..k PROVE V.min <= list[j].value /\ list[j].value <= V.max
  <2>1. CASE j = k
    BY <1>6, <1>7, <2>1 DEF x, Least, Greatest
  <2>2. CASE j # k
    <3>1. j \in 1..(k - 1) /\ j \in 1..Len(list)
      BY <1>1, <2>2
    <3>2. W.min <= list[j].value /\ list[j].value <= W.max /\ list[j].value \in Int
      BY <1>7, <3>1 DEF WindowOf
    <3> QED  BY <1>6, <1>7, <3>2 DEF Least, Greatest
  <2> QED  BY <2>1, <2>2
<1>12. /\ \E j \in 1..Len(list) : V.min = list[j].value
       /\ \E j \in 1..Len(list) : V.max = list[j].value
  BY <1>6 DEF WindowOf, x, Least, Greatest
<1> QED  BY <1>3, <1>6, <1>8, <1>9, <1>10, <1>11, <1>12 DEF WindowOf, V, x

(* BuildWindow counts, bounds and adds up the samples of its list, which   *)
(* are all in the window, and its last value is that of the last one.      *)
LEMMA WindowOfList ==
  ASSUME samples \in Seq(Sample), NEW list, NEW pos, NEW I \in SUBSET (DOMAIN samples),
         \A i \in I : InWindow(samples[i], now), Matches(list, pos, I), list # <<>>
  PROVE  WindowOf(BuildWindow(list, now), list, pos, Len(list))
<1> DEFINE N == Len(list)
<1>1. list \in Seq(Sample) /\ N \in Nat /\ 1 \in 1..N /\ \A j \in 1..N : list[j] \in Sample
  BY DEF Matches
<1>2. PICK f : /\ f[0] = EmptyWindow(list[1])
               /\ \A k \in 1..N : f[k] = IF InWindow(list[k], now) THEN AddToWindow(f[k - 1], list[k])
                                         ELSE f[k - 1]
               /\ BuildWindow(list, now) = f[N]
  BY <1>1, WindowRounds
<1>3. \A k \in 1..N : InWindow(list[k], now)
  BY DEF Matches
<1> HIDE DEF N
<1> DEFINE T == {k \in 0..N : WindowOf(f[k], list, pos, k)}
<1>4. 0 \in T
  <2> DEFINE W == EmptyWindow(list[1])
             x == list[1]
  <2>1. x \in Sample /\ x.value \in Int
    BY <1>1 DEF Sample
  <2>2. /\ W.device = list[1].device /\ W.count = 0 /\ W.total = 0 /\ W.bad = 0
        /\ W.min = list[1].value /\ W.max = list[1].value
    BY DEF EmptyWindow
  <2>3. W \in Window
    BY <2>1, WindowTypes
  <2> HIDE DEF W, x
  <2>4. PlacesOf(pos, 0) = {} /\ Bad({}) = {}
    BY DEF PlacesOf, Bad
  <2>5. IsFiniteSet({}) /\ Cardinality({}) = 0
    BY FS_EmptySet
  <2>6. /\ \E j \in 1..Len(list) : W.min = list[j].value
        /\ \E j \in 1..Len(list) : W.max = list[j].value
        /\ \A j \in 1..0 : W.min <= list[j].value /\ list[j].value <= W.max
    BY <1>1, <2>2 DEF N
  <2>7. W.total = Total(PlacesOf(pos, 0))
    BY <2>2, <2>4, TotalOfNone
  <2>8. IsFiniteSet(Bad(PlacesOf(pos, 0))) /\ W.bad = Cardinality(Bad(PlacesOf(pos, 0)))
    BY <2>2, <2>4, <2>5
  <2>9. WindowOf(W, list, pos, 0)
    BY <2>2, <2>3, <2>6, <2>7, <2>8 DEF WindowOf
  <2> QED  BY <1>1, <1>2, <2>9 DEF W
<1>5. ASSUME NEW k \in 1..N, k - 1 \in T PROVE k \in T
  <2>1. k \in 0..N /\ f[k] = AddToWindow(f[k - 1], list[k]) /\ WindowOf(f[k - 1], list, pos, k - 1)
    BY <1>1, <1>2, <1>3, <1>5
  <2>2. WindowOf(AddToWindow(f[k - 1], list[k]), list, pos, k)
    BY <2>1, WindowRound DEF N
  <2> QED  BY <2>1, <2>2
<1>6. \A k \in 0..N : k \in T
  <2> HIDE DEF T
  <2> QED  BY <1>1, <1>4, <1>5, RoundInduction
<1> QED  BY <1>1, <1>2, <1>6 DEF N

(* What a window of a whole list says of the places of its samples.        *)
LEMMA WindowSays ==
  ASSUME samples \in Seq(Sample), NEW list, NEW pos, NEW I \in SUBSET (DOMAIN samples),
         Matches(list, pos, I), list # <<>>, NEW W, WindowOf(W, list, pos, Len(list))
  PROVE  /\ W \in Window /\ W.device = samples[pos[1]].device /\ pos[1] \in I
         /\ W.count = Cardinality(I) /\ W.bad = Cardinality(Bad(I))
         /\ W.min = Lowest(I) /\ W.max = Highest(I) /\ W.last = Oldest(I) /\ W.total = Total(I)
         /\ W.min <= W.last /\ (W.count = 1 => W.last = W.min)
<1> DEFINE N == Len(list)
<1>1. list \in Seq(Sample) /\ N \in Nat /\ N > 0 /\ 1 \in 1..N /\ N \in 1..N
  BY DEF Matches
<1> HIDE DEF N
<1>2. /\ pos \in [1..N -> I] /\ Len(list) = N
      /\ \A j \in 1..N : list[j] = samples[pos[j]]
      /\ \A j, h \in 1..N : j < h => pos[j] > pos[h]
      /\ \A i \in I : \E j \in 1..N : pos[j] = i
      /\ N = Cardinality(I)
  BY DEF Matches, N
<1>3. \A i \in I : i \in Nat /\ samples[i].value \in Int
  <2>1. \A i \in DOMAIN samples : i \in Nat /\ samples[i] \in Sample
    OBVIOUS
  <2> QED  BY <2>1 DEF Sample
<1>4. PlacesOf(pos, N) = I
  BY <1>2 DEF PlacesOf
<1>5. /\ W \in Window /\ W.device = list[1].device /\ W.count = N
      /\ W.bad = Cardinality(Bad(I)) /\ W.total = Total(I) /\ W.last = list[N].value
  BY <1>1, <1>2, <1>4 DEF WindowOf
<1>6. \A i \in I : W.min <= samples[i].value /\ samples[i].value <= W.max
  BY <1>2 DEF WindowOf
<1>7. W.min \in Int /\ W.max \in Int
  BY <1>5 DEF Window
<1>8. W.min \in {samples[i].value : i \in I} /\ W.max \in {samples[i].value : i \in I}
  BY <1>2 DEF WindowOf
<1>9. W.min = Lowest(I)
  <2>1. ASSUME NEW v \in {samples[i].value : i \in I}, \A i \in I : v <= samples[i].value
        PROVE  v = W.min
    <3>1. v \in Int /\ v <= W.min /\ W.min <= v
      BY <1>3, <1>6, <1>8, <2>1
    <3> QED  BY <1>7, <3>1
  <2>2. Lowest(I) \in {samples[i].value : i \in I} /\ \A i \in I : Lowest(I) <= samples[i].value
    BY <1>6, <1>8, Zenon DEF Lowest
  <2> QED  BY <2>1, <2>2
<1>10. W.max = Highest(I)
  <2>1. ASSUME NEW v \in {samples[i].value : i \in I}, \A i \in I : v >= samples[i].value
        PROVE  v = W.max
    <3>1. v \in Int /\ v >= W.max /\ W.max >= v
      BY <1>3, <1>6, <1>8, <2>1
    <3> QED  BY <1>7, <3>1
  <2>2. \A i \in I : W.max >= samples[i].value
    BY <1>3, <1>6, <1>7
  <2>3. Highest(I) \in {samples[i].value : i \in I} /\ \A i \in I : Highest(I) >= samples[i].value
    BY <1>8, <2>2, Zenon DEF Highest
  <2> QED  BY <2>1, <2>3
<1>11. W.last = Oldest(I)
  <2> DEFINE o == CHOOSE i \in I : \A j \in I : i <= j
  <2>1. pos[N] \in I /\ \A j \in I : pos[N] <= j
    <3>1. pos[N] \in I
      BY <1>1, <1>2
    <3>2. ASSUME NEW j \in I PROVE pos[N] <= j
      <4>1. PICK h \in 1..N : pos[h] = j
        BY <1>2
      <4>2. h = N \/ h < N
        BY <1>1
      <4>3. h < N => pos[h] > pos[N]
        BY <1>1, <1>2
      <4> QED  BY <1>3, <3>1, <4>1, <4>2, <4>3
    <3> QED  BY <3>1, <3>2
  <2>2. o \in I /\ \A j \in I : o <= j
    BY <2>1, Zenon
  <2> HIDE DEF o
  <2>3. o = pos[N]
    <3>1. o <= pos[N] /\ pos[N] <= o
      BY <2>1, <2>2
    <3> QED  BY <1>3, <2>1, <2>2, <3>1
  <2>4. Oldest(I) = samples[o].value
    BY DEF Oldest, o
  <2> QED  BY <1>1, <1>2, <1>5, <2>3, <2>4
<1>12. W.min <= W.last
  BY <1>1, <1>2, <1>5, <1>6
<1>13. W.count = 1 => W.last = W.min
  <2>1. \A j \in 1..1 : j = 1
    OBVIOUS
  <2> QED  BY <1>2, <1>5, <2>1 DEF WindowOf
<1>14. W.device = samples[pos[1]].device /\ pos[1] \in I
  BY <1>1, <1>2, <1>5
<1> QED  BY <1>2, <1>5, <1>9, <1>10, <1>11, <1>12, <1>13, <1>14

-----------------------------------------------------------------------------
(***************************************************************************)
(* Detect: the loop over the rules, and when a rule triggers.              *)
(***************************************************************************)
(* The loop of Detect, and the rules that it reports.                      *)
LEMMA DetectRounds ==
  ASSUME NEW W, NEW g, NEW rules \in Seq(Rule)
  PROVE  \E f : /\ f[0] = <<>>
                /\ \A k \in 1..Len(rules) :
                     f[k] = IF rules[k].signal = g /\ Triggered(W, rules[k])
                            THEN Append(f[k - 1], k) ELSE f[k - 1]
                /\ Detect(W, g, rules) = f[Len(rules)]
<1> DEFINE N == Len(rules)
           hit(k) == rules[k].signal = g /\ Triggered(W, rules[k])
           step == [k \in 1..N |-> [q \in Seq(Nat) |-> IF hit(k) THEN Append(q, k) ELSE q]]
           round(f) == [k \in 0..N |-> IF k = 0 THEN <<>>
                                       ELSE IF hit(k) THEN Append(f[k - 1], k)
                                       ELSE f[k - 1]]
           found == CHOOSE f : f = round(f)
<1>1. Detect(W, g, rules) = found[N]
  BY Zenon DEF Detect
<1>2. N \in Nat /\ <<>> \in Seq(Nat) /\ \A q \in Seq(Nat) : \A k \in 1..N : Append(q, k) \in Seq(Nat)
  OBVIOUS
<1> HIDE DEF N, hit
<1>3. step \in [1..N -> [Seq(Nat) -> Seq(Nat)]]
  BY <1>2
<1>4. PICK f : Runs(f, N, Seq(Nat), <<>>, step)
  <2> DEFINE S == Seq(Nat)
  <2>1. <<>> \in S /\ step \in [1..N -> [S -> S]]
    BY <1>2, <1>3
  <2>2. \E f : Runs(f, N, S, <<>>, step)
    <3> HIDE DEF step, S
    <3> QED  BY <1>2, <2>1, LoopRuns
  <2> QED  BY <2>2
<1>5. ASSUME NEW k \in 1..N PROVE f[k] = IF hit(k) THEN Append(f[k - 1], k) ELSE f[k - 1]
  <2>1. k - 1 \in 0..N
    BY <1>2
  <2>2. f[k - 1] \in Seq(Nat)
    BY <1>4, <2>1 DEF Runs
  <2> QED  BY <1>4, <2>2 DEF Runs
<1>6. f = round(f)
  <2>1. f = [k \in 0..N |-> f[k]] /\ f[0] = <<>>
    BY <1>4 DEF Runs
  <2> HIDE DEF step
  <2>2. \A k \in 0..N : k = 0 \/ k \in 1..N
    BY <1>2
  <2> QED  BY <1>5, <2>1, <2>2
<1>7. found = round(found)
  <2> HIDE DEF round
  <2> QED  BY <1>6, Zenon
<1> HIDE DEF found, step
<1>8. /\ found[0] = <<>>
      /\ \A k \in 1..N : found[k] = IF hit(k) THEN Append(found[k - 1], k) ELSE found[k - 1]
  <2>1. 0 \in 0..N /\ \A k \in 1..N : k \in 0..N /\ k # 0
    BY <1>2
  <2>2. \A k \in 0..N : found[k] = IF k = 0 THEN <<>>
                                   ELSE IF hit(k) THEN Append(found[k - 1], k) ELSE found[k - 1]
    BY <1>7, Zenon
  <2> QED  BY <2>1, <2>2, Zenon
<1>9. \A k : hit(k) <=> rules[k].signal = g /\ Triggered(W, rules[k])
  BY DEF hit
<1>10. \A k \in 1..N :
         found[k] = IF rules[k].signal = g /\ Triggered(W, rules[k])
                    THEN Append(found[k - 1], k) ELSE found[k - 1]
  BY <1>8, <1>9, Zenon
<1> QED  BY <1>1, <1>8, <1>10 DEF N

(* Detect reports just the rules of the job's type that trigger.           *)
LEMMA DetectFinds ==
  ASSUME NEW W, NEW g, NEW rules \in Seq(Rule)
  PROVE  LET found == Detect(W, g, rules) IN
         /\ found \in Seq(Nat)
         /\ \A i \in DOMAIN rules :
              (\E k \in DOMAIN found : found[k] = i) <=>
                 rules[i].signal = g /\ Triggered(W, rules[i])
<1> DEFINE N == Len(rules)
           hit(k) == rules[k].signal = g /\ Triggered(W, rules[k])
           In(q, i) == \E k \in DOMAIN q : q[k] = i
<1>1. PICK f : /\ f[0] = <<>>
               /\ \A k \in 1..N : f[k] = IF hit(k) THEN Append(f[k - 1], k) ELSE f[k - 1]
               /\ Detect(W, g, rules) = f[N]
  BY DetectRounds
<1>2. N \in Nat /\ DOMAIN rules = 1..N
  OBVIOUS
<1>3. ASSUME NEW q \in Seq(Nat), NEW k \in Nat
      PROVE  Append(q, k) \in Seq(Nat) /\ \A i : In(Append(q, k), i) <=> In(q, i) \/ i = k
  <2>1. /\ Append(q, k) \in Seq(Nat)
        /\ \A j \in DOMAIN q : j \in DOMAIN Append(q, k) /\ Append(q, k)[j] = q[j]
        /\ Len(q) + 1 \in DOMAIN Append(q, k) /\ Append(q, k)[Len(q) + 1] = k
        /\ \A j \in DOMAIN Append(q, k) :
             Append(q, k)[j] = k \/ (j \in DOMAIN q /\ Append(q, k)[j] = q[j])
    BY <1>3
  <2> QED  BY <2>1
<1>4. \A i : ~In(<<>>, i)
  OBVIOUS
<1> HIDE DEF N, hit, In
<1> DEFINE T == {k \in 0..N : f[k] \in Seq(Nat) /\ \A i \in 1..N : In(f[k], i) <=> i <= k /\ hit(i)}
<1>5. 0 \in T
  <2>1. \A i \in 1..N : ~(i <= 0)
    BY <1>2
  <2>2. 0 \in 0..N /\ <<>> \in Seq(Nat)
    BY <1>2
  <2> QED  BY <1>1, <1>4, <2>1, <2>2, Zenon
<1>6. ASSUME NEW k \in 1..N, k - 1 \in T PROVE k \in T
  <2>1. \A i \in 1..N : i <= k <=> i <= k - 1 \/ i = k
    BY <1>2
  <2>2. k \in 0..N /\ k \in Nat /\ f[k - 1] \in Seq(Nat)
    BY <1>2, <1>6
  <2>3. CASE hit(k)
    <3>1. f[k] = Append(f[k - 1], k)
      BY <1>1, <2>3
    <3>2. f[k] \in Seq(Nat) /\ \A i : In(f[k], i) <=> In(f[k - 1], i) \/ i = k
      BY <1>3, <2>2, <3>1
    <3> QED  BY <1>6, <2>1, <2>2, <2>3, <3>2
  <2>4. CASE ~hit(k)
    <3>1. f[k] = f[k - 1]
      BY <1>1, <2>4
    <3> QED  BY <1>6, <2>1, <2>2, <2>4, <3>1
  <2> QED  BY <2>3, <2>4
<1>7. \A k \in 0..N : k \in T
  <2> HIDE DEF T
  <2> QED  BY <1>2, <1>5, <1>6, RoundInduction
<1>8. f[N] \in Seq(Nat) /\ \A i \in 1..N : In(f[N], i) <=> hit(i)
  BY <1>2, <1>7
<1> QED  BY <1>1, <1>2, <1>8 DEF hit, In

(* A valid rule triggers on a window just when it holds of the samples.    *)
LEMMA TriggeredHolds ==
  ASSUME NEW W \in Window, NEW I, W.last = Oldest(I), W.min = Lowest(I), W.count = Cardinality(I),
         W.count > 0, W.count = 1 => W.last = W.min, W.min <= W.last, NEW rule \in Rule, Valid(rule)
  PROVE  Triggered(W, rule) <=> Holds(rule, I)
<1>1. /\ W.last \in Int /\ W.min \in Int /\ W.count \in Nat /\ rule.lower \in Int /\ rule.upper \in Int
      /\ rule.comparator \in {"above", "below", "outside", "rate"}
  BY DEF Window, Rule, Comparators
<1>2. CASE rule.comparator = "above"
  BY <1>1, <1>2 DEF Triggered, Holds, Least
<1>3. CASE rule.comparator = "below"
  BY <1>1, <1>3 DEF Triggered, Holds, Greatest
<1>4. CASE rule.comparator = "outside"
  BY <1>1, <1>4 DEF Triggered, Holds
<1>5. CASE rule.comparator = "rate"
  <2>1. Distance(W.last, W.min) = W.last - W.min
    BY <1>1 DEF Distance
  <2>2. /\ Triggered(W, rule) <=> W.count > 1 /\ Distance(W.last, W.min) > rule.upper * (W.count - 1)
        /\ Holds(rule, I) <=> W.last - W.min > rule.upper * (W.count - 1)
    BY <1>5 DEF Triggered, Holds
  <2>3. CASE W.count > 1
    BY <2>1, <2>2, <2>3
  <2>4. CASE W.count = 1
    <3>1. rule.upper * (W.count - 1) = 0
      BY <1>1, <2>4
    <3> QED  BY <1>1, <2>2, <2>4, <3>1
  <2> QED  BY <1>1, <2>3, <2>4
<1> QED  BY <1>1, <1>2, <1>3, <1>4, <1>5

-----------------------------------------------------------------------------
(***************************************************************************)
(* What the workers compute while clients ingest.                          *)
(***************************************************************************)
(* What an evaluation that goes on to its detections writes down.          *)
LEMMA EvaluatesStep ==
  ASSUME Pipeline, [IngestionNext]_allVars, NEW w \in Workers, Evaluates(w)
  PROVE  LET job  == worker[w].job
             list == ListSamples(samples, job.stream, now)
             W    == BuildWindow(list, now)
         IN /\ job \in Job /\ OfStream(job.stream, job.device) /\ ~BuildFails(list, now)
            /\ \E rules \in RuleLists :
                 /\ \A i \in DOMAIN rules : Valid(rules[i])
                 /\ worker'[w] = [at |-> "detected", job |-> job, rules |-> rules, window |-> W,
                                  found |-> Detect(W, SignalOf[job.stream], rules)]
<1>a. DOMAIN worker = Workers /\ worker[w].at = "job" /\ worker'[w].at = "detected"
  BY DEF Pipeline, WorkersOK, Evaluates
<1>b. worker[w].job \in Job /\ OfStream(worker[w].job.stream, worker[w].job.device)
  BY <1>a DEF Pipeline, PipelineTypeOK, SamplesKeepDevice
<1>1. EvaluateTelemetry(w)
  <2>1. ASSUME NEW v \in Workers, TakeJob(v) \/ EvaluateTelemetry(v) \/ EndEvaluation(v)
        PROVE  v = w /\ EvaluateTelemetry(w)
    <3>1. v = w
      BY <1>a, <2>1 DEF TakeJob, EvaluateTelemetry, EndEvaluation, Drop
    <3> QED  BY <1>a, <2>1, <3>1 DEF TakeJob, EndEvaluation
  <2>2. worker' # worker
    BY <1>a
  <2> QED  BY <2>1, <2>2
           DEF IngestionNext, RegistryCall, ingestionVars, IngestTelemetry, GetStream, GetDevice,
               AddSamples, TouchNext, SubmitEvaluation, Tick, allVars
<1>2. ~Drop(w)
  BY <1>a DEF Drop, NoEvaluation
<1> QED  BY <1>a, <1>b, <1>1, <1>2 DEF EvaluateTelemetry

(* It has summarised the samples of its stream that were inserted last.    *)
LEMMA EvaluationSummary ==
  ASSUME Pipeline, NEW job \in Job, OfStream(job.stream, job.device),
         NEW list, list = ListSamples(samples, job.stream, now), ~BuildFails(list, now)
  PROVE  LET W == BuildWindow(list, now)
             I == Listed(job.stream)
         IN /\ W \in Window /\ W.device = job.device
            /\ W.count = Cardinality(I) /\ W.bad = Cardinality({i \in I : ~samples[i].good})
            /\ W.min = Lowest(I) /\ W.max = Highest(I) /\ W.last = Oldest(I)
            /\ W.total = Total(I) /\ W.min <= W.last /\ W.count > 0
            /\ W.count = 1 => W.last = W.min
<1> DEFINE s == job.stream
           I == Listed(s)
           W == BuildWindow(list, now)
<1>1. samples \in Seq(Sample) /\ \A i \in DOMAIN samples : OfStream(samples[i].stream, samples[i].device)
  BY DEF Pipeline, PipelineTypeOK, SamplesKeepDevice
<1>2. PICK pos : Matches(list, pos, I)
  BY <1>1, ListSamplesLists
<1>3. I \in SUBSET (DOMAIN samples) /\ \A i \in I : samples[i].stream = s /\ InWindow(samples[i], now)
  BY DEF Listed, InStream
<1>4. list # <<>> /\ list \in Seq(Sample)
  <2>1. list # <<>>
    BY DEF BuildFails
  <2> QED  BY <1>2, <2>1 DEF Matches
<1> HIDE DEF I, s
<1>5. WindowOf(W, list, pos, Len(list))
  BY <1>1, <1>2, <1>3, <1>4, WindowOfList
<1> HIDE DEF W
<1>6. /\ W \in Window /\ W.device = samples[pos[1]].device /\ pos[1] \in I
      /\ W.count = Cardinality(I) /\ W.bad = Cardinality(Bad(I))
      /\ W.min = Lowest(I) /\ W.max = Highest(I) /\ W.last = Oldest(I) /\ W.total = Total(I)
      /\ W.min <= W.last /\ (W.count = 1 => W.last = W.min)
  BY <1>1, <1>2, <1>3, <1>4, <1>5, WindowSays
<1>7. W.device = job.device
  <2>1. OfStream(s, samples[pos[1]].device)
    BY <1>1, <1>3, <1>6
  <2> QED  BY <1>6, <2>1 DEF OfStream, s
<1>8. W.count > 0
  <2>1. W.count = Len(list) /\ Len(list) \in Nat /\ Len(list) # 0
    BY <1>4, <1>5 DEF WindowOf
  <2> QED  BY <2>1
<1> QED  BY <1>6, <1>7, <1>8 DEF W, I, s, Bad

(* Whatever is inserted meanwhile, and whatever becomes of the stream: the *)
(* window that the rules see is that of the listed samples (store/         *)
(* memory.go ListSamples, domain/telemetry.go BuildWindow).                *)
THEOREM WindowsSummarise == IngestionSpec => WindowSummarises
<1> DEFINE Summarised(w) ==
             Evaluates(w) =>
               LET I == Listed(worker[w].job.stream)
                   W == worker'[w].window
               IN /\ W.device = worker[w].job.device
                  /\ W.count = Cardinality(I) /\ W.bad = Cardinality({i \in I : ~samples[i].good})
                  /\ W.min = Lowest(I) /\ W.max = Highest(I) /\ W.last = Oldest(I)
                  /\ W.total = Total(I)
<1>1. ASSUME Pipeline, [IngestionNext]_allVars PROVE \A w \in Workers : Summarised(w)
  <2> SUFFICES ASSUME NEW w \in Workers, Evaluates(w) PROVE Summarised(w)
    OBVIOUS
  <2> DEFINE job  == worker[w].job
             list == ListSamples(samples, job.stream, now)
             V    == BuildWindow(list, now)
  <2>1. job \in Job /\ OfStream(job.stream, job.device) /\ ~BuildFails(list, now)
    BY <1>1, EvaluatesStep
  <2>2. PICK rules \in RuleLists :
          worker'[w] = [at |-> "detected", job |-> job, rules |-> rules, window |-> V,
                        found |-> Detect(V, SignalOf[job.stream], rules)]
    BY <1>1, EvaluatesStep
  <2>3. worker'[w].window = V
    BY <2>2
  <2> DEFINE I == Listed(job.stream)
  <2>4. /\ V.device = job.device
        /\ V.count = Cardinality(I) /\ V.bad = Cardinality({i \in I : ~samples[i].good})
        /\ V.min = Lowest(I) /\ V.max = Highest(I) /\ V.last = Oldest(I)
        /\ V.total = Total(I)
    BY <1>1, <2>1, EvaluationSummary
  <2> HIDE DEF V
  <2> QED  BY <2>3, <2>4
<1>2. Pipeline /\ [IngestionNext]_allVars => [\A w \in Workers : Summarised(w)]_allVars
  BY <1>1
<1>3. IngestionSpec => []Pipeline
  BY PipelineInvariant, PTL
<1> QED  BY <1>2, <1>3, PTL DEF IngestionSpec, WindowSummarises

(* A rule is reported just when it holds of the listed samples             *)
(* (aggregate/detector.go Detect).                                         *)
THEOREM DetectionsMatch == IngestionSpec => DetectionsMatchSamples
<1> DEFINE Matched(w) ==
             Evaluates(w) =>
               LET s == worker[w].job.stream
                   W == worker'[w]
               IN \A i \in DOMAIN W.rules :
                    (\E k \in DOMAIN W.found : W.found[k] = i) <=>
                       W.rules[i].signal = SignalOf[s] /\ Holds(W.rules[i], Listed(s))
<1>1. ASSUME Pipeline, [IngestionNext]_allVars PROVE \A w \in Workers : Matched(w)
  <2> SUFFICES ASSUME NEW w \in Workers, Evaluates(w) PROVE Matched(w)
    OBVIOUS
  <2> DEFINE job  == worker[w].job
             s    == job.stream
             I    == Listed(s)
             list == ListSamples(samples, s, now)
             W    == BuildWindow(list, now)
             g    == SignalOf[s]
  <2>1. job \in Job /\ OfStream(s, job.device) /\ ~BuildFails(list, now)
    BY <1>1, EvaluatesStep
  <2>2. PICK rules \in RuleLists :
          /\ \A i \in DOMAIN rules : Valid(rules[i])
          /\ worker'[w] = [at |-> "detected", job |-> job, rules |-> rules, window |-> W,
                           found |-> Detect(W, g, rules)]
    BY <1>1, EvaluatesStep
  <2>3. rules \in Seq(Rule) /\ worker'[w].rules = rules /\ worker'[w].found = Detect(W, g, rules)
    BY <2>2, IngestionAssumption DEF IngestionAssumption
  <2>4. /\ W \in Window /\ W.last = Oldest(I) /\ W.min = Lowest(I) /\ W.count = Cardinality(I)
        /\ W.count > 0 /\ (W.count = 1 => W.last = W.min) /\ W.min <= W.last
    BY <1>1, <2>1, EvaluationSummary
  <2> HIDE DEF W, I, g
  <2>5. ASSUME NEW i \in DOMAIN rules
        PROVE  (\E k \in DOMAIN Detect(W, g, rules) : Detect(W, g, rules)[k] = i) <=>
                  rules[i].signal = g /\ Holds(rules[i], I)
    <3>1. Triggered(W, rules[i]) <=> Holds(rules[i], I)
      <4>1. rules[i] \in Rule /\ Valid(rules[i])
        BY <2>2, <2>3
      <4> QED  BY <2>4, <4>1, TriggeredHolds
    <3>2. (\E k \in DOMAIN Detect(W, g, rules) : Detect(W, g, rules)[k] = i) <=>
             rules[i].signal = g /\ Triggered(W, rules[i])
      BY <2>3, DetectFinds
    <3> QED  BY <3>1, <3>2
  <2> QED  BY <2>3, <2>5 DEF I, g
<1>2. Pipeline /\ [IngestionNext]_allVars => [\A w \in Workers : Matched(w)]_allVars
  BY <1>1
<1>3. IngestionSpec => []Pipeline
  BY PipelineInvariant, PTL
<1> QED  BY <1>2, <1>3, PTL DEF IngestionSpec, DetectionsMatchSamples

(* The workers keep their types: the evaluation of a type-correct job      *)
(* builds a window and lists indexes of rules.                             *)
WorkerTypeOK ==
  worker \in [Workers ->
    [at: {"idle", "job", "detected"}, job: Job \cup {None}, rules: Seq(Rule),
     window: Window \cup {None}, found: Seq(Nat)]]

(* No step of the system breaks these types.                               *)
LEMMA WorkerTypeNext ==
  ASSUME Pipeline, WorkerTypeOK, [IngestionNext]_allVars
  PROVE  WorkerTypeOK'
<1> DEFINE R == [at: {"idle", "job", "detected"}, job: Job \cup {None}, rules: Seq(Rule),
                 window: Window \cup {None}, found: Seq(Nat)]
<1>a. worker \in [Workers -> R] /\ jobs \in Seq(Job)
  BY DEF WorkerTypeOK, Pipeline, PipelineTypeOK
<1>b. NoEvaluation \in R
  BY DEF NoEvaluation
<1>1. ASSUME NEW w \in Workers, NEW r \in R, worker' = [worker EXCEPT ![w] = r]
      PROVE  WorkerTypeOK'
  <2>1. worker' \in [Workers -> R]
    <3> HIDE DEF R
    <3> QED  BY <1>a, <1>1
  <2> QED  BY <2>1 DEF WorkerTypeOK
<1>2. ASSUME NEW w \in Workers, Drop(w) PROVE WorkerTypeOK'
  <2> HIDE DEF R
  <2> QED  BY <1>b, <1>1, <1>2 DEF Drop
<1>3. ASSUME NEW w \in Workers, TakeJob(w) PROVE WorkerTypeOK'
  <2>1. Head(jobs) \in Job
    BY <1>a, <1>3, HeadTail DEF TakeJob
  <2> DEFINE r == [at |-> "job", job |-> Head(jobs), rules |-> <<>>, window |-> None, found |-> <<>>]
  <2>2. r \in R
    BY <2>1
  <2>3. worker' = [worker EXCEPT ![w] = r]
    BY <1>3 DEF TakeJob
  <2> HIDE DEF r, R
  <2> QED  BY <1>1, <2>2, <2>3
<1>4. ASSUME NEW w \in Workers, EvaluateTelemetry(w) PROVE WorkerTypeOK'
  <2> DEFINE job  == worker[w].job
             list == ListSamples(samples, job.stream, now)
             W    == BuildWindow(list, now)
  <2>1. CASE Drop(w)
    BY <1>2, <2>1
  <2>2. CASE ~Drop(w)
    <3>1. job \in Job /\ OfStream(job.stream, job.device)
      BY <1>4 DEF EvaluateTelemetry, Pipeline, PipelineTypeOK, SamplesKeepDevice
    <3>2. ~BuildFails(list, now)
      BY <1>4, <2>2 DEF EvaluateTelemetry
    <3>3. PICK rules \in RuleLists :
            worker' = [worker EXCEPT ![w] =
              [at |-> "detected", job |-> job, rules |-> rules, window |-> W,
               found |-> Detect(W, SignalOf[job.stream], rules)]]
      BY <1>4, <2>2 DEF EvaluateTelemetry
    <3>4. rules \in Seq(Rule)
      BY IngestionAssumption DEF IngestionAssumption
    <3>5. W \in Window
      BY <3>1, <3>2, EvaluationSummary
    <3>6. Detect(W, SignalOf[job.stream], rules) \in Seq(Nat)
      BY <3>4, DetectFinds
    <3> DEFINE r == [at |-> "detected", job |-> job, rules |-> rules, window |-> W,
                     found |-> Detect(W, SignalOf[job.stream], rules)]
    <3> HIDE DEF W, job
    <3>7. r \in R
      BY <3>1, <3>4, <3>5, <3>6
    <3> HIDE DEF r, R
    <3> QED  BY <1>1, <3>3, <3>7 DEF r
  <2> QED  BY <2>1, <2>2
<1>5. ASSUME UNCHANGED worker PROVE WorkerTypeOK'
  BY <1>5 DEF WorkerTypeOK
<1>6. ASSUME NEW w \in Workers, EndEvaluation(w) PROVE WorkerTypeOK'
  BY <1>2, <1>6 DEF EndEvaluation
<1> QED  BY <1>3, <1>4, <1>5, <1>6
         DEF IngestionNext, RegistryCall, ingestionVars, IngestTelemetry, GetStream, GetDevice,
             AddSamples, TouchNext, SubmitEvaluation, Tick, allVars

(* Every variable keeps its type, the list of samples and the channel      *)
(* their bounds, and what a worker has computed is a window and indexes of *)
(* rules (service/telemetry.go, store/memory.go, queue/queue.go).          *)
THEOREM IngestionTypeCorrect == IngestionSpec => []IngestionTypeOK
<1>1. IngestionInit => WorkerTypeOK
  BY DEF IngestionInit, WorkerTypeOK, NoEvaluation
<1>2. Pipeline /\ WorkerTypeOK /\ [IngestionNext]_allVars => WorkerTypeOK'
  BY WorkerTypeNext
<1>3. TypeInv /\ Pipeline /\ WorkerTypeOK => IngestionTypeOK
  BY DEF TypeInv, Pipeline, WorkerTypeOK, IngestionTypeOK
<1> QED  BY <1>1, <1>2, <1>3, PipelineInvariant, PTL DEF IngestionSpec
=============================================================================
