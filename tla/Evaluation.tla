----------------------------- MODULE Evaluation -----------------------------
(***************************************************************************)
(* Telemetry evaluation and incident correlation: the workers' jobs of     *)
(* internal/service/telemetry.go and incidents.go over the repository      *)
(* (internal/store/memory.go, queries.go).  An evaluation stores an anomaly*)
(* for each detection, adds it to an open incident of its device and       *)
(* signal or opens one, and links the anomaly to the incident.  Each       *)
(* repository method is one step, and so are the load and the store of the *)
(* unprotected counter behind nextID.                                      *)
(*                                                                         *)
(* What the samples and the active policy make the detector report is a    *)
(* free choice among lists of severities, and what happens to an incident  *)
(* elsewhere (module Response) is a copy written back later, perhaps       *)
(* closed.  The clock only advances here: what is said of windows assumes  *)
(* that nobody sets the wall clock back.                                   *)
(***************************************************************************)
EXTENDS Integers, Sequences

CONSTANTS
  Clients,     \* goroutines that serve HTTP requests
  Workers,     \* goroutines of the job queue
  Devices,     \* registered devices
  Signals,     \* signals that streams carry
  Detections,  \* per signal, what its evaluations detect: lists of severities
  Width,       \* the ten minutes during which an incident takes anomalies
  Buffer,      \* capacity of the job queue
  MaxTime,     \* bound: the clock stops there
  MaxCalls,    \* bound: number of HTTP calls in a behaviour
  None         \* no record, no copy

Severities == 1..5

(* Anomaly and incident ids carry the kind and the number that nextID      *)
(* returned: within a kind they are the numbers.  "open" stands for every  *)
(* status of an incident but "closed".                                     *)
Anomaly  == [id: Nat, device: Devices, signal: Signals, severity: Severities,
             created: Nat, incident: Nat \cup {None}]
Incident == [id: Nat, device: Devices, severity: Severities, status: {"open", "closed"},
             anomalies: SUBSET Nat, opened: Nat]
Job      == [type: {"incident-evaluation"}, device: Devices, signal: Signals]
              \cup [type: {"evidence-rollup"}, incident: Nat]

Procs == Clients \cup Workers

ASSUME EvaluationAssumption ==
  /\ Clients \cap Workers = {}
  /\ Detections \in [Signals -> SUBSET Seq(Severities)]
  /\ Width \in Nat /\ Buffer \in Nat \ {0} /\ MaxTime \in Nat /\ MaxCalls \in Nat
  /\ None \notin Nat \cup Anomaly \cup Incident \cup Job

VARIABLES
  anomalies,  \* the repository: anomaly records
  incidents,  \*   incident records
  sequence,   \* App.sequence, the counter behind nextID
  jobs,       \* the queue's channel
  now,        \* the clock
  frame,      \* per goroutine: where it is and the copies it holds
  calls       \* number of HTTP calls begun

vars == <<anomalies, incidents, sequence, jobs, now, frame, calls>>
-----------------------------------------------------------------------------
(***************************************************************************)
(* The repository and the domain methods.                                  *)
(***************************************************************************)
FaultExists(records, n) == FALSE

Exists(records, n) == \E r \in records : r.id = n

Store(records, r) == {x \in records : x.id # r.id} \cup {r}

NewAnomaly(n, job, severity) ==
  [id |-> n, device |-> job.device, signal |-> job.signal, severity |-> severity,
   created |-> now, incident |-> None]

NewIncident(n, an) ==
  [id |-> n, device |-> an.device, severity |-> an.severity, status |-> "open",
   anomalies |-> {an.id}, opened |-> now]

FaultRaised(severity, other) == severity

Raised(severity, other) == IF other > severity THEN other ELSE severity

(* An incident that correlation has found is not closed.  One that lists   *)
(* the anomaly already is left as it is.                                   *)
AddAnomaly(inc, an) ==
  IF an.id \in inc.anomalies THEN inc
  ELSE [[inc EXCEPT !.anomalies = inc.anomalies \cup {an.id}]
             EXCEPT !.severity = Raised(inc.severity, an.severity)]

Recent(inc) == inc.opened >= now - Width

FaultSameTopic(inc, an) == inc.device = an.device

(* The incident's signal is that of any anomaly it lists.                  *)
SameTopic(inc, an) ==
  /\ inc.device = an.device
  /\ \E x \in anomalies : x.id \in inc.anomalies /\ x.signal = an.signal

(* FindOpenIncident returns any of these: Go iterates a map in any order.  *)
Matching(an) ==
  {inc \in incidents : inc.status # "closed" /\ Recent(inc) /\ SameTopic(inc, an)}
-----------------------------------------------------------------------------
(***************************************************************************)
(* Frames and the queue.                                                   *)
(***************************************************************************)
Kinds  == {"anomaly", "incident"}
Labels == {"idle", "job", "load", "store", "find", "update", "submit", "link",
           "rollup", "evidence", "write"} \cup Kinds

Frame == [at: Labels, job: Job \cup {None}, pending: Seq(Severities),
          kind: Kinds \cup {None}, next: Nat, anomaly: Anomaly \cup {None},
          incident: Incident \cup {None}]

Holding(label, job, severities, an, inc) ==
  [at |-> label, job |-> job, pending |-> severities, kind |-> None, next |-> 0,
   anomaly |-> an, incident |-> inc]

Idle == Holding("idle", None, <<>>, None, None)

At(p, label)   == frame[p].at = label
Enter(p, f)    == frame' = [frame EXCEPT ![p] = f]
GoTo(p, label) == Enter(p, [frame[p] EXCEPT !.at = label])
Return(p)      == Enter(p, Idle)

(* nextID is about to be called for a record of this kind.                 *)
CallNextID(p, job, severities, kind, an, inc) ==
  Enter(p, [at |-> "load", job |-> job, pending |-> severities, kind |-> kind, next |-> 0,
            anomaly |-> an, incident |-> inc])

(* The loop of EvaluateTelemetry.                                          *)
Detect(w, severities) ==
  IF severities = <<>> THEN Return(w)
  ELSE CallNextID(w, frame[w].job, severities, "anomaly", None, None)

Begin(c) ==
  /\ c \in Clients
  /\ At(c, "idle")
  /\ calls < MaxCalls
  /\ calls' = calls + 1

FaultHasRoom == Len(jobs) <= Buffer

HasRoom == Len(jobs) < Buffer

(* Queue.Submit drops the job when the channel is full.                    *)
Submit(job) == jobs' = IF HasRoom THEN Append(jobs, job) ELSE jobs
-----------------------------------------------------------------------------
(* Ingestion ends with one job for each stream it received samples for.    *)
SubmitIncidentEvaluation(c) ==
  /\ Begin(c)
  /\ \E d \in Devices, g \in Signals :
       Submit([type |-> "incident-evaluation", device |-> d, signal |-> g])
  /\ UNCHANGED <<anomalies, incidents, sequence, now, frame>>

(* A call that reads an incident and is to write it back, closed or not.   *)
ReadIncident(c) ==
  /\ Begin(c)
  /\ \E inc \in incidents : \E s \in {inc.status, "closed"} :
       Enter(c, Holding("write", None, <<>>, None, [inc EXCEPT !.status = s]))
  /\ UNCHANGED <<anomalies, incidents, sequence, jobs, now>>

WriteIncident(p) ==
  /\ At(p, "write")
  /\ incidents' = Store(incidents, frame[p].incident)
  /\ Return(p)
  /\ UNCHANGED <<anomalies, sequence, jobs, now, calls>>

TakeJob(w) ==
  /\ w \in Workers
  /\ At(w, "idle")
  /\ jobs # <<>>
  /\ Enter(w, Holding("job", Head(jobs), <<>>, None, None))
  /\ jobs' = Tail(jobs)
  /\ UNCHANGED <<anomalies, incidents, sequence, now, calls>>

EvaluateTelemetry(w) ==
  /\ At(w, "job")
  /\ frame[w].job.type = "incident-evaluation"
  /\ \E severities \in Detections[frame[w].job.signal] : Detect(w, severities)
  /\ UNCHANGED <<anomalies, incidents, sequence, jobs, now, calls>>

(* nextID increments App.sequence without a lock: the load and the store   *)
(* are separate steps, and the read that forms the id, which the Put below *)
(* makes, may return what another goroutine has stored since.              *)
NextIDLoad(w) ==
  /\ At(w, "load")
  /\ Enter(w, [[frame[w] EXCEPT !.at = "store"] EXCEPT !.next = sequence + 1])
  /\ UNCHANGED <<anomalies, incidents, sequence, jobs, now, calls>>

NextIDStore(w) ==
  /\ At(w, "store")
  /\ sequence' = frame[w].next
  /\ GoTo(w, frame[w].kind)
  /\ UNCHANGED <<anomalies, incidents, jobs, now, calls>>

(* A detection whose anomaly id is taken is skipped.                       *)
PutAnomaly(w) ==
  /\ At(w, "anomaly")
  /\ \E n \in {frame[w].next, sequence} :
       LET an   == NewAnomaly(n, frame[w].job, Head(frame[w].pending))
           rest == Tail(frame[w].pending)
       IN
       \/ /\ Exists(anomalies, n)
          /\ Detect(w, rest)
          /\ UNCHANGED anomalies
       \/ /\ ~Exists(anomalies, n)
          /\ anomalies' = Store(anomalies, an)
          /\ Enter(w, Holding("find", frame[w].job, rest, an, None))
  /\ UNCHANGED <<incidents, sequence, jobs, now, calls>>

(* correlateIncident                                                       *)
FindOpenIncident(w) ==
  LET f == frame[w] IN
  /\ At(w, "find")
  /\ \/ \E inc \in Matching(f.anomaly) :
          Enter(w, Holding("update", f.job, f.pending, f.anomaly, AddAnomaly(inc, f.anomaly)))
     \/ /\ Matching(f.anomaly) = {}
        /\ CallNextID(w, f.job, f.pending, "incident", f.anomaly, None)
  /\ UNCHANGED <<anomalies, incidents, sequence, jobs, now, calls>>

UpdateIncident(w) ==
  /\ At(w, "update")
  /\ incidents' = Store(incidents, frame[w].incident)
  /\ GoTo(w, "link")
  /\ UNCHANGED <<anomalies, sequence, jobs, now, calls>>

(* An anomaly whose incident's id is taken stays without an incident.      *)
PutIncident(w) ==
  LET f == frame[w] IN
  /\ At(w, "incident")
  /\ \E n \in {f.next, sequence} :
       LET inc == NewIncident(n, f.anomaly) IN
       \/ /\ Exists(incidents, n)
          /\ Detect(w, f.pending)
          /\ UNCHANGED incidents
       \/ /\ ~Exists(incidents, n)
          /\ incidents' = Store(incidents, inc)
          /\ Enter(w, Holding("submit", f.job, f.pending, f.anomaly, inc))
  /\ UNCHANGED <<anomalies, sequence, jobs, now, calls>>

SubmitEvidenceRollup(w) ==
  /\ At(w, "submit")
  /\ Submit([type |-> "evidence-rollup", incident |-> frame[w].incident.id])
  /\ GoTo(w, "link")
  /\ UNCHANGED <<anomalies, incidents, sequence, now, calls>>

UpdateAnomaly(w) ==
  LET f == frame[w] IN
  /\ At(w, "link")
  /\ anomalies' = Store(anomalies, [f.anomaly EXCEPT !.incident = f.incident.id])
  /\ Detect(w, f.pending)
  /\ UNCHANGED <<incidents, sequence, jobs, now, calls>>

(* The rollup reads the incident, takes an id for its evidence, and writes *)
(* the incident back unless the evidence is refused (module Response).  It *)
(* calls nextID too, so its load and store race with those of evaluations. *)
RollupGet(w) ==
  /\ At(w, "job")
  /\ frame[w].job.type = "evidence-rollup"
  /\ \E inc \in incidents :
       /\ inc.id = frame[w].job.incident
       /\ Enter(w, Holding("rollup", None, <<>>, None, inc))
  /\ UNCHANGED <<anomalies, incidents, sequence, jobs, now, calls>>

RollupLoad(w) ==
  /\ At(w, "rollup")
  /\ Enter(w, [[frame[w] EXCEPT !.at = "evidence"] EXCEPT !.next = sequence + 1])
  /\ UNCHANGED <<anomalies, incidents, sequence, jobs, now, calls>>

RollupPut(w) ==
  /\ At(w, "evidence")
  /\ sequence' = frame[w].next
  /\ Return(w) \/ Enter(w, Holding("write", None, <<>>, None, frame[w].incident))
  /\ UNCHANGED <<anomalies, incidents, jobs, now, calls>>

Tick ==
  /\ now < MaxTime
  /\ now' = now + 1
  /\ UNCHANGED <<anomalies, incidents, sequence, jobs, frame, calls>>
-----------------------------------------------------------------------------
Init ==
  /\ anomalies = {}
  /\ incidents = {}
  /\ sequence = 0
  /\ jobs = <<>>
  /\ now = 0
  /\ frame = [p \in Procs |-> Idle]
  /\ calls = 0

Next ==
  \/ \E p \in Procs :
       \/ SubmitIncidentEvaluation(p)
       \/ ReadIncident(p)
       \/ WriteIncident(p)
       \/ TakeJob(p)
       \/ EvaluateTelemetry(p)
       \/ NextIDLoad(p)
       \/ NextIDStore(p)
       \/ PutAnomaly(p)
       \/ FindOpenIncident(p)
       \/ UpdateIncident(p)
       \/ PutIncident(p)
       \/ SubmitEvidenceRollup(p)
       \/ UpdateAnomaly(p)
       \/ RollupGet(p)
       \/ RollupLoad(p)
       \/ RollupPut(p)
  \/ Tick

Spec == Init /\ [][Next]_vars
-----------------------------------------------------------------------------
(***************************************************************************)
(* Properties                                                              *)
(***************************************************************************)
(* Every variable keeps its type, and ids are unique within a kind.        *)
Unique(records) == \A x, y \in records : x.id = y.id => x = y

TypeOK ==
  /\ anomalies \in SUBSET Anomaly /\ Unique(anomalies)
  /\ incidents \in SUBSET Incident /\ Unique(incidents)
  /\ sequence \in Nat
  /\ jobs \in Seq(Job) /\ Len(jobs) <= Buffer
  /\ now \in Nat
  /\ frame \in [Procs -> Frame]
  /\ calls \in Nat

(* An incident lists stored anomalies of its device and of one signal,     *)
(* although ids collide, stale copies overwrite it and the signal is only  *)
(* compared with any one of its anomalies.                                 *)
OfOneSignal(inc) ==
  \E g \in Signals : \A n \in inc.anomalies :
    \E an \in anomalies : an.id = n /\ an.device = inc.device /\ an.signal = g

IncidentsOfOneSignal == \A inc \in incidents : OfOneSignal(inc)

(* An incident is at least as severe as each anomaly it lists, and was     *)
(* opened at most Width before the anomaly was detected.                   *)
Covers(inc) ==
  \A an \in anomalies : an.id \in inc.anomalies =>
    an.severity <= inc.severity /\ an.created <= inc.opened + Width

IncidentsCoverAnomalies == \A inc \in incidents : Covers(inc)

(* An anomaly is listed by at most one incident, also when ids collide and *)
(* when incidents are found, opened and overwritten at the same time.      *)
ListedOnce ==
  \A inc, other \in incidents : \A n \in inc.anomalies \cap other.anomalies : inc = other

(* When an anomaly is linked, the link names a stored incident of its      *)
(* device, and no other incident lists the anomaly.                        *)
Linked(an) ==
  an.incident # None =>
    /\ \E inc \in incidents : inc.id = an.incident /\ inc.device = an.device
    /\ \A inc \in incidents : an.id \in inc.anomalies => inc.id = an.incident

LinksAgree == \A an \in anomalies : Linked(an)
-----------------------------------------------------------------------------
(* Anomalies are merged by device, signal and time window                  *)
(* (.go-create-new-project.json:38): no two open incidents that would take *)
(* the same anomaly.                                                       *)
OneOpenIncident ==
  \A an \in anomalies : \A x, y \in Matching(an) : x = y
=============================================================================
