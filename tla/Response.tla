------------------------------ MODULE Response ------------------------------
(***************************************************************************)
(* Incident response: the calls that read, change and write back incidents,*)
(* response actions and evidence (internal/service/actions.go, evidence.go,*)
(* incidents.go) over the in-memory repository (internal/store/memory.go), *)
(* and the worker queue that runs their background jobs.                   *)
(*                                                                         *)
(* Every repository method holds the repository's mutex, so it is one      *)
(* step; a service call is several of them, and any other goroutine may    *)
(* run in between.  A goroutine's frame holds the copies it has read:      *)
(* repository reads and writes clone, so a copy never changes under it.    *)
(* A call that the code refuses without having written anything is not a   *)
(* step when it starts and ends within one repository read.                *)
(***************************************************************************)
EXTENDS Integers, Sequences

CONSTANTS
  Clients,            \* goroutines that serve HTTP requests
  Workers,            \* goroutines of the job queue
  IncidentIDs,        \* incidents that correlation has opened
  ActionIDs,          \* action ids that callers send
  Keys,               \* idempotency keys that callers send
  NoteIDs,            \* evidence ids that callers send
  MaxAttemptsInputs,  \* max_attempts values that callers send
  Ops,                \* the calls that clients make in this instance
  Buffer,             \* capacity of the job queue
  MaxCalls,           \* bound: number of HTTP calls in a behaviour
  None                \* no record, no copy

(* The struct types, reduced to the fields that the calls below branch on  *)
(* or write.  Id lists have no duplicates (appendUnique): they are sets.   *)
(* The four action types that always succeed are represented by "notify".  *)
IncidentStatus == {"open", "investigating", "contained", "resolved", "closed"}
ActionStatus   == {"queued", "running", "succeeded", "failed", "skipped"}
ActionTypes    == {"notify", "restart-agent"}
EvidenceIDs    == NoteIDs \cup Nat  \* n stands for the generated "evidence-n"

Incident == [id: IncidentIDs, status: IncidentStatus, actions: SUBSET ActionIDs,
             evidence: SUBSET EvidenceIDs, version: Nat]
Action   == [id: ActionIDs, incident: IncidentIDs, type: ActionTypes, key: Keys,
             status: ActionStatus, attempt: Nat, maxAttempts: Nat]
Evidence == [id: EvidenceIDs, incident: IncidentIDs]
Job      == [type: {"response-action"}, id: ActionIDs]
              \cup [type: {"evidence-rollup"}, id: IncidentIDs]

Procs == Clients \cup Workers

ASSUME ResponseAssumption ==
  /\ Clients \cap Workers = {}
  /\ MaxAttemptsInputs \subseteq Int
  /\ Buffer \in Nat \ {0}
  /\ MaxCalls \in Nat
  /\ None \notin Incident \cup Action \cup Job \cup ActionIDs \cup EvidenceIDs

VARIABLES
  incidents,    \* the repository: incident records by id
  actions,      \*   action records by id, None when there is none
  idempotency,  \*   action id by idempotency key, None when the key is free
  evidence,     \*   evidence records
  sequence,     \* App.sequence, the counter behind nextID
  jobs,         \* the queue's channel
  frame,        \* per goroutine: where it is and the copies it holds
  calls,        \* number of HTTP calls begun
  effects       \* history: how often an action's effect has taken place

store == <<incidents, actions, idempotency, evidence>>
vars  == <<store, sequence, jobs, frame, calls, effects>>

(***************************************************************************)
(* The domain methods: pure functions of a copy.                           *)
(***************************************************************************)
NewAction(a, i, t, k, m) ==
  [id |-> a, incident |-> i, type |-> t, key |-> k, status |-> "queued",
   attempt |-> 0, maxAttempts |-> IF m < 1 THEN 1 ELSE m]

FaultStartable(act) ==
  /\ act.status \in {"queued", "failed"}
  /\ act.attempt <= act.maxAttempts

FaultNoRetry(act) == act.status = "queued" /\ act.attempt < act.maxAttempts

Startable(act) ==
  /\ act.status \in {"queued", "failed"}
  /\ act.attempt < act.maxAttempts

Start(act) == [act EXCEPT !.status = "running", !.attempt = @ + 1]

Succeeds(act) == act.type = "restart-agent" => act.attempt # 1

Finish(act) ==
  [act EXCEPT !.status = IF Succeeds(act) THEN "succeeded" ELSE "failed"]

CanRetry(act) == act.status = "failed" /\ act.attempt < act.maxAttempts

AttachAction(inc, a) ==
  IF inc.status = "closed" THEN inc
  ELSE [inc EXCEPT !.actions = @ \cup {a}, !.version = @ + 1]

FaultAttachEvidence(inc, e) == [inc EXCEPT !.evidence = @ \cup {e}, !.version = @ + 1]

AttachEvidence(inc, e) ==
  IF inc.status = "closed" THEN inc
  ELSE [inc EXCEPT !.evidence = @ \cup {e}, !.version = @ + 1]

FaultReadyToClose(inc) == inc.status = "resolved"

ReadyToClose(inc) == inc.status = "resolved" /\ inc.evidence # {}

Allowed(from) ==
  CASE from = "open"          -> {"investigating", "contained", "resolved"}
    [] from = "investigating" -> {"contained", "resolved"}
    [] from = "contained"     -> {"investigating", "resolved"}
    [] from = "resolved"      -> {"closed", "investigating"}
    [] from = "closed"        -> {}

(* A transition to the status the incident already has succeeds and leaves *)
(* the copy as it is.                                                      *)
MayTransition(inc, s) == s = inc.status \/ s \in Allowed(inc.status)

Transition(inc, s) ==
  IF s = inc.status THEN inc
  ELSE [inc EXCEPT !.status = s, !.version = @ + 1]
-----------------------------------------------------------------------------
(***************************************************************************)
(* Frames, repository writes and the queue.                                *)
(***************************************************************************)
Labels == {"idle", "job",
           "create.put", "create.attach", "create.submit",
           "execute.start", "execute.finish", "execute.submit",
           "cancel.update", "evidence.put", "evidence.attach",
           "rollup.load", "rollup.store", "rollup.put", "rollup.attach",
           "transition.update"}

Frame == [at: Labels, job: Job \cup {None}, incident: Incident \cup {None},
          action: Action \cup {None}, note: EvidenceIDs \cup {None}]

Holding(label, inc, act, n) ==
  [at |-> label, job |-> None, incident |-> inc, action |-> act, note |-> n]

Idle == Holding("idle", None, None, None)

At(p, label)  == frame[p].at = label
Enter(p, f)   == frame' = [frame EXCEPT ![p] = f]
GoTo(p, label) == frame' = [frame EXCEPT ![p].at = label]
Return(p)     == Enter(p, Idle)

(* A client begins a call.                                                 *)
Begin(p, op) ==
  /\ p \in Clients
  /\ op \in Ops
  /\ At(p, "idle")
  /\ calls < MaxCalls
  /\ calls' = calls + 1

UpdateIncident(inc) == incidents' = [incidents EXCEPT ![inc.id] = inc]
UpdateAction(act)   == actions' = [actions EXCEPT ![act.id] = act]

FaultHasEvidence(e) == FALSE

HasEvidence(e) == \E x \in evidence : x.id = e

PutEvidence(e, i) ==
  evidence' = {x \in evidence : x.id # e} \cup {[id |-> e, incident |-> i]}

FaultPutRefused(act) == actions[act.id] # None

FaultPutOverwrites(act) == idempotency[act.key] \notin {None, act.id}

(* PutAction refuses a key that is taken and an id that is taken.          *)
PutRefused(act) == idempotency[act.key] # None \/ actions[act.id] # None

FaultHasRoom == Len(jobs) <= Buffer

HasRoom == Len(jobs) < Buffer

(* Queue.Submit never waits: when the channel is full the job is dropped   *)
(* and App.submit only logs it.                                            *)
Submit(job) == jobs' = IF HasRoom THEN Append(jobs, job) ELSE jobs
-----------------------------------------------------------------------------
(***************************************************************************)
(* CreateAction                                                            *)
(***************************************************************************)
CreateActionGet(p) ==
  /\ Begin(p, "CreateAction")
  /\ \E i \in IncidentIDs, a \in ActionIDs, t \in ActionTypes, k \in Keys,
       m \in MaxAttemptsInputs :
       Enter(p, Holding("create.put", incidents[i], NewAction(a, i, t, k, m), None))
  /\ UNCHANGED <<store, sequence, jobs, effects>>

CreateActionPut(p) ==
  LET act == frame[p].action IN
  /\ At(p, "create.put")
  /\ \/ /\ PutRefused(act)
        /\ Return(p)
        /\ UNCHANGED <<actions, idempotency>>
     \/ /\ ~PutRefused(act)
        /\ UpdateAction(act)
        /\ idempotency' = [idempotency EXCEPT ![act.key] = act.id]
        /\ GoTo(p, "create.attach")
  /\ UNCHANGED <<incidents, evidence, sequence, jobs, calls, effects>>

(* AttachAction's error is ignored: a closed copy is written back as read. *)
CreateActionAttach(p) ==
  /\ At(p, "create.attach")
  /\ UpdateIncident(AttachAction(frame[p].incident, frame[p].action.id))
  /\ GoTo(p, "create.submit")
  /\ UNCHANGED <<actions, idempotency, evidence, sequence, jobs, calls, effects>>

(***************************************************************************)
(* ExecuteAction, called by POST /v1/actions/{id}/execute and by the       *)
(* queue.  A call that finds the action succeeded returns it, one that     *)
(* finds it not startable fails: neither writes anything.                  *)
(***************************************************************************)
EnterExecute(p, a) ==
  Enter(p, Holding("execute.start", None, Start(actions[a]), None))

ExecuteActionGet(p) ==
  /\ Begin(p, "ExecuteAction")
  /\ \E a \in ActionIDs :
       /\ actions[a] # None
       /\ Startable(actions[a])
       /\ EnterExecute(p, a)
  /\ UNCHANGED <<store, sequence, jobs, effects>>

ExecuteActionStart(p) ==
  /\ At(p, "execute.start")
  /\ UpdateAction(frame[p].action)
  /\ GoTo(p, "execute.finish")
  /\ UNCHANGED <<incidents, idempotency, evidence, sequence, jobs, calls, effects>>

ExecuteActionFinish(p) ==
  LET act == frame[p].action IN
  /\ At(p, "execute.finish")
  /\ UpdateAction(Finish(act))
  /\ effects' = [effects EXCEPT ![act.id] = IF Succeeds(act) THEN @ + 1 ELSE @]
  /\ IF CanRetry(Finish(act))
     THEN Enter(p, Holding("execute.submit", None, Finish(act), None))
     ELSE Return(p)
  /\ UNCHANGED <<incidents, idempotency, evidence, sequence, jobs, calls>>

(* The last step of CreateAction and of an execution that may be retried.  *)
SubmitResponseAction(p) ==
  /\ At(p, "create.submit") \/ At(p, "execute.submit")
  /\ Submit([type |-> "response-action", id |-> frame[p].action.id])
  /\ Return(p)
  /\ UNCHANGED <<store, sequence, calls, effects>>

(***************************************************************************)
(* CancelAction                                                            *)
(***************************************************************************)
CancelActionGet(p) ==
  /\ Begin(p, "CancelAction")
  /\ \E a \in ActionIDs :
       /\ actions[a] # None
       /\ actions[a].status = "queued"
       /\ Enter(p, Holding("cancel.update", None,
                           [actions[a] EXCEPT !.status = "skipped"], None))
  /\ UNCHANGED <<store, sequence, jobs, effects>>

CancelActionUpdate(p) ==
  /\ At(p, "cancel.update")
  /\ UpdateAction(frame[p].action)
  /\ Return(p)
  /\ UNCHANGED <<incidents, idempotency, evidence, sequence, jobs, calls, effects>>

(***************************************************************************)
(* AddEvidence                                                             *)
(***************************************************************************)
AddEvidenceGet(p) ==
  /\ Begin(p, "AddEvidence")
  /\ \E i \in IncidentIDs, n \in NoteIDs :
       /\ incidents[i].status # "closed"
       /\ Enter(p, Holding("evidence.put", incidents[i], None, n))
  /\ UNCHANGED <<store, sequence, jobs, effects>>

AddEvidencePut(p) ==
  LET f == frame[p] IN
  /\ At(p, "evidence.put")
  /\ \/ /\ HasEvidence(f.note)
        /\ Return(p)
        /\ UNCHANGED evidence
     \/ /\ ~HasEvidence(f.note)
        /\ PutEvidence(f.note, f.incident.id)
        /\ GoTo(p, "evidence.attach")
  /\ UNCHANGED <<incidents, actions, idempotency, sequence, jobs, calls, effects>>

(* The last step of AddEvidence and of RollupEvidence.  The rollup ignores *)
(* AttachEvidence's error: a closed copy is written back as read.          *)
AttachEvidenceUpdate(p) ==
  /\ At(p, "evidence.attach") \/ At(p, "rollup.attach")
  /\ UpdateIncident(AttachEvidence(frame[p].incident, frame[p].note))
  /\ Return(p)
  /\ UNCHANGED <<actions, idempotency, evidence, sequence, jobs, calls, effects>>

(***************************************************************************)
(* TransitionIncident                                                      *)
(***************************************************************************)
TransitionIncidentGet(p) ==
  /\ Begin(p, "TransitionIncident")
  /\ \E i \in IncidentIDs, s \in IncidentStatus :
       /\ s = "closed" => ReadyToClose(incidents[i])
       /\ MayTransition(incidents[i], s)
       /\ Enter(p, Holding("transition.update", Transition(incidents[i], s), None, None))
  /\ UNCHANGED <<store, sequence, jobs, effects>>

TransitionIncidentUpdate(p) ==
  /\ At(p, "transition.update")
  /\ UpdateIncident(frame[p].incident)
  /\ Return(p)
  /\ UNCHANGED <<actions, idempotency, evidence, sequence, jobs, calls, effects>>
-----------------------------------------------------------------------------
(***************************************************************************)
(* The workers.  Receiving a job and the handler's first repository read   *)
(* are separate steps.                                                     *)
(***************************************************************************)
TakeJob(w) ==
  /\ w \in Workers
  /\ At(w, "idle")
  /\ jobs # <<>>
  /\ Enter(w, [at |-> "job", job |-> Head(jobs), incident |-> None, action |-> None,
               note |-> None])
  /\ jobs' = Tail(jobs)
  /\ UNCHANGED <<store, sequence, calls, effects>>

ProcessResponseAction(w) ==
  LET a == frame[w].job.id IN
  /\ At(w, "job")
  /\ frame[w].job.type = "response-action"
  /\ IF actions[a] # None /\ Startable(actions[a]) THEN EnterExecute(w, a)
     ELSE Return(w)
  /\ UNCHANGED <<store, sequence, jobs, calls, effects>>

ProcessEvidenceRollup(w) ==
  /\ At(w, "job")
  /\ frame[w].job.type = "evidence-rollup"
  /\ Enter(w, Holding("rollup.load", incidents[frame[w].job.id], None, None))
  /\ UNCHANGED <<store, sequence, jobs, calls, effects>>

(* nextID increments App.sequence without a lock: the load and the store   *)
(* are separate steps, and the read that forms the id may return the value *)
(* just stored or what another goroutine has stored since.                 *)
RollupLoad(w) ==
  /\ At(w, "rollup.load")
  /\ Enter(w, Holding("rollup.store", frame[w].incident, None, sequence + 1))
  /\ UNCHANGED <<store, sequence, jobs, calls, effects>>

RollupStore(w) ==
  /\ At(w, "rollup.store")
  /\ sequence' = frame[w].note
  /\ GoTo(w, "rollup.put")
  /\ UNCHANGED <<store, jobs, calls, effects>>

RollupPut(w) ==
  LET inc == frame[w].incident IN
  /\ At(w, "rollup.put")
  /\ \E n \in {frame[w].note, sequence} :
       \/ /\ HasEvidence(n)
          /\ Return(w)
          /\ UNCHANGED evidence
       \/ /\ ~HasEvidence(n)
          /\ PutEvidence(n, inc.id)
          /\ Enter(w, Holding("rollup.attach", inc, None, n))
  /\ UNCHANGED <<incidents, actions, idempotency, sequence, jobs, calls, effects>>
-----------------------------------------------------------------------------
(***************************************************************************)
(* The specification.  It starts where correlation has opened the          *)
(* incidents and submitted a rollup for each; a full queue may have        *)
(* dropped some of the jobs.                                               *)
(***************************************************************************)
NewIncident(i) == [id |-> i, status |-> "open", actions |-> {}, evidence |-> {}, version |-> 1]

RollupJobs == [type: {"evidence-rollup"}, id: IncidentIDs]

Init ==
  /\ incidents = [i \in IncidentIDs |-> NewIncident(i)]
  /\ actions = [a \in ActionIDs |-> None]
  /\ idempotency = [k \in Keys |-> None]
  /\ evidence = {}
  /\ sequence = 0
  /\ \E n \in 0..Buffer : jobs \in [1..n -> RollupJobs]
  /\ \A x, y \in DOMAIN jobs : jobs[x] = jobs[y] => x = y
  /\ frame = [p \in Procs |-> Idle]
  /\ calls = 0
  /\ effects = [a \in ActionIDs |-> 0]

(* What a client may choose to do, and what a goroutine goes on to do.     *)
Request(p) ==
  \/ CreateActionGet(p)
  \/ ExecuteActionGet(p)
  \/ CancelActionGet(p)
  \/ AddEvidenceGet(p)
  \/ TransitionIncidentGet(p)

Resume(p) ==
  \/ CreateActionPut(p)
  \/ CreateActionAttach(p)
  \/ SubmitResponseAction(p)
  \/ ExecuteActionStart(p)
  \/ ExecuteActionFinish(p)
  \/ CancelActionUpdate(p)
  \/ AddEvidencePut(p)
  \/ AttachEvidenceUpdate(p)
  \/ TransitionIncidentUpdate(p)
  \/ TakeJob(p)
  \/ ProcessResponseAction(p)
  \/ ProcessEvidenceRollup(p)
  \/ RollupLoad(p)
  \/ RollupStore(p)
  \/ RollupPut(p)

Next == \E p \in Procs : Request(p) \/ Resume(p)

Spec == Init /\ [][Next]_vars

(* The Go scheduler runs every goroutine that can run; no client has to    *)
(* make a call.                                                            *)
Fairness == \A p \in Procs : WF_vars(Resume(p))

FairSpec == Spec /\ Fairness
-----------------------------------------------------------------------------
(***************************************************************************)
(* Properties                                                              *)
(***************************************************************************)
(* Every variable keeps its type, the queue never exceeds its capacity and *)
(* records are stored under their own id.                                  *)
TypeOK ==
  /\ incidents \in [IncidentIDs -> Incident]
  /\ \A i \in IncidentIDs : incidents[i].id = i
  /\ actions \in [ActionIDs -> Action \cup {None}]
  /\ \A a \in ActionIDs : actions[a] # None => actions[a].id = a
  /\ idempotency \in [Keys -> ActionIDs \cup {None}]
  /\ evidence \in SUBSET Evidence
  /\ sequence \in Nat
  /\ jobs \in Seq(Job)
  /\ Len(jobs) <= Buffer
  /\ frame \in [Procs -> Frame]
  /\ calls \in Nat
  /\ effects \in [ActionIDs -> Nat]

(* An incident is stored as closed only with at least one piece of         *)
(* evidence, whatever calls overlapped with the one that closed it.        *)
ClosedHasEvidence ==
  \A i \in IncidentIDs : incidents[i].status = "closed" => incidents[i].evidence # {}

(* Ids that an incident lists belong to records of the repository that     *)
(* name this incident: a call writes the record before it attaches the id, *)
(* and a record, once written, stays.                                      *)
Resolves(inc) ==
  /\ \A e \in inc.evidence : [id |-> e, incident |-> inc.id] \in evidence
  /\ \A a \in inc.actions : actions[a] # None /\ actions[a].incident = inc.id

ReferencesResolve == \A i \in IncidentIDs : Resolves(incidents[i])

(* An idempotency key belongs to one action for good: the index maps the   *)
(* key of every stored action to it, and no other key, although the action *)
(* is rewritten by execute and cancel from copies.                         *)
KeysIndexActions ==
  \A k \in Keys, a \in ActionIDs :
    idempotency[k] = a <=> actions[a] # None /\ actions[a].key = k

(* Status and attempt of an action fit together even when executions and   *)
(* cancellations overwrite each other: an action that has not run counts   *)
(* no attempt, one that has run counts at most maxAttempts, only the first *)
(* attempt of a restart fails, and only a later one succeeds.              *)
Accounted(act) ==
  /\ act.attempt <= act.maxAttempts
  /\ act.status \in {"queued", "skipped"} <=> act.attempt = 0
  /\ act.status = "failed" => act.type = "restart-agent" /\ act.attempt = 1
  /\ act.status = "succeeded" /\ act.type = "restart-agent" => act.attempt > 1

AttemptsAccounted == \A a \in ActionIDs : actions[a] # None => Accounted(actions[a])

(* The effect of an action takes place at most once: the queue alone never *)
(* runs an action again, and a repeated create request is refused.         *)
EffectOnce == \A a \in ActionIDs : effects[a] <= 1

(* An accepted action does not stay queued, running or waiting for a retry *)
(* as long as no job is dropped, whichever calls race with its execution.  *)
Settled(a) ==
  actions[a] # None => \/ actions[a].status \in {"succeeded", "skipped"}
                       \/ actions[a].status = "failed" /\ ~CanRetry(actions[a])

ActionsSettle == \A a \in ActionIDs : <>[]Settled(a)

(* A closed incident that no call is about to overwrite with another copy  *)
(* never changes again: only a call that overlapped with the one that      *)
(* closed it reopens it or takes evidence from it.                         *)
HoldsIncident ==
  {"create.put", "create.attach", "evidence.put", "evidence.attach", "rollup.load",
   "rollup.store", "rollup.put", "rollup.attach", "transition.update"}

ClosedForGood(i) ==
  /\ incidents[i].status = "closed"
  /\ \A p \in Procs :
       frame[p].at \in HoldsIncident /\ frame[p].incident.id = i =>
         frame[p].incident = incidents[i]

ClosedStays ==
  [][\A i \in IncidentIDs :
       ClosedForGood(i) => ClosedForGood(i)' /\ incidents'[i] = incidents[i]]_vars

(* An action that is settled, with no execution or cancellation of it      *)
(* under way, never changes and never takes effect again, although its job *)
(* may still be queued and requests create, execute and cancel it.         *)
SettledForGood(a) ==
  /\ actions[a] # None /\ Settled(a)
  /\ \A p \in Procs :
       frame[p].at \in {"execute.start", "execute.finish", "cancel.update"} =>
         frame[p].action.id # a

SettledStays ==
  [][\A a \in ActionIDs :
       SettledForGood(a) => /\ SettledForGood(a)'
                            /\ actions'[a] = actions[a] /\ effects'[a] = effects[a]]_vars
-----------------------------------------------------------------------------
(* What the code and its plan say of incidents and actions, and what the   *)
(* runs named in PROJECT.json as violations refute.                        *)

(* "IncidentClosed: {}" (domain/incident.go:91): no status follows closed. *)
ClosedIsFinal ==
  [][\A i \in IncidentIDs :
       incidents[i].status = "closed" => incidents'[i].status = "closed"]_vars

(* "response actions must be idempotent" (.go-create-new-project.json:40): *)
(* an action that has taken effect does not take effect again, however     *)
(* often it is executed.                                                   *)
ActionsIdempotent ==
  [][\A a \in ActionIDs : effects[a] > 0 => effects'[a] = effects[a]]_vars
=============================================================================
