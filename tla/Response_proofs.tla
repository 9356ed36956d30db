-------------------------- MODULE Response_proofs --------------------------
(***************************************************************************)
(* Proofs about Response, for any number of clients, workers, incidents,   *)
(* actions, keys and calls.                                                *)
(*                                                                         *)
(* The invariants of the store are not inductive on their own: a call      *)
(* writes back a copy that it has read or computed earlier.  TypeInv adds  *)
(* which copies a frame holds at each label.                               *)
(***************************************************************************)
EXTENDS Response, TLAPS

HoldsAction ==
  {"create.put", "create.attach", "create.submit", "execute.start",
   "execute.finish", "execute.submit", "cancel.update"}

HoldsNote == {"evidence.put", "evidence.attach", "rollup.store", "rollup.put", "rollup.attach"}

Shape(f) ==
  /\ f.at = "job" => f.job \in Job
  /\ f.at \in HoldsAction => f.action \in Action
  /\ f.at \in HoldsIncident => f.incident \in Incident
  /\ f.at \in HoldsNote => f.note \in EvidenceIDs
  /\ f.at = "rollup.store" => f.note \in Nat

TypeInv == TypeOK /\ \A p \in Procs : Shape(frame[p])

(***************************************************************************)
(* What the domain methods and the frame operators return.                 *)
(***************************************************************************)
(* The methods of ResponseAction return actions; they change the status,   *)
(* and Start the attempt, but neither the identity nor the limit.          *)
SameIdentity(a, b) ==
  /\ a.id = b.id /\ a.incident = b.incident /\ a.key = b.key
  /\ a.type = b.type /\ a.maxAttempts = b.maxAttempts

(* What Start and Finish (domain/action.go) return is an action with the   *)
(* identity of their argument; Start counts the attempt, Finish sets the   *)
(* outcome.                                                                *)
LEMMA ActionMethods ==
  ASSUME NEW act \in Action
  PROVE  /\ Start(act) \in Action /\ SameIdentity(Start(act), act)
         /\ Start(act).status = "running" /\ Start(act).attempt = act.attempt + 1
         /\ Finish(act) \in Action /\ SameIdentity(Finish(act), act)
         /\ Finish(act).status = IF Succeeds(act) THEN "succeeded" ELSE "failed"
         /\ Finish(act).attempt = act.attempt
<1>1. /\ Start(act) \in Action /\ SameIdentity(Start(act), act)
      /\ Start(act).status = "running" /\ Start(act).attempt = act.attempt + 1
  <2> DEFINE s == [act EXCEPT !.status = "running"]
  <2>1. s \in Action /\ SameIdentity(s, act) /\ s.status = "running" /\ s.attempt = act.attempt
    BY DEF Action, ActionStatus, SameIdentity
  <2>2. Start(act) = [s EXCEPT !.attempt = act.attempt + 1]
    BY <2>1 DEF Start
  <2>3. act.attempt + 1 \in Nat
    BY DEF Action
  <2> HIDE DEF s
  <2>4. [s EXCEPT !.attempt = act.attempt + 1] \in Action
    BY <2>1, <2>3 DEF Action
  <2> QED  BY <2>1, <2>2, <2>4 DEF Action, SameIdentity
<1>2. /\ Finish(act) \in Action /\ SameIdentity(Finish(act), act)
      /\ Finish(act).status = IF Succeeds(act) THEN "succeeded" ELSE "failed"
      /\ Finish(act).attempt = act.attempt
  BY DEF Finish, Action, ActionStatus, SameIdentity
<1> QED  BY <1>1, <1>2

(* A cancelled copy.                                                       *)
LEMMA SkippedAction ==
  ASSUME NEW act \in Action
  PROVE  LET r == [act EXCEPT !.status = "skipped"] IN
         r \in Action /\ SameIdentity(r, act) /\ r.status = "skipped" /\ r.attempt = act.attempt
  BY DEF Action, ActionStatus, SameIdentity

(* NewAction returns a queued action that has not been attempted and may   *)
(* be attempted at least once.                                             *)
LEMMA NewActionType ==
  ASSUME NEW a \in ActionIDs, NEW i \in IncidentIDs, NEW t \in ActionTypes, NEW k \in Keys,
         NEW m \in MaxAttemptsInputs
  PROVE  /\ NewAction(a, i, t, k, m) \in Action
         /\ NewAction(a, i, t, k, m).maxAttempts >= 1
<1>1. m \in Int
  BY ResponseAssumption DEF ResponseAssumption
<1> QED  BY <1>1 DEF NewAction, Action, ActionStatus

(* The methods of Incident return incidents and keep the id; each changes  *)
(* the one field that it is about.                                         *)
LEMMA IncidentMethods ==
  ASSUME NEW inc \in Incident
  PROVE  /\ \A a \in ActionIDs : LET r == AttachAction(inc, a) IN
              /\ r \in Incident /\ r.id = inc.id
              /\ r.status = inc.status /\ r.evidence = inc.evidence
              /\ r.actions \subseteq inc.actions \cup {a}
         /\ \A e \in EvidenceIDs : LET r == AttachEvidence(inc, e) IN
              /\ r \in Incident /\ r.id = inc.id
              /\ r.status = inc.status /\ r.actions = inc.actions
              /\ inc.evidence \subseteq r.evidence /\ r.evidence \subseteq inc.evidence \cup {e}
         /\ \A s \in IncidentStatus : LET r == Transition(inc, s) IN
              /\ r \in Incident /\ r.id = inc.id
              /\ r.status = s /\ r.actions = inc.actions /\ r.evidence = inc.evidence
<1>1. \A n \in Nat, x \in Incident : LET r == [x EXCEPT !.version = n] IN
        /\ r \in Incident /\ r.id = x.id /\ r.status = x.status
        /\ r.actions = x.actions /\ r.evidence = x.evidence
  BY DEF Incident
<1>2. inc.version + 1 \in Nat
  BY DEF Incident
<1>3. ASSUME NEW a \in ActionIDs
      PROVE  LET r == AttachAction(inc, a) IN
              /\ r \in Incident /\ r.id = inc.id
              /\ r.status = inc.status /\ r.evidence = inc.evidence
              /\ r.actions \subseteq inc.actions \cup {a}
  <2> DEFINE x == [inc EXCEPT !.actions = @ \cup {a}]
  <2>1. /\ x \in Incident /\ x.id = inc.id /\ x.status = inc.status /\ x.evidence = inc.evidence
        /\ x.actions = inc.actions \cup {a}
    BY DEF Incident
  <2>2. AttachAction(inc, a) = IF inc.status = "closed" THEN inc ELSE [x EXCEPT !.version = inc.version + 1]
    BY DEF AttachAction, Incident
  <2> HIDE DEF x
  <2> QED  BY <1>1, <1>2, <2>1, <2>2
<1>4. ASSUME NEW e \in EvidenceIDs
      PROVE  LET r == AttachEvidence(inc, e) IN
              /\ r \in Incident /\ r.id = inc.id
              /\ r.status = inc.status /\ r.actions = inc.actions
              /\ inc.evidence \subseteq r.evidence /\ r.evidence \subseteq inc.evidence \cup {e}
  <2> DEFINE x == [inc EXCEPT !.evidence = @ \cup {e}]
  <2>1. /\ x \in Incident /\ x.id = inc.id /\ x.status = inc.status /\ x.actions = inc.actions
        /\ x.evidence = inc.evidence \cup {e}
    BY DEF Incident
  <2>2. AttachEvidence(inc, e) = IF inc.status = "closed" THEN inc ELSE [x EXCEPT !.version = inc.version + 1]
    BY DEF AttachEvidence, Incident
  <2> HIDE DEF x
  <2> QED  BY <1>1, <1>2, <2>1, <2>2
<1>5. ASSUME NEW s \in IncidentStatus
      PROVE  LET r == Transition(inc, s) IN
              /\ r \in Incident /\ r.id = inc.id
              /\ r.status = s /\ r.actions = inc.actions /\ r.evidence = inc.evidence
  <2> DEFINE x == [inc EXCEPT !.status = s]
  <2>1. /\ x \in Incident /\ x.id = inc.id /\ x.status = s /\ x.actions = inc.actions
        /\ x.evidence = inc.evidence
    BY DEF Incident
  <2>2. Transition(inc, s) = IF s = inc.status THEN inc ELSE [x EXCEPT !.version = inc.version + 1]
    BY DEF Transition, Incident
  <2> HIDE DEF x
  <2> QED  BY <1>1, <1>2, <2>1, <2>2
<1> QED  BY <1>3, <1>4, <1>5

(* Assigning a frame leaves the frames of the other goroutines alone.      *)
LEMMA EnterFrame ==
  ASSUME frame \in [Procs -> Frame], \A q \in Procs : Shape(frame[q]),
         NEW p \in Procs, NEW f \in Frame, Shape(f), Enter(p, f)
  PROVE  /\ frame' \in [Procs -> Frame]
         /\ \A q \in Procs : Shape(frame'[q])
         /\ frame'[p] = f
         /\ \A q \in Procs \ {p} : frame'[q] = frame[q]
<1> DEFINE g == [frame EXCEPT ![p] = f]
<1>1. frame' = g
  BY DEF Enter
<1>2. g \in [Procs -> Frame] /\ g[p] = f /\ \A q \in Procs \ {p} : g[q] = frame[q]
  OBVIOUS
<1> HIDE DEF g
<1> QED  BY <1>1, <1>2

(* Which copies the goroutine that moves holds next.                       *)
LEMMA HoldingMove ==
  ASSUME frame \in [Procs -> Frame], NEW p \in Procs, NEW l, NEW inc, NEW act, NEW n,
         Enter(p, Holding(l, inc, act, n))
  PROVE  /\ frame'[p].at = l /\ frame'[p].incident = inc
         /\ frame'[p].action = act /\ frame'[p].note = n
         /\ \A q \in Procs \ {p} : frame'[q] = frame[q]
  BY DEF Enter, Holding

(* GoTo moves the frame of p to another label and leaves its copies and    *)
(* every other frame alone.                                                *)
LEMMA GoToMove ==
  ASSUME frame \in [Procs -> Frame], NEW p \in Procs, NEW l, GoTo(p, l)
  PROVE  /\ frame'[p].at = l /\ frame'[p].incident = frame[p].incident
         /\ frame'[p].action = frame[p].action /\ frame'[p].note = frame[p].note
         /\ \A q \in Procs \ {p} : frame'[q] = frame[q]
<1>1. frame[p] \in Frame
  OBVIOUS
<1>2. frame'[p] = [frame[p] EXCEPT !.at = l] /\ \A q \in Procs \ {p} : frame'[q] = frame[q]
  BY DEF GoTo
<1> QED  BY <1>1, <1>2 DEF Frame

(* Return makes the frame of p idle and leaves every other frame alone.    *)
LEMMA ReturnMove ==
  ASSUME frame \in [Procs -> Frame], NEW p \in Procs, Return(p)
  PROVE  frame'[p].at = "idle" /\ \A q \in Procs \ {p} : frame'[q] = frame[q]
  BY HoldingMove DEF Return, Idle

(* A frame made by Holding.                                                *)
LEMMA HoldingFrame ==
  ASSUME NEW l \in Labels, NEW inc \in Incident \cup {None}, NEW act \in Action \cup {None},
         NEW n \in EvidenceIDs \cup {None}
  PROVE  LET f == Holding(l, inc, act, n) IN
         /\ f \in Frame
         /\ f.at = l /\ f.job = None /\ f.incident = inc /\ f.action = act /\ f.note = n
  BY DEF Holding, Frame

(* Entering a label with the copies that the label needs keeps the type and*)
(* the shape of every frame.                                               *)
LEMMA EnterHolding ==
  ASSUME frame \in [Procs -> Frame], \A q \in Procs : Shape(frame[q]),
         NEW p \in Procs, NEW l \in Labels, NEW inc \in Incident \cup {None},
         NEW act \in Action \cup {None}, NEW n \in EvidenceIDs \cup {None},
         Enter(p, Holding(l, inc, act, n)),
         l # "job",
         l \in HoldsAction => act \in Action,
         l \in HoldsIncident => inc \in Incident,
         l \in HoldsNote => n \in EvidenceIDs,
         l = "rollup.store" => n \in Nat
  PROVE  /\ frame' \in [Procs -> Frame]
         /\ \A q \in Procs : Shape(frame'[q])
         /\ frame'[p].at = l
         /\ frame'[p].action = act
         /\ frame'[p].incident = inc
         /\ frame'[p].note = n
         /\ \A q \in Procs \ {p} : frame'[q] = frame[q]
<1> DEFINE f == Holding(l, inc, act, n)
<1>1. /\ f \in Frame
      /\ f.at = l /\ f.incident = inc /\ f.action = act /\ f.note = n
  BY HoldingFrame
<1>2. Enter(p, f)
  OBVIOUS
<1> HIDE DEF f
<1>3. Shape(f)
  BY <1>1 DEF Shape
<1> QED  BY <1>1, <1>2, <1>3, EnterFrame

(* The idle frame has the type and the shape of a frame.                   *)
LEMMA IdleFrame == Idle \in Frame /\ Shape(Idle) /\ Idle.at = "idle"
<1>1. Idle \in Frame /\ Idle.at = "idle"
  BY HoldingFrame DEF Idle, Labels
<1> QED  BY <1>1 DEF Shape, HoldsAction, HoldsIncident, HoldsNote

(* Returning keeps the type and the shape of every frame.                  *)
LEMMA ReturnFrame ==
  ASSUME frame \in [Procs -> Frame], \A q \in Procs : Shape(frame[q]), NEW p \in Procs, Return(p)
  PROVE  /\ frame' \in [Procs -> Frame]
         /\ \A q \in Procs : Shape(frame'[q])
         /\ frame'[p].at = "idle"
         /\ \A q \in Procs \ {p} : frame'[q] = frame[q]
  BY IdleFrame, EnterFrame DEF Return

(* Moving on to another label keeps the copies.                            *)
LEMMA GoToFrame ==
  ASSUME frame \in [Procs -> Frame], \A q \in Procs : Shape(frame[q]),
         NEW p \in Procs, NEW l \in Labels, GoTo(p, l),
         l # "job", l # "rollup.store",
         l \in HoldsAction => frame[p].at \in HoldsAction,
         l \in HoldsIncident => frame[p].at \in HoldsIncident,
         l \in HoldsNote => frame[p].at \in HoldsNote
  PROVE  /\ frame' \in [Procs -> Frame]
         /\ \A q \in Procs : Shape(frame'[q])
         /\ frame'[p].at = l
         /\ frame'[p].action = frame[p].action
         /\ frame'[p].incident = frame[p].incident
         /\ frame'[p].note = frame[p].note
         /\ \A q \in Procs \ {p} : frame'[q] = frame[q]
<1> DEFINE f == [frame[p] EXCEPT !.at = l]
<1>1. Enter(p, f)
  BY DEF GoTo, Enter
<1>2. frame[p] \in Frame /\ Shape(frame[p])
  OBVIOUS
<1>3. /\ f \in Frame /\ f.at = l /\ f.action = frame[p].action
      /\ f.incident = frame[p].incident /\ f.note = frame[p].note
  BY <1>2 DEF Frame
<1> HIDE DEF f
<1>4. Shape(f)
  BY <1>2, <1>3 DEF Shape
<1> QED  BY <1>1, <1>3, <1>4, EnterFrame

(* Repository writes and Queue.Submit keep the types of what they write.   *)
LEMMA StoreIncident ==
  ASSUME TypeOK, NEW inc \in Incident, UpdateIncident(inc)
  PROVE  /\ incidents' \in [IncidentIDs -> Incident]
         /\ \A i \in IncidentIDs : incidents'[i].id = i
         /\ \A i \in IncidentIDs : incidents'[i] = IF i = inc.id THEN inc ELSE incidents[i]
<1>1. inc.id \in IncidentIDs
  BY DEF Incident
<1>2. \A i \in IncidentIDs : incidents'[i] = IF i = inc.id THEN inc ELSE incidents[i]
  BY <1>1 DEF TypeOK, UpdateIncident
<1> QED  BY <1>1, <1>2 DEF TypeOK, UpdateIncident

(* Writing an action under its id (memory.go, UpdateAction) keeps the type *)
(* of the action map.                                                      *)
LEMMA StoreAction ==
  ASSUME TypeOK, NEW act \in Action, UpdateAction(act)
  PROVE  /\ actions' \in [ActionIDs -> Action \cup {None}]
         /\ \A a \in ActionIDs : actions'[a] # None => actions'[a].id = a
         /\ \A a \in ActionIDs : actions'[a] = IF a = act.id THEN act ELSE actions[a]
         /\ act # None
<1>1. act.id \in ActionIDs /\ act # None
  BY ResponseAssumption DEF ResponseAssumption, Action
<1>2. \A a \in ActionIDs : actions'[a] = IF a = act.id THEN act ELSE actions[a]
  BY <1>1 DEF TypeOK, UpdateAction
<1> QED  BY <1>1, <1>2 DEF TypeOK, UpdateAction

(* Submitting a job (queue.go, Submit) keeps the queue a sequence of jobs  *)
(* within its capacity.                                                    *)
LEMMA SubmitJob ==
  ASSUME jobs \in Seq(Job), Len(jobs) <= Buffer, NEW job \in Job, Submit(job)
  PROVE  jobs' \in Seq(Job) /\ Len(jobs') <= Buffer
  BY ResponseAssumption DEF ResponseAssumption, Submit, HasRoom

-----------------------------------------------------------------------------
(***************************************************************************)
(* Type correctness                                                        *)
(***************************************************************************)
(* The initial state has the types.                                        *)
LEMMA TypeInit == Init => TypeInv
<1> SUFFICES ASSUME Init PROVE TypeInv
  OBVIOUS
<1>1. incidents \in [IncidentIDs -> Incident] /\ \A i \in IncidentIDs : incidents[i].id = i
  BY DEF Init, NewIncident, Incident, IncidentStatus
<1>2. jobs \in Seq(Job) /\ Len(jobs) <= Buffer
  <2>1. PICK n \in 0..Buffer : jobs \in [1..n -> RollupJobs]
    BY DEF Init
  <2>2. n \in Nat /\ n <= Buffer
    BY ResponseAssumption DEF ResponseAssumption
  <2>3. RollupJobs \subseteq Job
    BY DEF RollupJobs, Job
  <2>4. jobs \in [1..n -> Job]
    BY <2>1, <2>3
  <2> QED  BY <2>2, <2>4
<1>3. frame \in [Procs -> Frame] /\ \A p \in Procs : Shape(frame[p])
  BY IdleFrame DEF Init
<1> QED  BY <1>1, <1>2, <1>3 DEF Init, TypeInv, TypeOK

(* Every step preserves the typing invariant.                              *)
LEMMA TypeNext == TypeInv /\ [Next]_vars => TypeInv'
<1> SUFFICES ASSUME TypeInv, [Next]_vars PROVE TypeInv'
  OBVIOUS
<1> USE DEF TypeInv
<1>a. frame \in [Procs -> Frame] /\ \A q \in Procs : frame[q] \in Frame /\ Shape(frame[q])
  BY DEF TypeOK
<1>b. Clients \subseteq Procs /\ Workers \subseteq Procs
  BY DEF Procs
<1>1. CASE UNCHANGED vars
  BY <1>1 DEF vars, store, TypeOK
<1>2. ASSUME NEW p \in Procs, CreateActionGet(p)
      PROVE  TypeInv'
  <2>1. PICK i \in IncidentIDs, a \in ActionIDs, t \in ActionTypes, k \in Keys,
             m \in MaxAttemptsInputs :
             Enter(p, Holding("create.put", incidents[i], NewAction(a, i, t, k, m), None))
    BY <1>2 DEF CreateActionGet
  <2>2. incidents[i] \in Incident /\ NewAction(a, i, t, k, m) \in Action
    BY NewActionType DEF TypeOK
  <2>3. frame' \in [Procs -> Frame] /\ \A q \in Procs : Shape(frame'[q])
    BY <2>1, <2>2, <1>a, EnterHolding DEF Labels, HoldsAction, HoldsIncident, HoldsNote
  <2> QED  BY <1>2, <2>3 DEF CreateActionGet, Begin, TypeOK, store
<1>3. ASSUME NEW p \in Procs, CreateActionPut(p)
      PROVE  TypeInv'
  <2> DEFINE act == frame[p].action
  <2>1. act \in Action
    BY <1>3, <1>a DEF CreateActionPut, At, Shape, HoldsAction
  <2>2. CASE Return(p) /\ UNCHANGED <<actions, idempotency>>
    <3>1. frame' \in [Procs -> Frame] /\ \A q \in Procs : Shape(frame'[q])
      BY <2>2, <1>a, ReturnFrame
    <3> QED  BY <1>3, <2>2, <3>1 DEF CreateActionPut, TypeOK
  <2>3. CASE /\ UpdateAction(act)
             /\ idempotency' = [idempotency EXCEPT ![act.key] = act.id]
             /\ GoTo(p, "create.attach")
    <3>1. frame' \in [Procs -> Frame] /\ \A q \in Procs : Shape(frame'[q])
      BY <1>3, <2>3, <1>a, GoToFrame DEF CreateActionPut, At, Labels, HoldsAction, HoldsIncident, HoldsNote
    <3>2. /\ actions' \in [ActionIDs -> Action \cup {None}]
          /\ \A a \in ActionIDs : actions'[a] # None => actions'[a].id = a
      BY <2>1, <2>3, StoreAction
    <3>3. idempotency' \in [Keys -> ActionIDs \cup {None}]
      BY <2>1, <2>3 DEF TypeOK, Action
    <3> QED  BY <1>3, <3>1, <3>2, <3>3 DEF CreateActionPut, TypeOK
  <2> QED  BY <1>3, <2>2, <2>3 DEF CreateActionPut
<1>4. ASSUME NEW p \in Procs, CreateActionAttach(p)
      PROVE  TypeInv'
  <2>1. frame[p].action \in Action /\ frame[p].incident \in Incident /\ frame[p].action.id \in ActionIDs
    BY <1>4, <1>a DEF CreateActionAttach, At, Shape, HoldsAction, HoldsIncident, Action
  <2>2. AttachAction(frame[p].incident, frame[p].action.id) \in Incident
    BY <2>1, IncidentMethods
  <2>3. incidents' \in [IncidentIDs -> Incident] /\ \A i \in IncidentIDs : incidents'[i].id = i
    BY <1>4, <2>2, StoreIncident DEF CreateActionAttach
  <2>4. frame' \in [Procs -> Frame] /\ \A q \in Procs : Shape(frame'[q])
    BY <1>4, <1>a, GoToFrame DEF CreateActionAttach, At, Labels, HoldsAction, HoldsIncident, HoldsNote
  <2> QED  BY <1>4, <2>3, <2>4 DEF CreateActionAttach, TypeOK
<1>5. ASSUME NEW p \in Procs, SubmitResponseAction(p)
      PROVE  TypeInv'
  <2>1. frame[p].action \in Action /\ frame[p].action.id \in ActionIDs
    BY <1>5, <1>a DEF SubmitResponseAction, At, Shape, HoldsAction, Action
  <2>2. [type |-> "response-action", id |-> frame[p].action.id] \in Job
    BY <2>1 DEF Job
  <2>3. jobs' \in Seq(Job) /\ Len(jobs') <= Buffer
    BY <1>5, <2>2, SubmitJob DEF SubmitResponseAction, TypeOK
  <2>4. frame' \in [Procs -> Frame] /\ \A q \in Procs : Shape(frame'[q])
    BY <1>5, <1>a, ReturnFrame DEF SubmitResponseAction
  <2> QED  BY <1>5, <2>3, <2>4 DEF SubmitResponseAction, TypeOK, store
<1>6. ASSUME NEW p \in Procs, NEW a \in ActionIDs, actions[a] # None, EnterExecute(p, a)
      PROVE  frame' \in [Procs -> Frame] /\ \A q \in Procs : Shape(frame'[q])
  <2>1. Start(actions[a]) \in Action
    BY <1>6, ActionMethods DEF TypeOK
  <2> QED  BY <1>6, <2>1, <1>a, EnterHolding DEF EnterExecute, Labels, HoldsAction, HoldsIncident, HoldsNote
<1>7. ASSUME NEW p \in Procs, ExecuteActionGet(p)
      PROVE  TypeInv'
  BY <1>6, <1>7 DEF ExecuteActionGet, Begin, TypeOK, store
<1>8. ASSUME NEW p \in Procs, ExecuteActionStart(p)
      PROVE  TypeInv'
  <2>1. frame[p].action \in Action
    BY <1>8, <1>a DEF ExecuteActionStart, At, Shape, HoldsAction
  <2>2. /\ actions' \in [ActionIDs -> Action \cup {None}]
        /\ \A a \in ActionIDs : actions'[a] # None => actions'[a].id = a
    BY <1>8, <2>1, StoreAction DEF ExecuteActionStart
  <2>3. frame' \in [Procs -> Frame] /\ \A q \in Procs : Shape(frame'[q])
    BY <1>8, <1>a, GoToFrame DEF ExecuteActionStart, At, Labels, HoldsAction, HoldsIncident, HoldsNote
  <2> QED  BY <1>8, <2>2, <2>3 DEF ExecuteActionStart, TypeOK
<1>9. ASSUME NEW p \in Procs, ExecuteActionFinish(p)
      PROVE  TypeInv'
  <2> DEFINE act == frame[p].action
  <2>1. act \in Action /\ act.id \in ActionIDs /\ Finish(act) \in Action
    BY <1>9, <1>a, ActionMethods DEF ExecuteActionFinish, At, Shape, HoldsAction, Action
  <2>2. /\ actions' \in [ActionIDs -> Action \cup {None}]
        /\ \A a \in ActionIDs : actions'[a] # None => actions'[a].id = a
    BY <1>9, <2>1, StoreAction DEF ExecuteActionFinish
  <2>3. effects' \in [ActionIDs -> Nat]
    BY <1>9, <2>1 DEF ExecuteActionFinish, TypeOK
  <2>4. frame' \in [Procs -> Frame] /\ \A q \in Procs : Shape(frame'[q])
    <3>1. CASE Enter(p, Holding("execute.submit", None, Finish(act), None))
      BY <2>1, <3>1, <1>a, EnterHolding DEF Labels, HoldsAction, HoldsIncident, HoldsNote
    <3>2. CASE Return(p)
      BY <3>2, <1>a, ReturnFrame
    <3> QED  BY <1>9, <3>1, <3>2 DEF ExecuteActionFinish
  <2> QED  BY <1>9, <2>2, <2>3, <2>4 DEF ExecuteActionFinish, TypeOK
<1>10. ASSUME NEW p \in Procs, CancelActionGet(p)
       PROVE  TypeInv'
  <2>1. PICK a \in ActionIDs :
          /\ actions[a] # None
          /\ Enter(p, Holding("cancel.update", None, [actions[a] EXCEPT !.status = "skipped"], None))
    BY <1>10 DEF CancelActionGet
  <2>2. actions[a] \in Action
    BY <2>1 DEF TypeOK
  <2>3. [actions[a] EXCEPT !.status = "skipped"] \in Action
    BY <2>2, SkippedAction
  <2>4. frame' \in [Procs -> Frame] /\ \A q \in Procs : Shape(frame'[q])
    BY <2>1, <2>3, <1>a, EnterHolding DEF Labels, HoldsAction, HoldsIncident, HoldsNote
  <2> QED  BY <1>10, <2>4 DEF CancelActionGet, Begin, TypeOK, store
<1>11. ASSUME NEW p \in Procs, CancelActionUpdate(p)
       PROVE  TypeInv'
  <2>1. frame[p].action \in Action
    BY <1>11, <1>a DEF CancelActionUpdate, At, Shape, HoldsAction
  <2>2. /\ actions' \in [ActionIDs -> Action \cup {None}]
        /\ \A a \in ActionIDs : actions'[a] # None => actions'[a].id = a
    BY <1>11, <2>1, StoreAction DEF CancelActionUpdate
  <2>3. frame' \in [Procs -> Frame] /\ \A q \in Procs : Shape(frame'[q])
    BY <1>11, <1>a, ReturnFrame DEF CancelActionUpdate
  <2> QED  BY <1>11, <2>2, <2>3 DEF CancelActionUpdate, TypeOK
<1>12. ASSUME NEW p \in Procs, AddEvidenceGet(p)
       PROVE  TypeInv'
  <2>1. PICK i \in IncidentIDs, n \in NoteIDs :
             Enter(p, Holding("evidence.put", incidents[i], None, n))
    BY <1>12 DEF AddEvidenceGet
  <2>2. incidents[i] \in Incident /\ n \in EvidenceIDs
    BY DEF TypeOK, EvidenceIDs
  <2>3. frame' \in [Procs -> Frame] /\ \A q \in Procs : Shape(frame'[q])
    BY <2>1, <2>2, <1>a, EnterHolding DEF Labels, HoldsAction, HoldsIncident, HoldsNote
  <2> QED  BY <1>12, <2>3 DEF AddEvidenceGet, Begin, TypeOK, store
<1>13. ASSUME NEW n \in EvidenceIDs, NEW i \in IncidentIDs, PutEvidence(n, i)
       PROVE  evidence' \in SUBSET Evidence
  BY <1>13 DEF PutEvidence, TypeOK, Evidence
<1>14. ASSUME NEW p \in Procs, AddEvidencePut(p)
       PROVE  TypeInv'
  <2>1. frame[p].note \in EvidenceIDs /\ frame[p].incident.id \in IncidentIDs
    BY <1>14, <1>a DEF AddEvidencePut, At, Shape, HoldsNote, HoldsIncident, Incident
  <2>2. evidence' \in SUBSET Evidence
    BY <1>14, <2>1, <1>13 DEF AddEvidencePut, TypeOK
  <2>3. frame' \in [Procs -> Frame] /\ \A q \in Procs : Shape(frame'[q])
    <3>1. CASE Return(p)
      BY <3>1, <1>a, ReturnFrame
    <3>2. CASE GoTo(p, "evidence.attach")
      BY <1>14, <3>2, <1>a, GoToFrame
      DEF AddEvidencePut, At, Labels, HoldsAction, HoldsIncident, HoldsNote
    <3> QED  BY <1>14, <3>1, <3>2 DEF AddEvidencePut
  <2> QED  BY <1>14, <2>2, <2>3 DEF AddEvidencePut, TypeOK
<1>15. ASSUME NEW p \in Procs, AttachEvidenceUpdate(p)
       PROVE  TypeInv'
  <2>1. frame[p].note \in EvidenceIDs /\ frame[p].incident \in Incident
    BY <1>15, <1>a DEF AttachEvidenceUpdate, At, Shape, HoldsNote, HoldsIncident
  <2>2. AttachEvidence(frame[p].incident, frame[p].note) \in Incident
    BY <2>1, IncidentMethods
  <2>3. incidents' \in [IncidentIDs -> Incident] /\ \A i \in IncidentIDs : incidents'[i].id = i
    BY <1>15, <2>2, StoreIncident DEF AttachEvidenceUpdate
  <2>4. frame' \in [Procs -> Frame] /\ \A q \in Procs : Shape(frame'[q])
    BY <1>15, <1>a, ReturnFrame DEF AttachEvidenceUpdate
  <2> QED  BY <1>15, <2>3, <2>4 DEF AttachEvidenceUpdate, TypeOK
<1>16. ASSUME NEW p \in Procs, TransitionIncidentGet(p)
       PROVE  TypeInv'
  <2>1. PICK i \in IncidentIDs, s \in IncidentStatus :
             Enter(p, Holding("transition.update", Transition(incidents[i], s), None, None))
    BY <1>16 DEF TransitionIncidentGet
  <2>2. Transition(incidents[i], s) \in Incident
    BY IncidentMethods DEF TypeOK
  <2>3. frame' \in [Procs -> Frame] /\ \A q \in Procs : Shape(frame'[q])
    BY <2>1, <2>2, <1>a, EnterHolding DEF Labels, HoldsAction, HoldsIncident, HoldsNote
  <2> QED  BY <1>16, <2>3 DEF TransitionIncidentGet, Begin, TypeOK, store
<1>17. ASSUME NEW p \in Procs, TransitionIncidentUpdate(p)
       PROVE  TypeInv'
  <2>1. frame[p].incident \in Incident
    BY <1>17, <1>a DEF TransitionIncidentUpdate, At, Shape, HoldsIncident
  <2>2. incidents' \in [IncidentIDs -> Incident] /\ \A i \in IncidentIDs : incidents'[i].id = i
    BY <1>17, <2>1, StoreIncident DEF TransitionIncidentUpdate
  <2>3. frame' \in [Procs -> Frame] /\ \A q \in Procs : Shape(frame'[q])
    BY <1>17, <1>a, ReturnFrame DEF TransitionIncidentUpdate
  <2> QED  BY <1>17, <2>2, <2>3 DEF TransitionIncidentUpdate, TypeOK
<1>18. ASSUME NEW w \in Procs, TakeJob(w)
       PROVE  TypeInv'
  <2> DEFINE f == [at |-> "job", job |-> Head(jobs), incident |-> None, action |-> None,
                   note |-> None]
  <2>1. Head(jobs) \in Job /\ Tail(jobs) \in Seq(Job) /\ Len(Tail(jobs)) <= Buffer
    BY <1>18, ResponseAssumption DEF TakeJob, TypeOK, ResponseAssumption
  <2>2. f \in Frame /\ Shape(f)
    BY <2>1 DEF Frame, Labels, Shape, HoldsAction, HoldsIncident, HoldsNote
  <2>3. Enter(w, f)
    BY <1>18 DEF TakeJob
  <2> HIDE DEF f
  <2>4. frame' \in [Procs -> Frame] /\ \A q \in Procs : Shape(frame'[q])
    BY <2>2, <2>3, <1>a, EnterFrame
  <2> QED  BY <1>18, <2>1, <2>4 DEF TakeJob, TypeOK, store
<1>19. ASSUME NEW w \in Procs, ProcessResponseAction(w)
       PROVE  TypeInv'
  <2>1. frame[w].job.id \in ActionIDs
    <3>1. frame[w].job \in Job /\ frame[w].job.type = "response-action"
      BY <1>19, <1>a DEF ProcessResponseAction, At, Shape
    <3> QED  BY <3>1 DEF Job
  <2>2. frame' \in [Procs -> Frame] /\ \A q \in Procs : Shape(frame'[q])
    BY <1>19, <2>1, <1>6, <1>a, ReturnFrame DEF ProcessResponseAction
  <2> QED  BY <1>19, <2>2 DEF ProcessResponseAction, TypeOK, store
<1>20. ASSUME NEW w \in Procs, ProcessEvidenceRollup(w)
       PROVE  TypeInv'
  <2>1. frame[w].job.id \in IncidentIDs
    BY <1>20, <1>a DEF ProcessEvidenceRollup, At, Shape, Job
  <2>2. incidents[frame[w].job.id] \in Incident
    BY <2>1 DEF TypeOK
  <2>3. frame' \in [Procs -> Frame] /\ \A q \in Procs : Shape(frame'[q])
    BY <1>20, <2>2, <1>a, EnterHolding
    DEF ProcessEvidenceRollup, Labels, HoldsAction, HoldsIncident, HoldsNote
  <2> QED  BY <1>20, <2>3 DEF ProcessEvidenceRollup, TypeOK, store
<1>21. ASSUME NEW w \in Procs, RollupLoad(w)
       PROVE  TypeInv'
  <2>1. frame[w].incident \in Incident /\ sequence + 1 \in Nat /\ sequence + 1 \in EvidenceIDs
    BY <1>21, <1>a DEF RollupLoad, At, Shape, HoldsIncident, TypeOK, EvidenceIDs
  <2>2. frame' \in [Procs -> Frame] /\ \A q \in Procs : Shape(frame'[q])
    BY <1>21, <2>1, <1>a, EnterHolding DEF RollupLoad, Labels, HoldsAction, HoldsIncident, HoldsNote
  <2> QED  BY <1>21, <2>2 DEF RollupLoad, TypeOK, store
<1>22. ASSUME NEW w \in Procs, RollupStore(w)
       PROVE  TypeInv'
  <2>1. frame[w].note \in Nat
    BY <1>22, <1>a DEF RollupStore, At, Shape
  <2>2. frame' \in [Procs -> Frame] /\ \A q \in Procs : Shape(frame'[q])
    BY <1>22, <1>a, GoToFrame DEF RollupStore, At, Labels, HoldsAction, HoldsIncident, HoldsNote
  <2> QED  BY <1>22, <2>1, <2>2 DEF RollupStore, TypeOK, store
<1>23. ASSUME NEW w \in Procs, RollupPut(w)
       PROVE  TypeInv'
  <2> DEFINE inc == frame[w].incident
  <2>1. frame[w].note \in EvidenceIDs /\ sequence \in EvidenceIDs /\ inc \in Incident /\ inc.id \in IncidentIDs
    BY <1>23, <1>a DEF RollupPut, At, Shape, HoldsNote, HoldsIncident, Incident, TypeOK, EvidenceIDs
  <2>2. PICK n \in {frame[w].note, sequence} :
          \/ Return(w) /\ UNCHANGED evidence
          \/ PutEvidence(n, inc.id) /\ Enter(w, Holding("rollup.attach", inc, None, n))
    BY <1>23 DEF RollupPut
  <2>3. evidence' \in SUBSET Evidence
    BY <2>1, <2>2, <1>13 DEF TypeOK
  <2>4. frame' \in [Procs -> Frame] /\ \A q \in Procs : Shape(frame'[q])
    <3>1. CASE Return(w)
      BY <3>1, <1>a, ReturnFrame
    <3>2. CASE Enter(w, Holding("rollup.attach", inc, None, n))
      BY <2>1, <3>2, <1>a, EnterHolding DEF Labels, HoldsAction, HoldsIncident, HoldsNote
    <3> QED  BY <2>2, <3>1, <3>2
  <2> QED  BY <1>23, <2>3, <2>4 DEF RollupPut, TypeOK
<1> QED  BY <1>1, <1>2, <1>3, <1>4, <1>5, <1>7, <1>8, <1>9, <1>10, <1>11, <1>12, <1>14, <1>15,
            <1>16, <1>17, <1>18, <1>19, <1>20, <1>21, <1>22, <1>23 DEF Next, Request, Resume

(* Every reachable state has the types of TypeOK, and every goroutine      *)
(* holds the copies that its next step uses (service/actions.go,           *)
(* evidence.go, incidents.go: no step reads a value it has not set).       *)
THEOREM TypeInvariant == Spec => []TypeInv
<1> QED  BY TypeInit, TypeNext, PTL DEF Spec

(* The type invariant that the runs check.                                 *)
THEOREM TypeCorrect == Spec => []TypeOK
<1>1. TypeInv => TypeOK
  BY DEF TypeInv
<1> QED  BY <1>1, TypeInvariant, PTL

-----------------------------------------------------------------------------
(***************************************************************************)
(* Actions.  What a frame's copy of an action has to do with the stored    *)
(* action: the same identity, so that writing the copy back keeps the      *)
(* index of idempotency keys; and a status and attempt that fit together,  *)
(* so that writing it back over any other execution keeps the accounting.  *)
(***************************************************************************)
HoldsStored == HoldsAction \ {"create.put"}

CopyOK(f) ==
  /\ f.at \in {"create.put", "create.attach"} => f.action.incident = f.incident.id
  /\ f.at \in {"execute.start", "execute.finish"} => f.action.status = "running"
  /\ f.at \in HoldsAction => Accounted(f.action)
  /\ f.at \in HoldsStored => /\ actions[f.action.id] # None
                             /\ SameIdentity(f.action, actions[f.action.id])

ActionInv ==
  /\ \A p \in Procs : CopyOK(frame[p])
  /\ KeysIndexActions
  /\ AttemptsAccounted

(* The domain methods keep the accounting.                                 *)
LEMMA AccountedMethods ==
  ASSUME NEW act \in Action, Accounted(act)
  PROVE  /\ Startable(act) => Accounted(Start(act))
         /\ act.status = "running" => Accounted(Finish(act))
         /\ act.status = "queued" => Accounted([act EXCEPT !.status = "skipped"])
<1>1. act.attempt \in Nat /\ act.maxAttempts \in Nat
  BY DEF Action
<1>2. Startable(act) => Accounted(Start(act))
  BY <1>1, ActionMethods DEF Startable, Accounted, SameIdentity
<1>3. act.status = "running" => Accounted(Finish(act))
  <2> SUFFICES ASSUME act.status = "running" PROVE Accounted(Finish(act))
    OBVIOUS
  <2> DEFINE r == Finish(act)
  <2>1. /\ r.attempt = act.attempt /\ r.maxAttempts = act.maxAttempts /\ r.type = act.type
        /\ r.status = IF Succeeds(act) THEN "succeeded" ELSE "failed"
    BY ActionMethods DEF SameIdentity
  <2>2. act.attempt <= act.maxAttempts /\ act.attempt # 0
    BY DEF Accounted
  <2> HIDE DEF r
  <2>3. Accounted(r)
    <3>1. CASE Succeeds(act)
      BY <1>1, <2>1, <2>2, <3>1 DEF Succeeds, Accounted
    <3>2. CASE ~Succeeds(act)
      BY <1>1, <2>1, <2>2, <3>2 DEF Succeeds, Accounted
    <3> QED  BY <3>1, <3>2
  <2> QED  BY <2>3 DEF r
<1>4. act.status = "queued" => Accounted([act EXCEPT !.status = "skipped"])
  BY <1>1, SkippedAction DEF Accounted, SameIdentity
<1> QED  BY <1>2, <1>3, <1>4

(* Stored actions keep their identity: then the frames of the goroutines   *)
(* that did not move still match the store.                                *)
ActionsStay ==
  \A a \in ActionIDs : actions[a] # None => /\ actions'[a] # None
                                           /\ SameIdentity(actions'[a], actions[a])

(* A step that leaves the identity of stored actions alone keeps what is   *)
(* known of the copies in other frames.                                    *)
LEMMA OtherCopies ==
  ASSUME TypeInv, ActionInv, ActionsStay, NEW p \in Procs,
         \A q \in Procs \ {p} : frame'[q] = frame[q],
         CopyOK(frame[p])'
  PROVE  \A q \in Procs : CopyOK(frame[q])'
<1> SUFFICES ASSUME NEW q \in Procs \ {p} PROVE CopyOK(frame[q])'
  OBVIOUS
<1>1. frame'[q] = frame[q] /\ CopyOK(frame[q]) /\ Shape(frame[q])
  BY DEF ActionInv, TypeInv
<1>2. frame[q].at \in HoldsStored => frame[q].action.id \in ActionIDs
  BY <1>1 DEF Shape, HoldsStored, Action
<1> QED  BY <1>1, <1>2 DEF CopyOK, ActionsStay, SameIdentity

(* Writing a copy of a stored action back.                                 *)
LEMMA WriteBack ==
  ASSUME TypeInv, ActionInv, NEW act \in Action, Accounted(act), UpdateAction(act),
         actions[act.id] # None, SameIdentity(act, actions[act.id]), UNCHANGED idempotency
  PROVE  ActionsStay /\ KeysIndexActions' /\ AttemptsAccounted'
         /\ actions'[act.id] = act /\ act # None
<1>1. /\ \A a \in ActionIDs : actions'[a] = IF a = act.id THEN act ELSE actions[a]
      /\ act # None /\ act.id \in ActionIDs
  BY StoreAction DEF TypeInv, Action
<1>2. ActionsStay
  BY <1>1 DEF ActionsStay, SameIdentity
<1>3. AttemptsAccounted'
  BY <1>1 DEF ActionInv, AttemptsAccounted
<1>4. KeysIndexActions'
  BY <1>1 DEF ActionInv, KeysIndexActions, SameIdentity
<1> QED  BY <1>1, <1>2, <1>3, <1>4

(* The steps that have nothing to do with actions.                         *)
LEMMA Elsewhere ==
  ASSUME TypeInv, NEW p \in Procs,
         \/ AddEvidenceGet(p) \/ AddEvidencePut(p) \/ AttachEvidenceUpdate(p)
         \/ TransitionIncidentGet(p) \/ TransitionIncidentUpdate(p)
         \/ TakeJob(p) \/ ProcessEvidenceRollup(p) \/ RollupLoad(p) \/ RollupStore(p)
         \/ RollupPut(p) \/ SubmitResponseAction(p)
  PROVE  /\ UNCHANGED <<actions, idempotency>>
         /\ frame'[p].at \notin HoldsAction
         /\ \A q \in Procs \ {p} : frame'[q] = frame[q]
<1>a. frame \in [Procs -> Frame]
  BY DEF TypeInv, TypeOK
<1>1. UNCHANGED <<actions, idempotency>>
  BY DEF AddEvidenceGet, AddEvidencePut, AttachEvidenceUpdate, TransitionIncidentGet,
         TransitionIncidentUpdate, TakeJob, ProcessEvidenceRollup, RollupLoad, RollupStore,
         RollupPut, SubmitResponseAction, store
<1>2. CASE AddEvidenceGet(p)
  BY <1>a, <1>1, <1>2, HoldingMove DEF AddEvidenceGet, HoldsAction
<1>3. CASE AddEvidencePut(p)
  BY <1>a, <1>1, <1>3, ReturnMove, GoToMove DEF AddEvidencePut, HoldsAction
<1>4. CASE AttachEvidenceUpdate(p) \/ TransitionIncidentUpdate(p) \/ SubmitResponseAction(p)
  BY <1>a, <1>1, <1>4, ReturnMove
  DEF AttachEvidenceUpdate, TransitionIncidentUpdate, SubmitResponseAction, HoldsAction
<1>5. CASE TransitionIncidentGet(p)
  BY <1>a, <1>1, <1>5, HoldingMove DEF TransitionIncidentGet, HoldsAction
<1>6. CASE TakeJob(p)
  BY <1>a, <1>1, <1>6 DEF TakeJob, Enter, HoldsAction
<1>7. CASE ProcessEvidenceRollup(p) \/ RollupLoad(p)
  BY <1>a, <1>1, <1>7, HoldingMove DEF ProcessEvidenceRollup, RollupLoad, HoldsAction
<1>8. CASE RollupStore(p)
  BY <1>a, <1>1, <1>8, GoToMove DEF RollupStore, HoldsAction
<1>9. CASE RollupPut(p)
  BY <1>a, <1>1, <1>9, ReturnMove, HoldingMove DEF RollupPut, HoldsAction
<1> QED  BY <1>2, <1>3, <1>4, <1>5, <1>6, <1>7, <1>8, <1>9

(* The invariant of actions holds when no action is stored.                *)
LEMMA ActionInit == Init => ActionInv
<1> SUFFICES ASSUME Init PROVE ActionInv
  OBVIOUS
<1>1. \A a \in ActionIDs : a # None
  BY ResponseAssumption DEF ResponseAssumption
<1>2. ASSUME NEW p \in Procs PROVE CopyOK(frame[p])
  BY IdleFrame DEF Init, CopyOK, HoldsAction, HoldsStored
<1> QED  BY <1>1, <1>2 DEF Init, ActionInv, KeysIndexActions, AttemptsAccounted

(* Every step preserves the invariant of stored actions and their copies.  *)
LEMMA ActionNext == TypeInv /\ ActionInv /\ [Next]_vars => ActionInv'
<1> SUFFICES ASSUME TypeInv, ActionInv, [Next]_vars PROVE ActionInv'
  OBVIOUS
<1>a. frame \in [Procs -> Frame] /\ \A q \in Procs : frame[q] \in Frame /\ Shape(frame[q])
  BY DEF TypeInv, TypeOK
<1>b. \A q \in Procs : CopyOK(frame[q])
  BY DEF ActionInv
<1>c. UNCHANGED actions => ActionsStay
  BY DEF ActionsStay, SameIdentity
<1>d. UNCHANGED <<actions, idempotency>> => KeysIndexActions' /\ AttemptsAccounted'
  BY DEF ActionInv, KeysIndexActions, AttemptsAccounted
(* A step that changes no action and moves one goroutine.                  *)
<1>e. ASSUME NEW p \in Procs, UNCHANGED <<actions, idempotency>>, CopyOK(frame[p])',
             \A q \in Procs \ {p} : frame'[q] = frame[q]
      PROVE  ActionInv'
  BY <1>c, <1>d, <1>e, OtherCopies DEF ActionInv
<1>f. ASSUME NEW p \in Procs, frame'[p].at \notin HoldsAction
      PROVE  CopyOK(frame[p])'
  BY <1>f DEF CopyOK, HoldsAction, HoldsStored
<1>1. CASE UNCHANGED vars
  BY <1>1 DEF vars, store, ActionInv, CopyOK, KeysIndexActions, AttemptsAccounted
<1>2. ASSUME NEW p \in Procs, CreateActionGet(p)
      PROVE  ActionInv'
  <2>1. PICK i \in IncidentIDs, a \in ActionIDs, t \in ActionTypes, k \in Keys,
             m \in MaxAttemptsInputs :
             Enter(p, Holding("create.put", incidents[i], NewAction(a, i, t, k, m), None))
    BY <1>2 DEF CreateActionGet
  <2> DEFINE act == NewAction(a, i, t, k, m)
  <2>2. /\ incidents[i] \in Incident /\ incidents[i].id = i
        /\ act \in Action /\ act.incident = i /\ act.status = "queued"
        /\ act.attempt = 0 /\ act.maxAttempts >= 1
    BY NewActionType DEF TypeInv, TypeOK, NewAction
  <2> HIDE DEF act
  <2>3. /\ frame'[p].at = "create.put" /\ frame'[p].incident = incidents[i] /\ frame'[p].action = act
        /\ \A q \in Procs \ {p} : frame'[q] = frame[q]
    BY <2>1, <2>2, <1>a, EnterHolding DEF Labels, HoldsAction, HoldsIncident, HoldsNote, act
  <2>4. Accounted(act)
    BY <2>2 DEF Accounted, Action
  <2>5. CopyOK(frame[p])'
    BY <2>2, <2>3, <2>4 DEF CopyOK, HoldsAction, HoldsStored
  <2> QED  BY <1>2, <1>e, <2>3, <2>5 DEF CreateActionGet, store
<1>3. ASSUME NEW p \in Procs, CreateActionPut(p)
      PROVE  ActionInv'
  <2> DEFINE act == frame[p].action
  <2>1. /\ act \in Action /\ act.id \in ActionIDs /\ act.key \in Keys /\ Accounted(act)
        /\ act.incident = frame[p].incident.id
    BY <1>3, <1>a, <1>b DEF CreateActionPut, At, Shape, CopyOK, HoldsAction, Action
  <2>2. CASE Return(p) /\ UNCHANGED <<actions, idempotency>>
    BY <2>2, <1>a, <1>e, <1>f, ReturnFrame DEF HoldsAction
  <2>3. CASE /\ ~PutRefused(act)
             /\ UpdateAction(act)
             /\ idempotency' = [idempotency EXCEPT ![act.key] = act.id]
             /\ GoTo(p, "create.attach")
    <3>1. /\ frame'[p].at = "create.attach" /\ frame'[p].action = act
          /\ frame'[p].incident = frame[p].incident
          /\ \A q \in Procs \ {p} : frame'[q] = frame[q]
      BY <1>3, <2>3, <1>a, GoToFrame DEF CreateActionPut, At, Labels, HoldsAction, HoldsIncident, HoldsNote
    <3>2. /\ \A a \in ActionIDs : actions'[a] = IF a = act.id THEN act ELSE actions[a]
          /\ act # None
      BY <2>1, <2>3, StoreAction DEF TypeInv
    <3>3. \A k \in Keys : idempotency'[k] = IF k = act.key THEN act.id ELSE idempotency[k]
      BY <2>3 DEF TypeInv, TypeOK
    <3>4. idempotency[act.key] = None /\ actions[act.id] = None
      BY <2>3 DEF PutRefused
    <3>5. ActionsStay
      BY <3>2, <3>4 DEF ActionsStay, SameIdentity
    <3>6. CopyOK(frame[p])'
      BY <2>1, <3>1, <3>2 DEF CopyOK, HoldsAction, HoldsStored, SameIdentity
    <3>7. \A q \in Procs : CopyOK(frame[q])'
      BY <3>1, <3>5, <3>6, OtherCopies
    <3>8. KeysIndexActions'
      <4> SUFFICES ASSUME NEW k \in Keys, NEW a \in ActionIDs
                   PROVE  idempotency'[k] = a <=> actions'[a] # None /\ actions'[a].key = k
        BY DEF KeysIndexActions
      <4>1. idempotency[k] = a <=> actions[a] # None /\ actions[a].key = k
        BY DEF ActionInv, KeysIndexActions
      <4>2. idempotency[act.key] = a <=> actions[a] # None /\ actions[a].key = act.key
        BY <2>1 DEF ActionInv, KeysIndexActions
      <4>3. a # None
        BY ResponseAssumption DEF ResponseAssumption
      <4>4. CASE a = act.id
        BY <2>1, <3>2, <3>3, <3>4, <4>1, <4>4
      <4>5. CASE a # act.id
        BY <2>1, <3>2, <3>3, <3>4, <4>1, <4>2, <4>3, <4>5
      <4> QED  BY <4>4, <4>5
    <3>9. AttemptsAccounted'
      BY <2>1, <3>2 DEF ActionInv, AttemptsAccounted
    <3> QED  BY <3>7, <3>8, <3>9 DEF ActionInv
  <2> QED  BY <1>3, <2>2, <2>3 DEF CreateActionPut
<1>4. ASSUME NEW p \in Procs, CreateActionAttach(p)
      PROVE  ActionInv'
  <2>1. /\ frame'[p].at = "create.submit" /\ frame'[p].action = frame[p].action
        /\ \A q \in Procs \ {p} : frame'[q] = frame[q]
    BY <1>4, <1>a, GoToFrame DEF CreateActionAttach, At, Labels, HoldsAction, HoldsIncident, HoldsNote
  <2>2. UNCHANGED <<actions, idempotency>>
    BY <1>4 DEF CreateActionAttach
  <2>3. CopyOK(frame[p])'
    BY <1>4, <1>b, <2>1, <2>2 DEF CreateActionAttach, At, CopyOK, HoldsAction, HoldsStored
  <2> QED  BY <1>e, <2>1, <2>2, <2>3
<1>5. ASSUME NEW p \in Procs, NEW a \in ActionIDs, actions[a] # None, Startable(actions[a]),
             EnterExecute(p, a), UNCHANGED <<actions, idempotency>>
      PROVE  ActionInv'
  <2> DEFINE act == Start(actions[a])
  <2>1. /\ actions[a] \in Action /\ actions[a].id = a /\ Accounted(actions[a])
    BY <1>5 DEF TypeInv, TypeOK, ActionInv, AttemptsAccounted
  <2>2. /\ act \in Action /\ act.status = "running" /\ SameIdentity(act, actions[a])
        /\ Accounted(act)
    BY <1>5, <2>1, ActionMethods, AccountedMethods
  <2>3. /\ frame'[p].at = "execute.start" /\ frame'[p].action = act
        /\ \A q \in Procs \ {p} : frame'[q] = frame[q]
    BY <1>5, <2>2, <1>a, EnterHolding DEF EnterExecute, Labels, HoldsAction, HoldsIncident, HoldsNote
  <2> HIDE DEF act
  <2>4. CopyOK(frame[p])'
    BY <1>5, <2>1, <2>2, <2>3 DEF CopyOK, HoldsAction, HoldsStored, SameIdentity
  <2> QED  BY <1>5, <1>e, <2>3, <2>4
<1>6. ASSUME NEW p \in Procs, ExecuteActionGet(p)
      PROVE  ActionInv'
  BY <1>5, <1>6 DEF ExecuteActionGet, store
<1>7. ASSUME NEW p \in Procs, ExecuteActionStart(p)
      PROVE  ActionInv'
  <2> DEFINE act == frame[p].action
  <2>1. /\ act \in Action /\ act.status = "running" /\ Accounted(act)
        /\ actions[act.id] # None /\ SameIdentity(act, actions[act.id])
    BY <1>7, <1>a, <1>b DEF ExecuteActionStart, At, Shape, CopyOK, HoldsAction, HoldsStored
  <2>2. /\ ActionsStay /\ KeysIndexActions' /\ AttemptsAccounted'
        /\ actions'[act.id] = act /\ act # None
    BY <1>7, <2>1, WriteBack DEF ExecuteActionStart
  <2>3. /\ frame'[p].at = "execute.finish" /\ frame'[p].action = act
        /\ \A q \in Procs \ {p} : frame'[q] = frame[q]
    BY <1>7, <1>a, GoToFrame DEF ExecuteActionStart, At, Labels, HoldsAction, HoldsIncident, HoldsNote
  <2> HIDE DEF act
  <2>4. CopyOK(frame[p])'
    BY <2>1, <2>2, <2>3 DEF CopyOK, HoldsAction, HoldsStored, SameIdentity
  <2> QED  BY <2>2, <2>3, <2>4, OtherCopies DEF ActionInv
<1>8. ASSUME NEW p \in Procs, ExecuteActionFinish(p)
      PROVE  ActionInv'
  <2> DEFINE act == frame[p].action
  <2> DEFINE fin == Finish(act)
  <2>1. /\ act \in Action /\ act.status = "running" /\ Accounted(act)
        /\ actions[act.id] # None /\ SameIdentity(act, actions[act.id])
    BY <1>8, <1>a, <1>b DEF ExecuteActionFinish, At, Shape, CopyOK, HoldsAction, HoldsStored
  <2>2. fin \in Action /\ SameIdentity(fin, act) /\ Accounted(fin)
    BY <2>1, ActionMethods, AccountedMethods
  <2>3. actions[fin.id] # None /\ SameIdentity(fin, actions[fin.id])
    BY <2>1, <2>2 DEF SameIdentity
  <2>4. UpdateAction(fin) /\ UNCHANGED idempotency
    BY <1>8 DEF ExecuteActionFinish
  <2>5. CASE Enter(p, Holding("execute.submit", None, fin, None))
    <3>1. /\ frame'[p].at = "execute.submit" /\ frame'[p].action = fin
          /\ \A q \in Procs \ {p} : frame'[q] = frame[q]
      BY <2>2, <2>5, <1>a, EnterHolding DEF Labels, HoldsAction, HoldsIncident, HoldsNote
    <3> HIDE DEF fin
    <3>2. /\ ActionsStay /\ KeysIndexActions' /\ AttemptsAccounted'
          /\ actions'[fin.id] = fin /\ fin # None
      BY <2>2, <2>3, <2>4, WriteBack
    <3>3. CopyOK(frame[p])'
      BY <2>2, <3>1, <3>2 DEF CopyOK, HoldsAction, HoldsStored, SameIdentity
    <3> QED  BY <3>1, <3>2, <3>3, OtherCopies DEF ActionInv
  <2>6. CASE Return(p)
    <3>1. ActionsStay /\ KeysIndexActions' /\ AttemptsAccounted'
      BY <2>2, <2>3, <2>4, WriteBack
    <3>2. frame'[p].at \notin HoldsAction /\ \A q \in Procs \ {p} : frame'[q] = frame[q]
      BY <2>6, <1>a, ReturnFrame DEF HoldsAction
    <3> QED  BY <1>f, <3>1, <3>2, OtherCopies DEF ActionInv
  <2> QED  BY <1>8, <2>5, <2>6 DEF ExecuteActionFinish
<1>9. ASSUME NEW p \in Procs, CancelActionGet(p)
      PROVE  ActionInv'
  <2>1. PICK a \in ActionIDs :
          /\ actions[a] # None
          /\ actions[a].status = "queued"
          /\ Enter(p, Holding("cancel.update", None, [actions[a] EXCEPT !.status = "skipped"], None))
    BY <1>9 DEF CancelActionGet
  <2> DEFINE act == [actions[a] EXCEPT !.status = "skipped"]
  <2>2. actions[a] \in Action /\ actions[a].id = a /\ Accounted(actions[a])
    BY <2>1 DEF TypeInv, TypeOK, ActionInv, AttemptsAccounted
  <2>3. act \in Action /\ SameIdentity(act, actions[a]) /\ Accounted(act)
    BY <2>1, <2>2, SkippedAction, AccountedMethods
  <2>4. /\ frame'[p].at = "cancel.update" /\ frame'[p].action = act
        /\ \A q \in Procs \ {p} : frame'[q] = frame[q]
    BY <2>1, <2>3, <1>a, EnterHolding DEF Labels, HoldsAction, HoldsIncident, HoldsNote
  <2>5. UNCHANGED <<actions, idempotency>>
    BY <1>9 DEF CancelActionGet, store
  <2> HIDE DEF act
  <2>6. CopyOK(frame[p])'
    BY <2>1, <2>2, <2>3, <2>4, <2>5 DEF CopyOK, HoldsAction, HoldsStored, SameIdentity
  <2> QED  BY <1>e, <2>4, <2>5, <2>6
<1>10. ASSUME NEW p \in Procs, CancelActionUpdate(p)
       PROVE  ActionInv'
  <2>1. /\ frame[p].action \in Action /\ Accounted(frame[p].action)
        /\ actions[frame[p].action.id] # None
        /\ SameIdentity(frame[p].action, actions[frame[p].action.id])
    BY <1>10, <1>a, <1>b DEF CancelActionUpdate, At, Shape, CopyOK, HoldsAction, HoldsStored
  <2>2. ActionsStay /\ KeysIndexActions' /\ AttemptsAccounted'
    BY <1>10, <2>1, WriteBack DEF CancelActionUpdate
  <2>3. frame'[p].at \notin HoldsAction /\ \A q \in Procs \ {p} : frame'[q] = frame[q]
    BY <1>10, <1>a, ReturnFrame DEF CancelActionUpdate, HoldsAction
  <2> QED  BY <1>f, <2>2, <2>3, OtherCopies DEF ActionInv
<1>11. ASSUME NEW p \in Procs, ProcessResponseAction(p)
       PROVE  ActionInv'
  <2>1. UNCHANGED <<actions, idempotency>>
    BY <1>11 DEF ProcessResponseAction, store
  <2>2. CASE Return(p)
    BY <2>1, <2>2, <1>a, <1>e, <1>f, ReturnFrame DEF HoldsAction
  <2>3. frame[p].job.id \in ActionIDs
    BY <1>11, <1>a DEF ProcessResponseAction, At, Shape, Job
  <2> QED  BY <1>5, <1>11, <2>1, <2>2, <2>3 DEF ProcessResponseAction
<1>12. ASSUME NEW p \in Procs,
              \/ AddEvidenceGet(p) \/ AddEvidencePut(p) \/ AttachEvidenceUpdate(p)
              \/ TransitionIncidentGet(p) \/ TransitionIncidentUpdate(p)
              \/ TakeJob(p) \/ ProcessEvidenceRollup(p) \/ RollupLoad(p) \/ RollupStore(p)
              \/ RollupPut(p) \/ SubmitResponseAction(p)
       PROVE  ActionInv'
  BY <1>e, <1>f, <1>12, Elsewhere
<1> QED  BY <1>1, <1>2, <1>3, <1>4, <1>6, <1>7, <1>8, <1>9, <1>10, <1>11, <1>12 DEF Next, Request, Resume

(* In every reachable state the copies of actions agree with the stored    *)
(* action in identity, their status fits their attempt count, and the      *)
(* idempotency index fits the actions.                                     *)
THEOREM ActionInvariant == Spec => []ActionInv
<1> QED  BY TypeInvariant, ActionInit, ActionNext, PTL DEF Spec

(* The index of idempotency keys always agrees with the stored actions     *)
(* (store/memory.go PutAction, UpdateAction), although executions and      *)
(* cancellations write back copies that are out of date.                   *)
THEOREM KeysAgree == Spec => []KeysIndexActions
<1>1. ActionInv => KeysIndexActions
  BY DEF ActionInv
<1> QED  BY <1>1, ActionInvariant, PTL

(* No action is ever attempted more often than maxAttempts, by its own     *)
(* count, and its status fits that count (domain/action.go Start, Finish), *)
(* however executions and cancellations overwrite each other.              *)
THEOREM AttemptsBounded == Spec => []AttemptsAccounted
<1>1. ActionInv => AttemptsAccounted
  BY DEF ActionInv
<1> QED  BY <1>1, ActionInvariant, PTL

-----------------------------------------------------------------------------
(***************************************************************************)
(* Incidents and evidence.  Records stay once they are written; so what an *)
(* incident refers to when a call reads it still exists when the call      *)
(* writes its copy back, and what the call adds it has stored before.      *)
(***************************************************************************)
Sound(inc) ==
  /\ Resolves(inc)
  /\ inc.status = "closed" => inc.evidence # {}

LinkOK(f) ==
  /\ f.at \in HoldsIncident => Sound(f.incident)
  /\ f.at \in {"evidence.attach", "rollup.attach"} =>
       [id |-> f.note, incident |-> f.incident.id] \in evidence

LinkInv ==
  /\ \A i \in IncidentIDs : Sound(incidents[i])
  /\ \A p \in Procs : LinkOK(frame[p])

(* No step removes an action or a piece of evidence, or gives it to        *)
(* another incident.                                                       *)
LEMMA RecordsStay ==
  ASSUME TypeInv, ActionInv, [Next]_vars
  PROVE  ActionsStay /\ evidence \subseteq evidence'
<1>a. UNCHANGED actions => ActionsStay
  BY DEF ActionsStay, SameIdentity
<1>1. CASE UNCHANGED vars
  BY <1>1, <1>a DEF vars, store
<1>2. ASSUME NEW p \in Procs, CreateActionPut(p)
      PROVE  ActionsStay /\ evidence \subseteq evidence'
  <2>1. frame[p].action \in Action
    BY <1>2 DEF CreateActionPut, At, TypeInv, Shape, HoldsAction
  <2>2. CASE ~PutRefused(frame[p].action) /\ UpdateAction(frame[p].action)
    <3>1. ActionsStay
      BY <2>1, <2>2, StoreAction DEF TypeInv, PutRefused, ActionsStay, SameIdentity
    <3> QED  BY <1>2, <3>1 DEF CreateActionPut
  <2> QED  BY <1>2, <1>a, <2>2 DEF CreateActionPut
<1>3. ASSUME NEW p \in Procs,
             ExecuteActionStart(p) \/ ExecuteActionFinish(p) \/ CancelActionUpdate(p)
      PROVE  ActionsStay /\ evidence \subseteq evidence'
  <2> DEFINE act == frame[p].action
  <2>1. /\ act \in Action
        /\ actions[act.id] # None /\ SameIdentity(act, actions[act.id])
    BY <1>3 DEF ExecuteActionStart, ExecuteActionFinish, CancelActionUpdate, At, TypeInv,
                ActionInv, Shape, CopyOK, HoldsAction, HoldsStored
  <2>2. Finish(act) \in Action /\ SameIdentity(Finish(act), act)
    BY <2>1, ActionMethods
  <2>3. PICK new \in Action : SameIdentity(new, act) /\ UpdateAction(new)
    BY <1>3, <2>1, <2>2
    DEF ExecuteActionStart, ExecuteActionFinish, CancelActionUpdate, SameIdentity
  <2>4. ActionsStay
    BY <2>1, <2>3, StoreAction DEF TypeInv, ActionsStay, SameIdentity
  <2>5. UNCHANGED evidence
    BY <1>3 DEF ExecuteActionStart, ExecuteActionFinish, CancelActionUpdate
  <2> QED  BY <2>4, <2>5
<1>4. ASSUME NEW e, NEW i, ~HasEvidence(e), PutEvidence(e, i)
      PROVE  evidence \subseteq evidence'
  BY <1>4 DEF HasEvidence, PutEvidence
<1>5. ASSUME NEW p \in Procs, AddEvidencePut(p)
      PROVE  ActionsStay /\ evidence \subseteq evidence'
  BY <1>a, <1>4, <1>5 DEF AddEvidencePut
<1>6. ASSUME NEW p \in Procs, RollupPut(p)
      PROVE  ActionsStay /\ evidence \subseteq evidence'
  BY <1>a, <1>4, <1>6 DEF RollupPut
<1>7. ASSUME NEW p \in Procs,
             \/ CreateActionGet(p) \/ ExecuteActionGet(p) \/ CancelActionGet(p)
             \/ AddEvidenceGet(p) \/ TransitionIncidentGet(p)
             \/ CreateActionAttach(p) \/ SubmitResponseAction(p)
             \/ AttachEvidenceUpdate(p) \/ TransitionIncidentUpdate(p) \/ TakeJob(p)
             \/ ProcessResponseAction(p) \/ ProcessEvidenceRollup(p) \/ RollupLoad(p) \/ RollupStore(p)
      PROVE  ActionsStay /\ evidence \subseteq evidence'
  BY <1>a, <1>7 DEF CreateActionGet, ExecuteActionGet, CancelActionGet, AddEvidenceGet,
       TransitionIncidentGet, CreateActionAttach, SubmitResponseAction, AttachEvidenceUpdate,
       TransitionIncidentUpdate, TakeJob, ProcessResponseAction, ProcessEvidenceRollup,
       RollupLoad, RollupStore, store
<1> QED  BY <1>1, <1>2, <1>3, <1>5, <1>6, <1>7 DEF Next, Request, Resume

(* What an incident copy refers to stays stored when records are only      *)
(* added.                                                                  *)
LEMMA SoundStays ==
  ASSUME ActionsStay, evidence \subseteq evidence', NEW inc \in Incident, Sound(inc)
  PROVE  Sound(inc)'
<1>1. inc.actions \subseteq ActionIDs
  BY DEF Incident
<1> QED  BY <1>1 DEF Sound, Resolves, ActionsStay, SameIdentity

(* The copies of incidents in the frames of other goroutines stay sound    *)
(* when records are only added.                                            *)
LEMMA OtherLinks ==
  ASSUME TypeInv, LinkInv, ActionsStay, evidence \subseteq evidence', NEW p \in Procs,
         \A q \in Procs \ {p} : frame'[q] = frame[q],
         LinkOK(frame[p])'
  PROVE  \A q \in Procs : LinkOK(frame[q])'
<1> SUFFICES ASSUME NEW q \in Procs \ {p} PROVE LinkOK(frame[q])'
  OBVIOUS
<1>1. frame'[q] = frame[q] /\ LinkOK(frame[q]) /\ Shape(frame[q])
  BY DEF LinkInv, TypeInv
<1>2. \A x \in Incident : Sound(x) => Sound(x)'
  BY SoundStays
<1>3. frame'[q].at \in HoldsIncident => Sound(frame[q].incident)'
  BY <1>1, <1>2 DEF LinkOK, Shape, Sound, Resolves
<1> QED  BY <1>1, <1>3 DEF LinkOK

(* Storing a sound incident.                                               *)
LEMMA StoreSound ==
  ASSUME TypeInv, LinkInv, ActionsStay, evidence \subseteq evidence',
         NEW inc \in Incident, Sound(inc), UpdateIncident(inc)
  PROVE  \A i \in IncidentIDs : Sound(incidents[i])'
<1>1. \A i \in IncidentIDs : incidents'[i] = IF i = inc.id THEN inc ELSE incidents[i]
  BY StoreIncident DEF TypeInv
<1>2. \A i \in IncidentIDs : incidents[i] \in Incident /\ Sound(incidents[i])
  BY DEF TypeInv, TypeOK, LinkInv
<1>3. Sound(inc)' /\ \A x \in Incident : Sound(x) => Sound(x)'
  BY SoundStays
<1> SUFFICES ASSUME NEW i \in IncidentIDs PROVE Sound(incidents[i])'
  OBVIOUS
<1> QED  BY <1>1, <1>2, <1>3 DEF Sound, Resolves

(* The steps that have nothing to do with incidents.                       *)
LEMMA Apart ==
  ASSUME TypeInv, NEW p \in Procs,
         \/ ExecuteActionGet(p) \/ ExecuteActionStart(p) \/ ExecuteActionFinish(p)
         \/ SubmitResponseAction(p) \/ CancelActionGet(p) \/ CancelActionUpdate(p)
         \/ TakeJob(p) \/ ProcessResponseAction(p)
  PROVE  /\ UNCHANGED <<incidents, evidence>>
         /\ frame'[p].at \notin HoldsIncident
         /\ \A q \in Procs \ {p} : frame'[q] = frame[q]
<1>a. frame \in [Procs -> Frame]
  BY DEF TypeInv, TypeOK
<1>1. UNCHANGED <<incidents, evidence>>
  BY DEF ExecuteActionGet, ExecuteActionStart, ExecuteActionFinish, SubmitResponseAction,
         CancelActionGet, CancelActionUpdate, TakeJob, ProcessResponseAction, store
<1>2. CASE ExecuteActionGet(p)
  BY <1>a, <1>1, <1>2, HoldingMove DEF ExecuteActionGet, EnterExecute, HoldsIncident
<1>3. CASE ExecuteActionStart(p)
  BY <1>a, <1>1, <1>3, GoToMove DEF ExecuteActionStart, HoldsIncident
<1>4. CASE ExecuteActionFinish(p)
  BY <1>a, <1>1, <1>4, HoldingMove, ReturnMove DEF ExecuteActionFinish, HoldsIncident
<1>5. CASE SubmitResponseAction(p) \/ CancelActionUpdate(p)
  BY <1>a, <1>1, <1>5, ReturnMove DEF SubmitResponseAction, CancelActionUpdate, HoldsIncident
<1>6. CASE CancelActionGet(p)
  BY <1>a, <1>1, <1>6, HoldingMove DEF CancelActionGet, HoldsIncident
<1>7. CASE TakeJob(p)
  BY <1>a, <1>1, <1>7 DEF TakeJob, Enter, HoldsIncident
<1>8. CASE ProcessResponseAction(p)
  BY <1>a, <1>1, <1>8, HoldingMove, ReturnMove DEF ProcessResponseAction, EnterExecute, HoldsIncident
<1> QED  BY <1>2, <1>3, <1>4, <1>5, <1>6, <1>7, <1>8

(* New incidents list nothing and are open.                                *)
LEMMA LinkInit == Init => LinkInv
  BY IdleFrame DEF Init, LinkInv, LinkOK, Sound, Resolves, NewIncident, HoldsIncident

(* Every step preserves that incidents and their copies refer to stored    *)
(* records, and are closed only with evidence.                             *)
LEMMA LinkNext == TypeInv /\ ActionInv /\ LinkInv /\ [Next]_vars => LinkInv'
<1> SUFFICES ASSUME TypeInv, ActionInv, LinkInv, [Next]_vars PROVE LinkInv'
  OBVIOUS
<1>a. frame \in [Procs -> Frame] /\ \A q \in Procs : Shape(frame[q]) /\ LinkOK(frame[q])
  BY DEF TypeInv, TypeOK, LinkInv
<1>b. ActionsStay /\ evidence \subseteq evidence'
  BY RecordsStay
<1>c. \A x \in Incident : Sound(x) => Sound(x)'
  BY <1>b, SoundStays
<1>d. \A i \in IncidentIDs : incidents[i] \in Incident /\ incidents[i].id = i /\ Sound(incidents[i])
  BY DEF TypeInv, TypeOK, LinkInv
(* A step that stores no incident and moves one goroutine.                 *)
<1>e. ASSUME NEW p \in Procs, UNCHANGED incidents, LinkOK(frame[p])',
             \A q \in Procs \ {p} : frame'[q] = frame[q]
      PROVE  LinkInv'
  <2>1. \A q \in Procs : LinkOK(frame[q])'
    BY <1>b, <1>e, OtherLinks
  <2>2. \A i \in IncidentIDs : Sound(incidents[i])'
    BY <1>c, <1>d, <1>e DEF Sound, Resolves
  <2> QED  BY <2>1, <2>2 DEF LinkInv
<1>f. ASSUME NEW p \in Procs, frame'[p].at \notin HoldsIncident
      PROVE  LinkOK(frame[p])'
  BY <1>f DEF LinkOK, HoldsIncident
(* A step that stores a sound copy and drops it.                           *)
<1>g. ASSUME NEW p \in Procs, NEW inc \in Incident, Sound(inc), UpdateIncident(inc),
             frame'[p].at \notin HoldsIncident,
             \A q \in Procs \ {p} : frame'[q] = frame[q]
      PROVE  LinkInv'
  <2>1. \A q \in Procs : LinkOK(frame[q])'
    BY <1>b, <1>f, <1>g, OtherLinks
  <2>2. \A i \in IncidentIDs : Sound(incidents[i])'
    BY <1>b, <1>g, StoreSound
  <2> QED  BY <2>1, <2>2 DEF LinkInv
(* A step that goes on to a label where only the copy matters.             *)
<1>h. ASSUME NEW p \in Procs, NEW inc \in Incident, Sound(inc), frame'[p].incident = inc,
             frame'[p].at \notin {"evidence.attach", "rollup.attach"}
      PROVE  LinkOK(frame[p])'
  BY <1>c, <1>h DEF LinkOK, Sound, Resolves
<1>1. CASE UNCHANGED vars
  BY <1>1 DEF vars, store, LinkInv, LinkOK, Sound, Resolves
<1>2. ASSUME NEW p \in Procs, CreateActionGet(p)
      PROVE  LinkInv'
  <2>1. PICK i \in IncidentIDs :
             \E act : Enter(p, Holding("create.put", incidents[i], act, None))
    BY <1>2 DEF CreateActionGet
  <2>2. /\ frame'[p].at = "create.put" /\ frame'[p].incident = incidents[i]
        /\ \A q \in Procs \ {p} : frame'[q] = frame[q]
    BY <2>1, <1>a, HoldingMove
  <2> QED  BY <1>2, <1>d, <1>e, <1>h, <2>2 DEF CreateActionGet, store
<1>3. ASSUME NEW p \in Procs, CreateActionPut(p)
      PROVE  LinkInv'
  <2>1. frame[p].incident \in Incident /\ Sound(frame[p].incident) /\ UNCHANGED incidents
    BY <1>3, <1>a DEF CreateActionPut, At, Shape, LinkOK, HoldsIncident
  <2>2. CASE Return(p)
    BY <2>1, <2>2, <1>a, <1>e, <1>f, ReturnMove DEF HoldsIncident
  <2>3. CASE GoTo(p, "create.attach")
    BY <2>1, <2>3, <1>a, <1>e, <1>h, GoToMove
  <2> QED  BY <1>3, <2>2, <2>3 DEF CreateActionPut
<1>4. ASSUME NEW p \in Procs, CreateActionAttach(p)
      PROVE  LinkInv'
  <2> DEFINE inc == frame[p].incident
  <2> DEFINE act == frame[p].action
  <2>1. inc \in Incident /\ Sound(inc) /\ act \in Action /\ act.id \in ActionIDs
    BY <1>4, <1>a DEF CreateActionAttach, At, Shape, LinkOK, HoldsIncident, HoldsAction, Action
  <2>2. actions[act.id] # None /\ actions[act.id].incident = inc.id
    BY <1>4 DEF CreateActionAttach, At, ActionInv, CopyOK, HoldsAction, HoldsStored, SameIdentity
  <2> HIDE DEF inc, act
  <2>3. AttachAction(inc, act.id) \in Incident /\ Sound(AttachAction(inc, act.id))
    BY <2>1, <2>2, IncidentMethods DEF Sound, Resolves
  <2>4. UpdateIncident(AttachAction(inc, act.id)) /\ GoTo(p, "create.submit")
    BY <1>4 DEF CreateActionAttach, inc, act
  <2>5. frame'[p].at = "create.submit" /\ \A q \in Procs \ {p} : frame'[q] = frame[q]
    BY <2>4, <1>a, GoToMove
  <2> QED  BY <1>g, <2>3, <2>4, <2>5 DEF HoldsIncident
<1>5. ASSUME NEW p \in Procs, AddEvidenceGet(p)
      PROVE  LinkInv'
  <2>1. PICK i \in IncidentIDs : \E n : Enter(p, Holding("evidence.put", incidents[i], None, n))
    BY <1>5 DEF AddEvidenceGet
  <2>2. /\ frame'[p].at = "evidence.put" /\ frame'[p].incident = incidents[i]
        /\ \A q \in Procs \ {p} : frame'[q] = frame[q]
    BY <2>1, <1>a, HoldingMove
  <2> QED  BY <1>5, <1>d, <1>e, <1>h, <2>2 DEF AddEvidenceGet, store
(* Evidence stored, about to be attached.                                  *)
<1>6. ASSUME NEW p \in Procs, NEW inc \in Incident, Sound(inc), NEW n, PutEvidence(n, inc.id),
             UNCHANGED incidents, frame'[p].incident = inc, frame'[p].note = n,
             \A q \in Procs \ {p} : frame'[q] = frame[q]
      PROVE  LinkInv'
  <2>1. [id |-> n, incident |-> inc.id] \in evidence'
    BY <1>6 DEF PutEvidence
  <2>2. LinkOK(frame[p])'
    BY <1>c, <1>6, <2>1 DEF LinkOK, Sound, Resolves
  <2> QED  BY <1>e, <1>6, <2>2
<1>7. ASSUME NEW p \in Procs, AddEvidencePut(p)
      PROVE  LinkInv'
  <2>1. frame[p].incident \in Incident /\ Sound(frame[p].incident) /\ UNCHANGED incidents
    BY <1>7, <1>a DEF AddEvidencePut, At, Shape, LinkOK, HoldsIncident
  <2>2. CASE Return(p)
    BY <2>1, <2>2, <1>a, <1>e, <1>f, ReturnMove DEF HoldsIncident
  <2>3. CASE PutEvidence(frame[p].note, frame[p].incident.id) /\ GoTo(p, "evidence.attach")
    BY <2>1, <2>3, <1>a, <1>6, GoToMove
  <2> QED  BY <1>7, <2>2, <2>3 DEF AddEvidencePut
<1>8. ASSUME NEW p \in Procs, AttachEvidenceUpdate(p)
      PROVE  LinkInv'
  <2> DEFINE inc == frame[p].incident
  <2> DEFINE n == frame[p].note
  <2>1. /\ inc \in Incident /\ Sound(inc) /\ n \in EvidenceIDs
        /\ [id |-> n, incident |-> inc.id] \in evidence
    BY <1>8, <1>a DEF AttachEvidenceUpdate, At, Shape, LinkOK, HoldsIncident, HoldsNote
  <2> HIDE DEF inc, n
  <2>2. AttachEvidence(inc, n) \in Incident /\ Sound(AttachEvidence(inc, n))
    BY <2>1, IncidentMethods DEF Sound, Resolves
  <2>3. UpdateIncident(AttachEvidence(inc, n)) /\ Return(p)
    BY <1>8 DEF AttachEvidenceUpdate, inc, n
  <2>4. frame'[p].at = "idle" /\ \A q \in Procs \ {p} : frame'[q] = frame[q]
    BY <2>3, <1>a, ReturnMove
  <2> QED  BY <1>g, <2>2, <2>3, <2>4 DEF HoldsIncident
<1>9. ASSUME NEW p \in Procs, TransitionIncidentGet(p)
      PROVE  LinkInv'
  <2>1. PICK i \in IncidentIDs, s \in IncidentStatus :
          /\ s = "closed" => ReadyToClose(incidents[i])
          /\ Enter(p, Holding("transition.update", Transition(incidents[i], s), None, None))
    BY <1>9 DEF TransitionIncidentGet
  <2> DEFINE inc == Transition(incidents[i], s)
  <2>2. inc \in Incident /\ Sound(inc)
    BY <1>d, <2>1, IncidentMethods DEF Sound, Resolves, ReadyToClose
  <2>3. /\ frame'[p].at = "transition.update" /\ frame'[p].incident = inc
        /\ \A q \in Procs \ {p} : frame'[q] = frame[q]
    BY <2>1, <1>a, HoldingMove
  <2> QED  BY <1>9, <1>e, <1>h, <2>2, <2>3 DEF TransitionIncidentGet, store
<1>10. ASSUME NEW p \in Procs, TransitionIncidentUpdate(p)
       PROVE  LinkInv'
  <2>1. frame[p].incident \in Incident /\ Sound(frame[p].incident)
    BY <1>10, <1>a DEF TransitionIncidentUpdate, At, Shape, LinkOK, HoldsIncident
  <2>2. frame'[p].at = "idle" /\ \A q \in Procs \ {p} : frame'[q] = frame[q]
    BY <1>10, <1>a, ReturnMove DEF TransitionIncidentUpdate
  <2> QED  BY <1>10, <1>g, <2>1, <2>2 DEF TransitionIncidentUpdate, HoldsIncident
<1>11. ASSUME NEW p \in Procs, ProcessEvidenceRollup(p)
       PROVE  LinkInv'
  <2>1. frame[p].job.id \in IncidentIDs
    BY <1>11, <1>a DEF ProcessEvidenceRollup, At, Shape, Job
  <2>2. /\ frame'[p].at = "rollup.load" /\ frame'[p].incident = incidents[frame[p].job.id]
        /\ \A q \in Procs \ {p} : frame'[q] = frame[q]
    BY <1>11, <1>a, HoldingMove DEF ProcessEvidenceRollup
  <2> QED  BY <1>11, <1>d, <1>e, <1>h, <2>1, <2>2 DEF ProcessEvidenceRollup, store
<1>12. ASSUME NEW p \in Procs, RollupLoad(p) \/ RollupStore(p)
       PROVE  LinkInv'
  <2>1. frame[p].incident \in Incident /\ Sound(frame[p].incident) /\ UNCHANGED incidents
    BY <1>12, <1>a DEF RollupLoad, RollupStore, At, Shape, LinkOK, HoldsIncident, store
  <2>2. /\ frame'[p].at \in {"rollup.store", "rollup.put"} /\ frame'[p].incident = frame[p].incident
        /\ \A q \in Procs \ {p} : frame'[q] = frame[q]
    BY <1>12, <1>a, HoldingMove, GoToMove DEF RollupLoad, RollupStore
  <2> QED  BY <1>e, <1>h, <2>1, <2>2
<1>13. ASSUME NEW p \in Procs, RollupPut(p)
       PROVE  LinkInv'
  <2> DEFINE inc == frame[p].incident
  <2>1. inc \in Incident /\ Sound(inc) /\ UNCHANGED incidents
    BY <1>13, <1>a DEF RollupPut, At, Shape, LinkOK, HoldsIncident
  <2>2. CASE Return(p)
    BY <2>1, <2>2, <1>a, <1>e, <1>f, ReturnMove DEF HoldsIncident
  <2>3. ASSUME NEW n, PutEvidence(n, inc.id), Enter(p, Holding("rollup.attach", inc, None, n))
        PROVE  LinkInv'
    BY <2>1, <2>3, <1>a, <1>6, HoldingMove
  <2> QED  BY <1>13, <2>2, <2>3 DEF RollupPut
<1>14. ASSUME NEW p \in Procs,
              \/ ExecuteActionGet(p) \/ ExecuteActionStart(p) \/ ExecuteActionFinish(p)
              \/ SubmitResponseAction(p) \/ CancelActionGet(p) \/ CancelActionUpdate(p)
              \/ TakeJob(p) \/ ProcessResponseAction(p)
       PROVE  LinkInv'
  BY <1>e, <1>f, <1>14, Apart
<1> QED  BY <1>1, <1>2, <1>3, <1>4, <1>5, <1>7, <1>8, <1>9, <1>10, <1>11, <1>12, <1>13, <1>14
         DEF Next, Request, Resume

(* In every reachable state each incident, stored or held as a copy by any *)
(* goroutine, refers only to stored records that name it, and is closed    *)
(* only with evidence.                                                     *)
THEOREM LinkInvariant == Spec => []LinkInv
<1> QED  BY TypeInvariant, ActionInvariant, LinkInit, LinkNext, PTL DEF Spec

(* Every id that a stored incident lists belongs to a stored record of     *)
(* that incident (service/actions.go CreateAction, evidence.go             *)
(* AddEvidence, RollupEvidence), although incidents are overwritten with   *)
(* copies that are out of date.                                            *)
THEOREM ReferencesAlwaysResolve == Spec => []ReferencesResolve
<1>1. LinkInv => ReferencesResolve
  BY DEF LinkInv, Sound, ReferencesResolve
<1> QED  BY <1>1, LinkInvariant, PTL

(* An incident is only ever stored as closed together with evidence        *)
(* (service/incidents.go TransitionIncident, domain/incident.go            *)
(* ReadyToClose), whatever is written over it.                             *)
THEOREM ClosedIncidentsHaveEvidence == Spec => []ClosedHasEvidence
<1>1. LinkInv => ClosedHasEvidence
  BY DEF LinkInv, Sound, ClosedHasEvidence
<1> QED  BY <1>1, LinkInvariant, PTL
-----------------------------------------------------------------------------
(***************************************************************************)
(* One execution.  A job in the queue, a worker that has taken it, and the *)
(* calls that are about to submit one or are executing, each carry an      *)
(* action.  When the queue is the only executor, an action is carried at   *)
(* most once at any time, and never again once it has taken effect.        *)
(***************************************************************************)
Carriers == {"create.attach", "create.submit", "execute.start", "execute.finish", "execute.submit"}

JobOf(a) == [type |-> "response-action", id |-> a]

Carries(f, a) ==
  \/ f.at \in Carriers /\ f.action.id = a
  \/ f.at = "job" /\ f.job = JobOf(a)

CarriedOnce(a) ==
  /\ \A p, q \in Procs : Carries(frame[p], a) /\ Carries(frame[q], a) => p = q
  /\ \A i, j \in 1..Len(jobs) : jobs[i] = JobOf(a) /\ jobs[j] = JobOf(a) => i = j
  /\ \A p \in Procs, i \in 1..Len(jobs) : ~(Carries(frame[p], a) /\ jobs[i] = JobOf(a))

Carried(a) == \/ \E p \in Procs : Carries(frame[p], a)
              \/ \E i \in 1..Len(jobs) : jobs[i] = JobOf(a)

OnceInv ==
  \A a \in ActionIDs :
    /\ CarriedOnce(a)
    /\ Carried(a) => actions[a] # None /\ effects[a] = 0
    /\ actions[a] = None => effects[a] = 0
    /\ effects[a] <= 1

(* A frame that carries an action carries one that has an id.              *)
LEMMA CarriedIds ==
  ASSUME NEW f \in Frame, Shape(f), NEW a, Carries(f, a)
  PROVE  a \in ActionIDs
<1>1. CASE f.at \in Carriers /\ f.action.id = a
  <2>1. f.action \in Action
    BY <1>1 DEF Shape, Carriers, HoldsAction
  <2> QED  BY <1>1, <2>1 DEF Action
<1>2. CASE f.at = "job" /\ f.job = JobOf(a)
  BY <1>2 DEF Shape, Job, JobOf
<1> QED  BY <1>1, <1>2 DEF Carries

(* No action is carried when no action is stored.                          *)
LEMMA OnceInit == Init => OnceInv
<1> SUFFICES ASSUME Init, NEW a \in ActionIDs
             PROVE  /\ CarriedOnce(a)
                    /\ Carried(a) => actions[a] # None /\ effects[a] = 0
                    /\ actions[a] = None => effects[a] = 0
                    /\ effects[a] <= 1
  BY DEF OnceInv
<1>1. \A p \in Procs : ~Carries(frame[p], a)
  BY IdleFrame DEF Init, Carries, Carriers
<1>2. \A i \in 1..Len(jobs) : jobs[i] # JobOf(a)
  <2>1. PICK n \in 0..Buffer : jobs \in [1..n -> RollupJobs]
    BY DEF Init
  <2>2. n \in Nat
    BY ResponseAssumption DEF ResponseAssumption
  <2>3. Len(jobs) = n
    BY <2>1, <2>2
  <2> QED  BY <2>1, <2>3 DEF RollupJobs, JobOf
<1>3. effects[a] = 0
  BY DEF Init
<1> QED  BY <1>1, <1>2, <1>3 DEF CarriedOnce, Carried

(* A step in which the goroutine that moves carries nothing that it did    *)
(* not carry before, and nothing takes effect.                             *)
LEMMA CarriesNoMore ==
  ASSUME OnceInv, NEW p \in Procs, \A q \in Procs \ {p} : frame'[q] = frame[q],
         \A a \in ActionIDs : Carries(frame'[p], a) => Carries(frame[p], a),
         \A a \in ActionIDs : actions[a] # None => actions'[a] # None,
         UNCHANGED <<jobs, effects>>
  PROVE  OnceInv'
<1> SUFFICES ASSUME NEW a \in ActionIDs
             PROVE  /\ CarriedOnce(a)'
                    /\ Carried(a)' => actions'[a] # None /\ effects'[a] = 0
                    /\ actions'[a] = None => effects'[a] = 0
                    /\ effects'[a] <= 1
  BY DEF OnceInv
<1>1. \A q \in Procs : Carries(frame'[q], a) => Carries(frame[q], a)
  OBVIOUS
<1> QED  BY <1>1 DEF OnceInv, CarriedOnce, Carried

(* Every step preserves the invariant if no client executes actions.       *)
LEMMA OnceNext ==
  ASSUME "ExecuteAction" \notin Ops
  PROVE  TypeInv /\ ActionInv /\ OnceInv /\ [Next]_vars => OnceInv'
<1> SUFFICES ASSUME TypeInv, ActionInv, OnceInv, [Next]_vars PROVE OnceInv'
  OBVIOUS
<1>a. /\ frame \in [Procs -> Frame] /\ \A q \in Procs : frame[q] \in Frame /\ Shape(frame[q])
      /\ jobs \in Seq(Job) /\ effects \in [ActionIDs -> Nat]
  BY DEF TypeInv, TypeOK
<1>b. \A q \in Procs : CopyOK(frame[q])
  BY DEF ActionInv
(* The moving goroutine ends up carrying nothing.                          *)
<1>c. ASSUME NEW p \in Procs, \A q \in Procs \ {p} : frame'[q] = frame[q],
             frame'[p].at \notin Carriers \cup {"job"},
             \A a \in ActionIDs : actions[a] # None => actions'[a] # None,
             UNCHANGED <<jobs, effects>>
      PROVE  OnceInv'
  <2>1. \A a \in ActionIDs : ~Carries(frame'[p], a)
    BY <1>c DEF Carries
  <2> QED  BY <1>c, <2>1, CarriesNoMore
<1>1. CASE UNCHANGED vars
  BY <1>1 DEF vars, store, OnceInv, CarriedOnce, Carried
<1>2. ASSUME NEW p \in Procs, CreateActionGet(p)
      PROVE  OnceInv'
  <2>1. frame'[p].at = "create.put" /\ \A q \in Procs \ {p} : frame'[q] = frame[q]
    BY <1>2, <1>a, HoldingMove DEF CreateActionGet
  <2> QED  BY <1>2, <1>c, <2>1 DEF CreateActionGet, store, Carriers
<1>3. ASSUME NEW p \in Procs, CreateActionPut(p)
      PROVE  OnceInv'
  <2> DEFINE act == frame[p].action
  <2>1. CASE Return(p) /\ UNCHANGED <<actions, idempotency>>
    <3>1. frame'[p].at = "idle" /\ \A q \in Procs \ {p} : frame'[q] = frame[q]
      BY <2>1, <1>a, ReturnMove
    <3> QED  BY <1>3, <2>1, <1>c, <3>1 DEF CreateActionPut, Carriers
  <2>2. CASE ~PutRefused(act) /\ UpdateAction(act) /\ GoTo(p, "create.attach")
    <3>1. act \in Action /\ act.id \in ActionIDs
      BY <1>3, <1>a DEF CreateActionPut, At, Shape, HoldsAction, Action
    <3>2. /\ frame'[p].at = "create.attach" /\ frame'[p].action = act
          /\ \A q \in Procs \ {p} : frame'[q] = frame[q]
      BY <2>2, <1>a, GoToMove
    <3>3. /\ \A a \in ActionIDs : actions'[a] = IF a = act.id THEN act ELSE actions[a]
          /\ act # None /\ actions[act.id] = None /\ UNCHANGED <<jobs, effects>>
      BY <1>3, <2>2, <3>1, StoreAction DEF TypeInv, CreateActionPut, PutRefused
    <3>4. \A a : Carries(frame'[p], a) <=> a = act.id
      BY <3>2 DEF Carries, Carriers
    <3> HIDE DEF act
    <3>5. ~Carried(act.id) /\ effects[act.id] = 0
      BY <3>1, <3>3 DEF OnceInv
    <3> SUFFICES ASSUME NEW a \in ActionIDs
                 PROVE  /\ CarriedOnce(a)'
                        /\ Carried(a)' => actions'[a] # None /\ effects'[a] = 0
                        /\ actions'[a] = None => effects'[a] = 0
                        /\ effects'[a] <= 1
      BY DEF OnceInv
    <3>6. CASE a = act.id
      BY <3>2, <3>3, <3>4, <3>5, <3>6 DEF CarriedOnce, Carried
    <3>7. CASE a # act.id
      <4>1. \A q \in Procs : Carries(frame'[q], a) => Carries(frame[q], a)
        BY <3>2, <3>4, <3>7
      <4> QED  BY <3>3, <3>7, <4>1 DEF OnceInv, CarriedOnce, Carried
    <3> QED  BY <3>6, <3>7
  <2> QED  BY <1>3, <2>1, <2>2 DEF CreateActionPut
<1>4. ASSUME NEW p \in Procs, CreateActionAttach(p)
      PROVE  OnceInv'
  <2>1. /\ frame[p].at = "create.attach" /\ frame'[p].at = "create.submit"
        /\ frame'[p].action = frame[p].action
        /\ \A q \in Procs \ {p} : frame'[q] = frame[q]
    BY <1>4, <1>a, GoToMove DEF CreateActionAttach, At
  <2>2. \A a : Carries(frame'[p], a) => Carries(frame[p], a)
    BY <2>1 DEF Carries, Carriers
  <2> QED  BY <1>4, <2>1, <2>2, CarriesNoMore DEF CreateActionAttach
<1>5. ASSUME NEW p \in Procs, ExecuteActionStart(p)
      PROVE  OnceInv'
  <2>1. /\ frame[p].at = "execute.start" /\ frame'[p].at = "execute.finish"
        /\ frame'[p].action = frame[p].action
        /\ \A q \in Procs \ {p} : frame'[q] = frame[q]
    BY <1>5, <1>a, GoToMove DEF ExecuteActionStart, At
  <2>2. \A a : Carries(frame'[p], a) => Carries(frame[p], a)
    BY <2>1 DEF Carries, Carriers
  <2>3. frame[p].action \in Action
    BY <2>1, <1>a DEF Shape, HoldsAction
  <2>4. \A a \in ActionIDs : actions[a] # None => actions'[a] # None
    BY <1>5, <2>3, StoreAction DEF ExecuteActionStart, TypeInv
  <2> QED  BY <1>5, <2>1, <2>2, <2>4, CarriesNoMore DEF ExecuteActionStart
<1>6. ASSUME NEW p \in Procs, ExecuteActionFinish(p)
      PROVE  OnceInv'
  <2> DEFINE act == frame[p].action
  <2> DEFINE fin == Finish(act)
  <2>1. /\ act \in Action /\ act.id \in ActionIDs /\ Carries(frame[p], act.id)
    BY <1>6, <1>a DEF ExecuteActionFinish, At, Shape, HoldsAction, Action, Carries, Carriers
  <2>2. /\ fin \in Action /\ fin.id = act.id
        /\ fin.status = IF Succeeds(act) THEN "succeeded" ELSE "failed"
    BY <2>1, ActionMethods DEF SameIdentity
  <2>3. /\ effects' = [effects EXCEPT ![act.id] = IF Succeeds(act) THEN @ + 1 ELSE @]
        /\ UpdateAction(fin) /\ UNCHANGED jobs
        /\ IF CanRetry(fin) THEN Enter(p, Holding("execute.submit", None, fin, None))
           ELSE Return(p)
    BY <1>6 DEF ExecuteActionFinish
  <2> HIDE DEF act, fin
  <2>4. \A a \in ActionIDs : actions[a] # None => actions'[a] # None
    BY <2>2, <2>3, StoreAction DEF TypeInv
  <2>5. CASE CanRetry(fin)
    <3>1. ~Succeeds(act)
      BY <2>2, <2>5 DEF CanRetry
    <3>2. UNCHANGED effects
      BY <1>a, <2>3, <3>1
    <3>3. /\ frame'[p].at = "execute.submit" /\ frame'[p].action = fin
          /\ \A q \in Procs \ {p} : frame'[q] = frame[q]
      BY <1>a, <2>3, <2>5, HoldingMove
    <3>4. \A a : Carries(frame'[p], a) => Carries(frame[p], a)
      BY <2>1, <2>2, <3>3 DEF Carries, Carriers
    <3> QED  BY <2>3, <2>4, <3>2, <3>3, <3>4, CarriesNoMore
  <2>6. CASE ~CanRetry(fin)
    <3>1. frame'[p].at = "idle" /\ \A q \in Procs \ {p} : frame'[q] = frame[q]
      BY <1>a, <2>3, <2>6, ReturnMove
    <3>2. CASE ~Succeeds(act)
      <4>1. UNCHANGED effects
        BY <1>a, <2>3, <3>2
      <4> QED  BY <1>c, <2>3, <2>4, <3>1, <4>1 DEF Carriers
    <3>3. CASE Succeeds(act)
      <4>1. Carried(act.id) /\ effects[act.id] = 0 /\ actions[act.id] # None
        BY <2>1 DEF OnceInv, Carried
      <4>2. \A a \in ActionIDs : effects'[a] = IF a = act.id THEN 1 ELSE effects[a]
        BY <1>a, <2>1, <2>3, <3>3, <4>1
      <4>3. \A a : ~Carries(frame'[p], a)
        BY <3>1 DEF Carries, Carriers
      <4>4. \A q \in Procs : ~Carries(frame'[q], act.id)
        BY <2>1, <3>1, <4>3 DEF OnceInv, CarriedOnce
      <4>5. \A i \in 1..Len(jobs) : jobs[i] # JobOf(act.id)
        BY <2>1 DEF OnceInv, CarriedOnce
      <4> SUFFICES ASSUME NEW a \in ActionIDs
                   PROVE  /\ CarriedOnce(a)'
                          /\ Carried(a)' => actions'[a] # None /\ effects'[a] = 0
                          /\ actions'[a] = None => effects'[a] = 0
                          /\ effects'[a] <= 1
        BY DEF OnceInv
      <4>6. CASE a = act.id
        BY <2>3, <2>4, <4>1, <4>2, <4>4, <4>5, <4>6 DEF CarriedOnce, Carried
      <4>7. CASE a # act.id
        <5>1. \A q \in Procs : Carries(frame'[q], a) => Carries(frame[q], a)
          BY <3>1, <4>3
        <5> QED  BY <2>3, <2>4, <4>2, <4>7, <5>1 DEF OnceInv, CarriedOnce, Carried
      <4> QED  BY <4>6, <4>7
    <3> QED  BY <3>2, <3>3
  <2> QED  BY <2>5, <2>6
<1>7. ASSUME NEW p \in Procs, SubmitResponseAction(p)
      PROVE  OnceInv'
  <2> DEFINE b == frame[p].action.id
  <2>1. Carries(frame[p], b)
    BY <1>7 DEF SubmitResponseAction, At, Carries, Carriers
  <2>2. frame'[p].at = "idle" /\ \A q \in Procs \ {p} : frame'[q] = frame[q]
    BY <1>7, <1>a, ReturnMove DEF SubmitResponseAction
  <2>3. Submit(JobOf(b)) /\ UNCHANGED <<actions, effects>>
    BY <1>7 DEF SubmitResponseAction, JobOf, store
  <2>4. b \in ActionIDs
    BY <2>1, <1>a, CarriedIds
  <2> HIDE DEF b
  <2>5. CASE ~HasRoom
    BY <1>c, <2>2, <2>3, <2>5 DEF Submit, Carriers
  <2>6. CASE HasRoom
    <3>1. /\ Len(jobs') = Len(jobs) + 1 /\ jobs'[Len(jobs) + 1] = JobOf(b)
          /\ \A i \in 1..Len(jobs) : jobs'[i] = jobs[i]
          /\ Len(jobs) \in Nat
      BY <1>a, <2>3, <2>6 DEF Submit
    <3>2. \A a : ~Carries(frame'[p], a)
      BY <2>2 DEF Carries, Carriers
    <3>3. \A a \in ActionIDs : JobOf(a) = JobOf(b) => a = b
      BY DEF JobOf
    <3>4. \A i \in 1..Len(jobs') : i \in 1..Len(jobs) \/ i = Len(jobs) + 1
      BY <3>1
    <3> SUFFICES ASSUME NEW a \in ActionIDs
                 PROVE  /\ CarriedOnce(a)'
                        /\ Carried(a)' => actions'[a] # None /\ effects'[a] = 0
                        /\ actions'[a] = None => effects'[a] = 0
                        /\ effects'[a] <= 1
      BY DEF OnceInv
    <3>5. CASE a = b
      <4>1. \A q \in Procs : ~Carries(frame'[q], a)
        BY <2>1, <2>2, <2>4, <3>2, <3>5 DEF OnceInv, CarriedOnce
      <4>2. \A i \in 1..Len(jobs) : jobs[i] # JobOf(a)
        BY <2>1, <2>4, <3>5 DEF OnceInv, CarriedOnce
      <4>3. \A i \in 1..Len(jobs') : jobs'[i] = JobOf(a) => i = Len(jobs) + 1
        BY <3>1, <3>4, <4>2
      <4>4. actions[a] # None /\ effects[a] = 0
        BY <2>1, <2>4, <3>5 DEF OnceInv, Carried
      <4> QED  BY <2>3, <4>1, <4>3, <4>4 DEF CarriedOnce
    <3>6. CASE a # b
      <4>1. \A q \in Procs : Carries(frame'[q], a) => Carries(frame[q], a)
        BY <2>2, <3>2
      <4>2. \A i \in 1..Len(jobs') : jobs'[i] = JobOf(a) => i \in 1..Len(jobs) /\ jobs[i] = JobOf(a)
        BY <3>1, <3>3, <3>4, <3>6
      <4>3. CarriedOnce(a) /\ (Carried(a) => actions[a] # None /\ effects[a] = 0)
            /\ (actions[a] = None => effects[a] = 0) /\ effects[a] <= 1
        BY DEF OnceInv
      <4>4. CarriedOnce(a)'
        BY <4>1, <4>2, <4>3 DEF CarriedOnce
      <4>5. Carried(a)' => Carried(a)
        BY <4>1, <4>2 DEF Carried
      <4> QED  BY <2>3, <4>3, <4>4, <4>5
    <3> QED  BY <3>5, <3>6
  <2> QED  BY <2>5, <2>6
<1>8. ASSUME NEW p \in Procs, TakeJob(p)
      PROVE  OnceInv'
  <2> DEFINE job == Head(jobs)
  <2>1. /\ frame'[p].at = "job" /\ frame'[p].job = job
        /\ \A q \in Procs \ {p} : frame'[q] = frame[q]
    BY <1>8, <1>a DEF TakeJob, Enter
  <2>2. /\ Len(jobs) \in Nat \ {0} /\ job = jobs[1]
        /\ Len(jobs') = Len(jobs) - 1
        /\ \A i \in 1..Len(jobs') : i + 1 \in 1..Len(jobs) /\ jobs'[i] = jobs[i + 1]
    BY <1>8, <1>a DEF TakeJob
  <2>3. UNCHANGED <<actions, effects>>
    BY <1>8 DEF TakeJob, store
  <2>4. \A a : Carries(frame'[p], a) <=> jobs[1] = JobOf(a)
    BY <2>1, <2>2 DEF Carries, Carriers
  <2>5. 1 \in 1..Len(jobs)
    BY <2>2
  <2>6. \A i, j \in 1..Len(jobs') : i + 1 = j + 1 => i = j
    BY <2>2
  <2>7. \A i \in 1..Len(jobs') : i + 1 # 1
    BY <2>2
  <2> HIDE DEF job
  <2> SUFFICES ASSUME NEW a \in ActionIDs
               PROVE  /\ CarriedOnce(a)'
                      /\ Carried(a)' => actions'[a] # None /\ effects'[a] = 0
                      /\ actions'[a] = None => effects'[a] = 0
                      /\ effects'[a] <= 1
    BY DEF OnceInv
  <2>8. CarriedOnce(a) /\ (Carried(a) => actions[a] # None /\ effects[a] = 0)
        /\ (actions[a] = None => effects[a] = 0) /\ effects[a] <= 1
    BY DEF OnceInv
  <2>9. CarriedOnce(a)'
    <3>1. CASE jobs[1] = JobOf(a)
      <4>1. \A i \in 1..Len(jobs') : jobs'[i] # JobOf(a)
        BY <2>2, <2>5, <2>7, <2>8, <3>1 DEF CarriedOnce
      <4>2. \A q \in Procs \ {p} : ~Carries(frame'[q], a)
        BY <2>1, <2>5, <2>8, <3>1 DEF CarriedOnce
      <4> QED  BY <4>1, <4>2 DEF CarriedOnce
    <3>2. CASE jobs[1] # JobOf(a)
      <4>1. \A q \in Procs : Carries(frame'[q], a) => Carries(frame[q], a)
        BY <2>1, <2>4, <3>2
      <4> QED  BY <2>2, <2>6, <2>8, <4>1 DEF CarriedOnce
    <3> QED  BY <3>1, <3>2
  <2>10. Carried(a)' => Carried(a)
    <3>1. ASSUME NEW q \in Procs, Carries(frame'[q], a) PROVE Carried(a)
      BY <2>1, <2>4, <2>5, <3>1 DEF Carried
    <3>2. ASSUME NEW i \in 1..Len(jobs'), jobs'[i] = JobOf(a) PROVE Carried(a)
      BY <2>2, <3>2 DEF Carried
    <3> QED  BY <3>1, <3>2 DEF Carried
  <2> QED  BY <2>3, <2>8, <2>9, <2>10
<1>9. ASSUME NEW p \in Procs, ProcessResponseAction(p)
      PROVE  OnceInv'
  <2> DEFINE a == frame[p].job.id
  <2>1. a \in ActionIDs /\ frame[p].at = "job" /\ frame[p].job = JobOf(a)
    BY <1>9, <1>a DEF ProcessResponseAction, At, Shape, Job, JobOf
  <2>2. UNCHANGED <<actions, jobs, effects>>
    BY <1>9 DEF ProcessResponseAction, store
  <2>3. CASE Return(p)
    <3>1. frame'[p].at = "idle" /\ \A q \in Procs \ {p} : frame'[q] = frame[q]
      BY <2>3, <1>a, ReturnMove
    <3> QED  BY <1>c, <2>2, <3>1 DEF Carriers
  <2>4. CASE actions[a] # None /\ EnterExecute(p, a)
    <3>1. actions[a] \in Action /\ actions[a].id = a
      BY <2>1, <2>4 DEF TypeInv, TypeOK
    <3>2. Start(actions[a]).id = a
      BY <3>1, ActionMethods DEF SameIdentity
    <3>3. /\ frame'[p].at = "execute.start" /\ frame'[p].action = Start(actions[a])
          /\ \A q \in Procs \ {p} : frame'[q] = frame[q]
      BY <2>4, <1>a, HoldingMove DEF EnterExecute
    <3>4. \A c : Carries(frame'[p], c) => Carries(frame[p], c)
      BY <2>1, <3>2, <3>3 DEF Carries, Carriers
    <3> QED  BY <2>2, <3>3, <3>4, CarriesNoMore
  <2> QED  BY <1>9, <2>3, <2>4 DEF ProcessResponseAction
<1>10. ASSUME NEW p \in Procs, CancelActionGet(p)
       PROVE  OnceInv'
  <2>1. frame'[p].at = "cancel.update" /\ \A q \in Procs \ {p} : frame'[q] = frame[q]
    BY <1>10, <1>a, HoldingMove DEF CancelActionGet
  <2> QED  BY <1>10, <1>c, <2>1 DEF CancelActionGet, store, Carriers
<1>11. ASSUME NEW p \in Procs, CancelActionUpdate(p)
       PROVE  OnceInv'
  <2>1. frame'[p].at = "idle" /\ \A q \in Procs \ {p} : frame'[q] = frame[q]
    BY <1>11, <1>a, ReturnMove DEF CancelActionUpdate
  <2>2. frame[p].action \in Action
    BY <1>11, <1>a DEF CancelActionUpdate, At, Shape, HoldsAction
  <2>3. \A a \in ActionIDs : actions[a] # None => actions'[a] # None
    BY <1>11, <2>2, StoreAction DEF CancelActionUpdate, TypeInv
  <2> QED  BY <1>11, <1>c, <2>1, <2>3 DEF CancelActionUpdate, Carriers
<1>12. ASSUME NEW p \in Procs,
              \/ AddEvidenceGet(p) \/ AddEvidencePut(p) \/ AttachEvidenceUpdate(p)
              \/ TransitionIncidentGet(p) \/ TransitionIncidentUpdate(p)
              \/ ProcessEvidenceRollup(p) \/ RollupLoad(p) \/ RollupStore(p) \/ RollupPut(p)
       PROVE  OnceInv'
  <2>1. /\ UNCHANGED <<actions, idempotency>>
        /\ frame'[p].at \notin HoldsAction
        /\ \A q \in Procs \ {p} : frame'[q] = frame[q]
    BY <1>12, Elsewhere
  <2>2. UNCHANGED <<jobs, effects>>
    BY <1>12 DEF AddEvidenceGet, AddEvidencePut, AttachEvidenceUpdate, TransitionIncidentGet,
         TransitionIncidentUpdate, ProcessEvidenceRollup, RollupLoad, RollupStore, RollupPut
  <2>3. frame'[p].at # "job"
    <3>1. CASE AddEvidenceGet(p)
      BY <1>a, <3>1, HoldingMove DEF AddEvidenceGet
    <3>2. CASE AddEvidencePut(p)
      BY <1>a, <3>2, ReturnMove, GoToMove DEF AddEvidencePut
    <3>3. CASE AttachEvidenceUpdate(p) \/ TransitionIncidentUpdate(p)
      BY <1>a, <3>3, ReturnMove DEF AttachEvidenceUpdate, TransitionIncidentUpdate
    <3>4. CASE TransitionIncidentGet(p)
      BY <1>a, <3>4, HoldingMove DEF TransitionIncidentGet
    <3>5. CASE ProcessEvidenceRollup(p) \/ RollupLoad(p)
      BY <1>a, <3>5, HoldingMove DEF ProcessEvidenceRollup, RollupLoad
    <3>6. CASE RollupStore(p)
      BY <1>a, <3>6, GoToMove DEF RollupStore
    <3>7. CASE RollupPut(p)
      BY <1>a, <3>7, ReturnMove, HoldingMove DEF RollupPut
    <3> QED  BY <1>12, <3>1, <3>2, <3>3, <3>4, <3>5, <3>6, <3>7
  <2>4. Carriers \subseteq HoldsAction
    BY DEF Carriers, HoldsAction
  <2> QED  BY <1>c, <2>1, <2>2, <2>3, <2>4
<1>13. ASSUME NEW p \in Procs, ExecuteActionGet(p)
       PROVE  OnceInv'
  BY <1>13 DEF ExecuteActionGet, Begin
<1> QED  BY <1>1, <1>2, <1>3, <1>4, <1>5, <1>6, <1>7, <1>8, <1>9, <1>10, <1>11, <1>12, <1>13
         DEF Next, Request, Resume

(* When clients do not execute actions themselves, the effect of an action *)
(* takes place at most once (service/actions.go CreateAction,              *)
(* ExecuteAction, queue/queue.go): jobs, retries, cancellations and        *)
(* repeated create requests never make the queue run it again.             *)
THEOREM EffectsOnce == "ExecuteAction" \notin Ops => (Spec => []EffectOnce)
<1> SUFFICES ASSUME "ExecuteAction" \notin Ops PROVE Spec => []EffectOnce
  OBVIOUS
<1>1. OnceInv => EffectOnce
  BY DEF OnceInv, EffectOnce
<1>2. TypeInv /\ ActionInv /\ OnceInv /\ [Next]_vars => OnceInv'
  BY OnceNext
<1> QED  BY <1>1, <1>2, TypeInvariant, ActionInvariant, OnceInit, PTL DEF Spec
-----------------------------------------------------------------------------
(***************************************************************************)
(* What stays for good                                                     *)
(***************************************************************************)
(* A closed incident takes no more ids and moves to no other status        *)
(* (domain/incident.go, AttachAction, AttachEvidence, Transition): every   *)
(* method leaves it as it is.                                              *)
LEMMA ClosedMethods ==
  ASSUME NEW inc, inc.status = "closed"
  PROVE  /\ \A a : AttachAction(inc, a) = inc
         /\ \A e : AttachEvidence(inc, e) = inc
         /\ \A s : MayTransition(inc, s) => Transition(inc, s) = inc
  BY DEF AttachAction, AttachEvidence, MayTransition, Transition, Allowed

(* A step that leaves a closed incident alone and makes no differing copy  *)
(* of it.                                                                  *)
LEMMA ClosedCopies ==
  ASSUME NEW i \in IncidentIDs, ClosedForGood(i), NEW p \in Procs,
         incidents'[i] = incidents[i],
         frame'[p].at \in HoldsIncident /\ frame'[p].incident.id = i =>
           frame'[p].incident = incidents[i],
         \A q \in Procs \ {p} : frame'[q] = frame[q]
  PROVE  ClosedForGood(i)' /\ incidents'[i] = incidents[i]
  BY DEF ClosedForGood

(* A call that ends by writing the incident back, as its methods return it.*)
LEMMA ClosedWrites ==
  ASSUME TypeInv, NEW i \in IncidentIDs, ClosedForGood(i), NEW p \in Procs,
         frame[p].at \in HoldsIncident,
         NEW inc \in Incident, inc.id = frame[p].incident.id,
         frame[p].incident.status = "closed" => inc = frame[p].incident,
         UpdateIncident(inc)
  PROVE  incidents'[i] = incidents[i]
<1>1. \A j \in IncidentIDs : incidents'[j] = IF j = inc.id THEN inc ELSE incidents[j]
  BY StoreIncident DEF TypeInv
<1>2. inc.id = i => frame[p].incident = incidents[i] /\ incidents[i].status = "closed"
  BY DEF ClosedForGood
<1> QED  BY <1>1, <1>2

(* Every step keeps a closed incident, and the copies of it, as they are.  *)
LEMMA ClosedNext ==
  ASSUME TypeInv, NEW i \in IncidentIDs, ClosedForGood(i), [Next]_vars
  PROVE  ClosedForGood(i)' /\ incidents'[i] = incidents[i]
<1> DEFINE Stays == ClosedForGood(i)' /\ incidents'[i] = incidents[i]
<1>a. /\ frame \in [Procs -> Frame] /\ \A q \in Procs : Shape(frame[q])
      /\ incidents \in [IncidentIDs -> Incident] /\ \A j \in IncidentIDs : incidents[j].id = j
  BY DEF TypeInv, TypeOK
<1>b. incidents[i].status = "closed"
  BY DEF ClosedForGood
<1>c. \A q \in Procs : frame[q].at \in HoldsIncident /\ frame[q].incident.id = i =>
        frame[q].incident = incidents[i]
  BY DEF ClosedForGood
<1>1. ASSUME UNCHANGED vars
      PROVE  Stays
  BY <1>1 DEF vars, store, ClosedForGood
<1>2. ASSUME NEW p \in Procs,
             CreateActionGet(p) \/ AddEvidenceGet(p) \/ ProcessEvidenceRollup(p)
      PROVE  Stays
  <2>1. incidents' = incidents
    BY <1>2 DEF CreateActionGet, AddEvidenceGet, ProcessEvidenceRollup, store
  <2>2. PICK j \in IncidentIDs : frame'[p].incident = incidents[j]
    <3>1. CASE CreateActionGet(p)
      BY <1>a, <3>1, HoldingMove DEF CreateActionGet
    <3>2. CASE AddEvidenceGet(p)
      BY <1>a, <3>2, HoldingMove DEF AddEvidenceGet
    <3>3. CASE ProcessEvidenceRollup(p)
      <4>1. frame[p].job.id \in IncidentIDs
        BY <1>a, <3>3 DEF ProcessEvidenceRollup, At, Shape, Job
      <4> QED  BY <1>a, <3>3, <4>1, HoldingMove DEF ProcessEvidenceRollup
    <3> QED  BY <1>2, <3>1, <3>2, <3>3
  <2>3. \A q \in Procs \ {p} : frame'[q] = frame[q]
    BY <1>a, <1>2, HoldingMove DEF CreateActionGet, AddEvidenceGet, ProcessEvidenceRollup
  <2> QED  BY <1>a, <2>1, <2>2, <2>3, ClosedCopies
<1>3. ASSUME NEW p \in Procs, TransitionIncidentGet(p)
      PROVE  Stays
  <2>1. incidents' = incidents
    BY <1>3 DEF TransitionIncidentGet, store
  <2>2. PICK j \in IncidentIDs, s \in IncidentStatus :
          /\ MayTransition(incidents[j], s)
          /\ Enter(p, Holding("transition.update", Transition(incidents[j], s), None, None))
    BY <1>3 DEF TransitionIncidentGet
  <2>3. /\ frame'[p].incident = Transition(incidents[j], s)
        /\ \A q \in Procs \ {p} : frame'[q] = frame[q]
    BY <1>a, <2>2, HoldingMove
  <2>4. frame'[p].incident.id = j
    BY <1>a, <2>3, IncidentMethods
  <2>5. j = i => frame'[p].incident = incidents[i]
    BY <1>b, <2>2, <2>3, ClosedMethods
  <2> QED  BY <2>1, <2>3, <2>4, <2>5, ClosedCopies
<1>4. ASSUME NEW p \in Procs, CreateActionAttach(p)
      PROVE  Stays
  <2> DEFINE inc == frame[p].incident
  <2> DEFINE r == AttachAction(inc, frame[p].action.id)
  <2>1. /\ frame[p].at = "create.attach" /\ UpdateIncident(r) /\ GoTo(p, "create.submit")
    BY <1>4 DEF CreateActionAttach, At
  <2>2. inc \in Incident /\ frame[p].action.id \in ActionIDs
    BY <1>a, <2>1 DEF Shape, HoldsIncident, HoldsAction, Action
  <2>3. r \in Incident /\ r.id = inc.id
    BY <2>2, IncidentMethods
  <2>4. inc.status = "closed" => r = inc
    BY ClosedMethods
  <2>5. frame[p].at \in HoldsIncident
    BY <2>1 DEF HoldsIncident
  <2>6. incidents'[i] = incidents[i]
    <3> HIDE DEF r
    <3> QED  BY <2>1, <2>3, <2>4, <2>5, ClosedWrites
  <2>7. frame'[p].at = "create.submit" /\ \A q \in Procs \ {p} : frame'[q] = frame[q]
    BY <1>a, <2>1, GoToMove
  <2> QED  BY <2>6, <2>7, ClosedCopies DEF HoldsIncident
<1>5. ASSUME NEW p \in Procs, AttachEvidenceUpdate(p)
      PROVE  Stays
  <2> DEFINE inc == frame[p].incident
  <2> DEFINE r == AttachEvidence(inc, frame[p].note)
  <2>1. /\ frame[p].at \in {"evidence.attach", "rollup.attach"}
        /\ UpdateIncident(r) /\ Return(p)
    BY <1>5 DEF AttachEvidenceUpdate, At
  <2>2. inc \in Incident /\ frame[p].note \in EvidenceIDs
    BY <1>a, <2>1 DEF Shape, HoldsIncident, HoldsNote
  <2>3. r \in Incident /\ r.id = inc.id
    BY <2>2, IncidentMethods
  <2>4. inc.status = "closed" => r = inc
    BY ClosedMethods
  <2>5. frame[p].at \in HoldsIncident
    BY <2>1 DEF HoldsIncident
  <2>6. incidents'[i] = incidents[i]
    <3> HIDE DEF r
    <3> QED  BY <2>1, <2>3, <2>4, <2>5, ClosedWrites
  <2>7. frame'[p].at = "idle" /\ \A q \in Procs \ {p} : frame'[q] = frame[q]
    BY <1>a, <2>1, ReturnMove
  <2> QED  BY <2>6, <2>7, ClosedCopies DEF HoldsIncident
<1>6. ASSUME NEW p \in Procs, TransitionIncidentUpdate(p)
      PROVE  Stays
  <2>1. /\ frame[p].at = "transition.update"
        /\ UpdateIncident(frame[p].incident) /\ Return(p)
    BY <1>6 DEF TransitionIncidentUpdate, At
  <2>2. frame[p].at \in HoldsIncident /\ frame[p].incident \in Incident
    BY <1>a, <2>1 DEF Shape, HoldsIncident
  <2>3. incidents'[i] = incidents[i]
    BY <2>1, <2>2, ClosedWrites
  <2>4. frame'[p].at = "idle" /\ \A q \in Procs \ {p} : frame'[q] = frame[q]
    BY <1>a, <2>1, ReturnMove
  <2> QED  BY <2>3, <2>4, ClosedCopies DEF HoldsIncident
<1>7. ASSUME NEW p \in Procs,
             \/ CreateActionPut(p) \/ AddEvidencePut(p)
             \/ RollupLoad(p) \/ RollupStore(p) \/ RollupPut(p)
      PROVE  Stays
  <2>1. incidents' = incidents
    BY <1>7 DEF CreateActionPut, AddEvidencePut, RollupLoad, RollupStore, RollupPut, store
  <2>2. frame[p].at \in HoldsIncident
    BY <1>7 DEF CreateActionPut, AddEvidencePut, RollupLoad, RollupStore, RollupPut, At,
                HoldsIncident
  <2>3. /\ frame'[p].at = "idle" \/ frame'[p].incident = frame[p].incident
        /\ \A q \in Procs \ {p} : frame'[q] = frame[q]
    <3>1. CASE CreateActionPut(p) \/ AddEvidencePut(p)
      BY <1>a, <3>1, ReturnMove, GoToMove DEF CreateActionPut, AddEvidencePut
    <3>2. CASE RollupLoad(p)
      BY <1>a, <3>2, HoldingMove DEF RollupLoad
    <3>3. CASE RollupStore(p)
      BY <1>a, <3>3, GoToMove DEF RollupStore
    <3>4. CASE RollupPut(p)
      BY <1>a, <3>4, ReturnMove, HoldingMove DEF RollupPut
    <3> QED  BY <1>7, <3>1, <3>2, <3>3, <3>4
  <2>4. "idle" \notin HoldsIncident
    BY DEF HoldsIncident
  <2> QED  BY <1>c, <2>1, <2>2, <2>3, <2>4, ClosedCopies
<1>8. ASSUME NEW p \in Procs,
             \/ ExecuteActionGet(p) \/ ExecuteActionStart(p) \/ ExecuteActionFinish(p)
             \/ SubmitResponseAction(p) \/ CancelActionGet(p) \/ CancelActionUpdate(p)
             \/ TakeJob(p) \/ ProcessResponseAction(p)
      PROVE  Stays
  <2>1. incidents' = incidents
    BY <1>8 DEF ExecuteActionGet, ExecuteActionStart, ExecuteActionFinish, SubmitResponseAction,
                CancelActionGet, CancelActionUpdate, TakeJob, ProcessResponseAction, store
  <2>2. frame'[p].at \notin HoldsIncident /\ \A q \in Procs \ {p} : frame'[q] = frame[q]
    <3>1. CASE ExecuteActionGet(p) \/ ProcessResponseAction(p)
      BY <1>a, <3>1, HoldingMove, ReturnMove
      DEF ExecuteActionGet, ProcessResponseAction, EnterExecute, HoldsIncident
    <3>2. CASE ExecuteActionStart(p)
      BY <1>a, <3>2, GoToMove DEF ExecuteActionStart, HoldsIncident
    <3>3. CASE ExecuteActionFinish(p)
      BY <1>a, <3>3, HoldingMove, ReturnMove DEF ExecuteActionFinish, HoldsIncident
    <3>4. CASE SubmitResponseAction(p) \/ CancelActionUpdate(p)
      BY <1>a, <3>4, ReturnMove DEF SubmitResponseAction, CancelActionUpdate, HoldsIncident
    <3>5. CASE CancelActionGet(p)
      BY <1>a, <3>5, HoldingMove DEF CancelActionGet, HoldsIncident
    <3>6. CASE TakeJob(p)
      BY <1>a, <3>6 DEF TakeJob, Enter, HoldsIncident
    <3> QED  BY <1>8, <3>1, <3>2, <3>3, <3>4, <3>5, <3>6
  <2> QED  BY <2>1, <2>2, ClosedCopies
<1> HIDE DEF Stays
<1>9. Stays
  BY <1>1, <1>2, <1>3, <1>4, <1>5, <1>6, <1>7, <1>8 DEF Next, Request, Resume
<1> QED  BY <1>9 DEF Stays

(* Once an incident is closed and no call is about to write a differing    *)
(* copy of it, nothing changes it any more (service/actions.go,            *)
(* evidence.go, incidents.go): the incident reopens, or loses evidence,    *)
(* only through a call that overlapped with the one that closed it.        *)
THEOREM ClosedIncidentsStay == Spec => ClosedStays
<1>1. TypeInv /\ [Next]_vars =>
        [\A i \in IncidentIDs : ClosedForGood(i) =>
            ClosedForGood(i)' /\ incidents'[i] = incidents[i]]_vars
  BY ClosedNext
<1> QED  BY <1>1, TypeInvariant, PTL DEF Spec, ClosedStays

(* Every step keeps a settled action that nobody executes or cancels.      *)
LEMMA SettledNext ==
  ASSUME TypeInv, NEW a \in ActionIDs, SettledForGood(a), [Next]_vars
  PROVE  SettledForGood(a)' /\ actions'[a] = actions[a] /\ effects'[a] = effects[a]
<1> DEFINE Writes == {"execute.start", "execute.finish", "cancel.update"}
           Stays == SettledForGood(a)' /\ actions'[a] = actions[a] /\ effects'[a] = effects[a]
<1>a. /\ frame \in [Procs -> Frame] /\ \A q \in Procs : Shape(frame[q])
      /\ actions \in [ActionIDs -> Action \cup {None}]
      /\ \A b \in ActionIDs : actions[b] # None => actions[b].id = b
      /\ effects \in [ActionIDs -> Nat]
  BY DEF TypeInv, TypeOK
<1>b. actions[a] # None /\ ~Startable(actions[a]) /\ actions[a].status # "queued"
  <2>1. /\ actions[a] # None
        /\ \/ actions[a].status \in {"succeeded", "skipped"}
           \/ actions[a].status = "failed" /\ ~CanRetry(actions[a])
    BY DEF SettledForGood, Settled
  <2> QED  BY <2>1 DEF CanRetry, Startable
<1>c. \A q \in Procs : frame[q].at \in Writes => frame[q].action.id # a
  BY DEF SettledForGood
(* A step of p that keeps the action and does not begin to write it.       *)
<1>d. ASSUME NEW p \in Procs, actions'[a] = actions[a], effects'[a] = effects[a],
             frame'[p].at \in Writes => frame'[p].action.id # a,
             \A q \in Procs \ {p} : frame'[q] = frame[q]
      PROVE  Stays
  BY <1>d DEF SettledForGood, Settled
<1>1. ASSUME UNCHANGED vars
      PROVE  Stays
  BY <1>1 DEF vars, store, SettledForGood, Settled
<1>2. ASSUME NEW p \in Procs, ExecuteActionGet(p) \/ ProcessResponseAction(p)
      PROVE  Stays
  <2>1. UNCHANGED <<actions, effects>>
    BY <1>2 DEF ExecuteActionGet, ProcessResponseAction, store
  <2>2. CASE Return(p)
    BY <1>a, <1>d, <2>1, <2>2, ReturnMove
  <2>3. CASE \E b \in ActionIDs : actions[b] # None /\ Startable(actions[b]) /\ EnterExecute(p, b)
    <3>1. PICK b \in ActionIDs : actions[b] # None /\ Startable(actions[b]) /\ EnterExecute(p, b)
      BY <2>3
    <3>2. actions[b] \in Action /\ actions[b].id = b /\ b # a
      BY <1>a, <1>b, <3>1
    <3>3. Start(actions[b]).id = b
      BY <3>2, ActionMethods DEF SameIdentity
    <3>4. frame'[p].action.id = b /\ \A q \in Procs \ {p} : frame'[q] = frame[q]
      BY <1>a, <3>1, <3>3, HoldingMove DEF EnterExecute
    <3> QED  BY <1>d, <2>1, <3>2, <3>4
  <2>4. ProcessResponseAction(p) => frame[p].job.id \in ActionIDs
    BY <1>a DEF ProcessResponseAction, At, Shape, Job
  <2> QED  BY <1>2, <2>2, <2>3, <2>4 DEF ExecuteActionGet, ProcessResponseAction
<1>3. ASSUME NEW p \in Procs, CancelActionGet(p)
      PROVE  Stays
  <2>1. UNCHANGED <<actions, effects>>
    BY <1>3 DEF CancelActionGet, store
  <2>2. PICK b \in ActionIDs :
          /\ actions[b] # None /\ actions[b].status = "queued"
          /\ Enter(p, Holding("cancel.update", None, [actions[b] EXCEPT !.status = "skipped"], None))
    BY <1>3 DEF CancelActionGet
  <2>3. actions[b] \in Action /\ actions[b].id = b /\ b # a
    BY <1>a, <1>b, <2>2
  <2> DEFINE act == [actions[b] EXCEPT !.status = "skipped"]
  <2>4. act.id = b /\ Enter(p, Holding("cancel.update", None, act, None))
    BY <2>2, <2>3, SkippedAction DEF SameIdentity
  <2>5. frame'[p].action.id = b /\ \A q \in Procs \ {p} : frame'[q] = frame[q]
    <3> HIDE DEF act
    <3> QED  BY <1>a, <2>4, HoldingMove
  <2> QED  BY <1>d, <2>1, <2>3, <2>5
<1>4. ASSUME NEW p \in Procs, ExecuteActionStart(p) \/ CancelActionUpdate(p)
      PROVE  Stays
  <2>1. /\ frame[p].at \in Writes /\ UpdateAction(frame[p].action) /\ UNCHANGED effects
        /\ GoTo(p, "execute.finish") \/ Return(p)
    BY <1>4 DEF ExecuteActionStart, CancelActionUpdate, At
  <2>2. frame[p].action \in Action /\ frame[p].action.id # a
    BY <1>a, <1>c, <2>1 DEF Shape, HoldsAction
  <2>3. actions'[a] = actions[a]
    BY <2>1, <2>2, StoreAction DEF TypeInv
  <2>4. /\ frame'[p].at = "idle" \/ frame'[p].action = frame[p].action
        /\ \A q \in Procs \ {p} : frame'[q] = frame[q]
    BY <1>a, <2>1, GoToMove, ReturnMove
  <2> QED  BY <1>d, <2>1, <2>2, <2>3, <2>4
<1>5. ASSUME NEW p \in Procs, ExecuteActionFinish(p)
      PROVE  Stays
  <2> DEFINE act == frame[p].action
  <2>1. act \in Action /\ act.id # a /\ act.id \in ActionIDs
    BY <1>a, <1>c, <1>5 DEF ExecuteActionFinish, At, Shape, HoldsAction, Action
  <2>2. Finish(act) \in Action /\ Finish(act).id = act.id
    BY <2>1, ActionMethods DEF SameIdentity
  <2>3. /\ UpdateAction(Finish(act))
        /\ effects' = [effects EXCEPT ![act.id] = IF Succeeds(act) THEN @ + 1 ELSE @]
        /\ \/ Enter(p, Holding("execute.submit", None, Finish(act), None))
           \/ Return(p)
    BY <1>5 DEF ExecuteActionFinish
  <2>4. actions'[a] = actions[a]
    BY <2>1, <2>2, <2>3, StoreAction DEF TypeInv
  <2>5. effects'[a] = effects[a]
    BY <1>a, <2>1, <2>3
  <2>6. frame'[p].at \notin Writes /\ \A q \in Procs \ {p} : frame'[q] = frame[q]
    BY <1>a, <2>3, HoldingMove, ReturnMove
  <2> QED  BY <1>d, <2>4, <2>5, <2>6
<1>6. ASSUME NEW p \in Procs, CreateActionPut(p)
      PROVE  Stays
  <2> DEFINE act == frame[p].action
  <2>1. act \in Action /\ UNCHANGED effects
    BY <1>a, <1>6 DEF CreateActionPut, At, Shape, HoldsAction
  <2>2. actions'[a] = actions[a]
    <3>1. CASE UNCHANGED actions
      BY <3>1
    <3>2. CASE ~PutRefused(act) /\ UpdateAction(act)
      <4>1. act.id # a
        BY <1>b, <3>2 DEF PutRefused
      <4> QED  BY <2>1, <3>2, <4>1, StoreAction DEF TypeInv
    <3> QED  BY <1>6, <3>1, <3>2 DEF CreateActionPut
  <2>3. frame'[p].at \notin Writes /\ \A q \in Procs \ {p} : frame'[q] = frame[q]
    BY <1>a, <1>6, GoToMove, ReturnMove DEF CreateActionPut
  <2> QED  BY <1>d, <2>1, <2>2, <2>3
<1>7. ASSUME NEW p \in Procs, CreateActionGet(p) \/ CreateActionAttach(p)
      PROVE  Stays
  <2>1. UNCHANGED <<actions, effects>>
    BY <1>7 DEF CreateActionGet, CreateActionAttach, store
  <2>2. frame'[p].at \notin Writes /\ \A q \in Procs \ {p} : frame'[q] = frame[q]
    BY <1>a, <1>7, HoldingMove, GoToMove DEF CreateActionGet, CreateActionAttach
  <2> QED  BY <1>d, <2>1, <2>2
<1>8. ASSUME NEW p \in Procs,
             \/ AddEvidenceGet(p) \/ AddEvidencePut(p) \/ AttachEvidenceUpdate(p)
             \/ TransitionIncidentGet(p) \/ TransitionIncidentUpdate(p)
             \/ TakeJob(p) \/ ProcessEvidenceRollup(p) \/ RollupLoad(p) \/ RollupStore(p)
             \/ RollupPut(p) \/ SubmitResponseAction(p)
      PROVE  Stays
  <2>1. /\ UNCHANGED <<actions, idempotency>>
        /\ frame'[p].at \notin HoldsAction
        /\ \A q \in Procs \ {p} : frame'[q] = frame[q]
    BY <1>8, Elsewhere
  <2>2. UNCHANGED effects
    BY <1>8 DEF AddEvidenceGet, AddEvidencePut, AttachEvidenceUpdate, TransitionIncidentGet,
         TransitionIncidentUpdate, TakeJob, ProcessEvidenceRollup, RollupLoad, RollupStore,
         RollupPut, SubmitResponseAction
  <2>3. Writes \subseteq HoldsAction
    BY DEF HoldsAction
  <2> QED  BY <1>d, <2>1, <2>2, <2>3
<1> HIDE DEF Stays
<1>9. Stays
  BY <1>1, <1>2, <1>3, <1>4, <1>5, <1>6, <1>7, <1>8 DEF Next, Request, Resume
<1> QED  BY <1>9 DEF Stays

(* A settled action that no call is executing or cancelling never changes  *)
(* and never takes effect again (service/actions.go, domain/action.go):    *)
(* jobs that are still queued, and later requests, leave it alone.         *)
THEOREM SettledActionsStay == Spec => SettledStays
<1>1. TypeInv /\ [Next]_vars =>
        [\A a \in ActionIDs : SettledForGood(a) =>
            /\ SettledForGood(a)'
            /\ actions'[a] = actions[a] /\ effects'[a] = effects[a]]_vars
  BY SettledNext
<1> QED  BY <1>1, TypeInvariant, PTL DEF Spec, SettledStays
=============================================================================
