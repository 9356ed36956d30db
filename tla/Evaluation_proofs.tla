-------------------------- MODULE Evaluation_proofs --------------------------
(***************************************************************************)
(* Proofs about Evaluation, for any number of goroutines, devices, signals *)
(* and detections: what incidents and anomalies say of each other agrees,  *)
(* although ids collide and stale copies of incidents are written back.    *)
(*                                                                         *)
(* A step may store any copy that a goroutine holds, so what is claimed of *)
(* stored incidents is proved of the copies as well (Known).  An anomaly   *)
(* belongs to the goroutine that stored it until it is linked: nobody else *)
(* writes it, and nobody else adds it to an incident.                      *)
(***************************************************************************)
EXTENDS Evaluation, TLAPS

(* What nextID was called for, where it was called.                        *)
Stage(f) == IF f.at \in {"load", "store"} THEN f.kind ELSE f.at

(* What a goroutine holds at each label.                                   *)
Held(f) ==
  /\ f.at = "job" => f.job \in Job
  /\ f.at \in {"load", "store", "anomaly", "find", "update", "incident", "submit", "link"} =>
       f.job \in Job /\ f.job.type = "incident-evaluation"
  /\ f.at \in {"load", "store"} => f.kind \in Kinds
  /\ Stage(f) = "anomaly" => f.pending # <<>>
  /\ f.anomaly # None <=> Stage(f) \in {"find", "update", "incident", "submit", "link"}
  /\ f.incident # None <=> f.at \in
       {"update", "submit", "link", "rollup", "evidence", "write"}
  /\ f.at \in {"update", "submit", "link"} =>
       f.anomaly.id \in f.incident.anomalies /\ f.incident.device = f.anomaly.device

TypeInv == TypeOK /\ \A p \in Procs : Held(frame[p])

(* Incidents, stored or held as copies.                                    *)
Known == incidents \cup ({frame[p].incident : p \in Procs} \ {None})

StoredAs(n, d) == \E inc \in incidents : inc.id = n /\ inc.device = d

KnownInv ==
  /\ \A x \in Known : StoredAs(x.id, x.device) /\ OfOneSignal(x) /\ Covers(x)
  /\ \A x, y \in Known : \A n \in x.anomalies \cap y.anomalies : x.id = y.id

LinkInv ==
  \A an \in anomalies : an.incident # None =>
    /\ StoredAs(an.incident, an.device)
    /\ \A x \in Known : an.id \in x.anomalies => x.id = an.incident

(* A goroutine that correlates an anomaly, and has not found or opened an  *)
(* incident for it yet.                                                    *)
Owner(f)     == f.anomaly # None
Searching(f) == f.anomaly # None /\ f.incident = None

OwnInv ==
  /\ \A p \in Procs : Owner(frame[p]) =>
       /\ frame[p].anomaly \in anomalies
       /\ frame[p].anomaly.incident = None
       /\ frame[p].anomaly.created <= now
  /\ \A p, q \in Procs : Owner(frame[p]) /\ Owner(frame[q]) /\ p # q =>
       frame[p].anomaly.id # frame[q].anomaly.id
  /\ \A p \in Procs : Searching(frame[p]) =>
       \A x \in Known : frame[p].anomaly.id \notin x.anomalies

Inv == TypeInv /\ KnownInv /\ LinkInv /\ OwnInv
-----------------------------------------------------------------------------
(* Ids are numbers and None is not.                                        *)
LEMMA NoneIsNothing ==
  None \notin Nat /\ None \notin Anomaly /\ None \notin Incident /\ None \notin Job
  BY EvaluationAssumption

(* Storing a record (memory.go) keeps ids unique and every other record.   *)
LEMMA StoreIs ==
  ASSUME NEW R, NEW r, Unique(R)
  PROVE  /\ Unique(Store(R, r))
         /\ \A x : x \in Store(R, r) <=> x = r \/ (x \in R /\ x.id # r.id)
  BY DEF Unique, Store

(* A goroutine that goes on holds what it is given, the others what they   *)
(* held.                                                                   *)
LEMMA Frames ==
  ASSUME frame \in [Procs -> Frame], NEW p \in Procs, NEW f \in Frame, Enter(p, f)
  PROVE  /\ frame' \in [Procs -> Frame]
         /\ frame'[p] = f
         /\ \A q \in Procs \ {p} : frame'[q] = frame[q]
  BY DEF Enter

(* A goroutine that returns holds nothing.                                 *)
LEMMA ReturnIs ==
  ASSUME frame \in [Procs -> Frame], NEW p \in Procs, Return(p)
  PROVE  /\ frame' \in [Procs -> Frame] /\ Held(frame'[p])
         /\ frame'[p].anomaly = None /\ frame'[p].incident = None
         /\ \A q \in Procs \ {p} : frame'[q] = frame[q]
<1>1. <<>> \in Seq(Severities) /\ "idle" \in Labels
  BY DEF Labels
<1>2. /\ Idle \in Frame /\ Idle.at = "idle" /\ Idle.anomaly = None /\ Idle.incident = None
      /\ Stage(Idle) = "idle"
  BY <1>1 DEF Idle, Holding, Frame, Stage
<1>3. Held(Idle)
  BY <1>2 DEF Held
<1> QED  BY <1>2, <1>3, Frames DEF Return

(* nextID is called for an anomaly of an evaluation, or for the incident   *)
(* of the anomaly that the goroutine holds.                                *)
LEMMA CallIs ==
  ASSUME frame \in [Procs -> Frame], NEW p \in Procs, NEW j \in Job, NEW s \in Seq(Severities),
         NEW k \in Kinds, NEW an \in Anomaly \cup {None},
         j.type = "incident-evaluation",
         k = "anomaly" => an = None /\ s # <<>>,
         k = "incident" => an # None,
         CallNextID(p, j, s, k, an, None)
  PROVE  /\ frame' \in [Procs -> Frame] /\ Held(frame'[p])
         /\ frame'[p].anomaly = an /\ frame'[p].incident = None
         /\ \A q \in Procs \ {p} : frame'[q] = frame[q]
<1> DEFINE f == [at |-> "load", job |-> j, pending |-> s, kind |-> k, next |-> 0,
                 anomaly |-> an, incident |-> None]
<1>1. /\ f \in Frame /\ f.at = "load" /\ f.job = j /\ f.pending = s /\ f.kind = k
      /\ f.anomaly = an /\ f.incident = None
  BY DEF Frame, Labels
<1>2. Enter(p, f)
  BY DEF CallNextID
<1> HIDE DEF f
<1>3. Stage(f) = k
  BY <1>1 DEF Stage
<1>4. Held(f)
  BY <1>1, <1>3 DEF Held, Kinds
<1> QED  BY <1>1, <1>2, <1>4, Frames

(* The loop goes on with the next detection or ends.                       *)
LEMMA DetectIs ==
  ASSUME frame \in [Procs -> Frame], NEW p \in Procs, NEW s \in Seq(Severities),
         frame[p].job \in Job, frame[p].job.type = "incident-evaluation",
         Detect(p, s)
  PROVE  /\ frame' \in [Procs -> Frame] /\ Held(frame'[p])
         /\ frame'[p].anomaly = None /\ frame'[p].incident = None
         /\ \A q \in Procs \ {p} : frame'[q] = frame[q]
<1>1. CASE s = <<>>
  BY <1>1, ReturnIs DEF Detect
<1>2. CASE s # <<>>
  <2>1. CallNextID(p, frame[p].job, s, "anomaly", None, None)
    BY <1>2 DEF Detect
  <2> QED  BY <1>2, <2>1, CallIs DEF Kinds
<1> QED  BY <1>1, <1>2

(* Records that the domain functions return.                               *)
LEMMA AddAnomalyIs ==
  ASSUME NEW inc \in Incident, NEW an \in Anomaly
  PROVE  LET x == AddAnomaly(inc, an) IN
         /\ x \in Incident /\ x.id = inc.id /\ x.device = inc.device
         /\ x.opened = inc.opened /\ x.anomalies = inc.anomalies \cup {an.id}
         /\ x.severity >= inc.severity
         /\ an.id \notin inc.anomalies => x.severity >= an.severity
<1>1. CASE an.id \in inc.anomalies
  <2>1. AddAnomaly(inc, an) = inc /\ inc.anomalies = inc.anomalies \cup {an.id}
    BY <1>1 DEF AddAnomaly
  <2>2. inc.severity >= inc.severity
    BY DEF Incident, Severities
  <2> QED  BY <1>1, <2>1, <2>2
<1>2. CASE an.id \notin inc.anomalies
  <2> DEFINE y == [inc EXCEPT !.anomalies = inc.anomalies \cup {an.id}]
  <2>1. /\ y \in Incident /\ y.id = inc.id /\ y.device = inc.device /\ y.opened = inc.opened
        /\ y.anomalies = inc.anomalies \cup {an.id}
    BY DEF Incident, Anomaly
  <2>2. AddAnomaly(inc, an) = [y EXCEPT !.severity = Raised(inc.severity, an.severity)]
    BY <1>2 DEF AddAnomaly
  <2> HIDE DEF y
  <2>3. /\ Raised(inc.severity, an.severity) \in Severities
        /\ Raised(inc.severity, an.severity) >= inc.severity
        /\ Raised(inc.severity, an.severity) >= an.severity
    BY DEF Raised, Incident, Anomaly, Severities
  <2> QED  BY <2>1, <2>2, <2>3 DEF Incident
<1> QED  BY <1>1, <1>2

LEMMA NewAnomalyIs ==
  ASSUME NEW n \in Nat, NEW j \in Job, NEW s \in Severities, j.type = "incident-evaluation",
         now \in Nat
  PROVE  LET an == NewAnomaly(n, j, s) IN
         an \in Anomaly /\ an.id = n /\ an.created = now /\ an.incident = None
  BY DEF NewAnomaly, Anomaly, Job

LEMMA NewIncidentIs ==
  ASSUME NEW n \in Nat, NEW an \in Anomaly, now \in Nat
  PROVE  LET inc == NewIncident(n, an) IN
         /\ inc \in Incident /\ inc.id = n /\ inc.device = an.device /\ inc.opened = now
         /\ inc.anomalies = {an.id} /\ inc.severity = an.severity
  BY DEF NewIncident, Incident, Anomaly
-----------------------------------------------------------------------------
(* What the steps of correlation do, case by case.                         *)

(* A detection is skipped, or its anomaly is new and becomes the           *)
(* goroutine's own.                                                        *)
LEMMA PutAnomalyIs ==
  ASSUME TypeInv, NEW p \in Procs, PutAnomaly(p)
  PROVE  /\ frame' \in [Procs -> Frame] /\ Held(frame'[p])
         /\ \A q \in Procs \ {p} : frame'[q] = frame[q]
         /\ frame'[p].incident = None
         /\ \/ anomalies' = anomalies /\ frame'[p].anomaly = None
            \/ \E an \in Anomaly :
                 /\ an.incident = None /\ an.created = now
                 /\ \A x \in anomalies : x.id # an.id
                 /\ anomalies' = anomalies \cup {an}
                 /\ frame'[p].anomaly = an
<1> DEFINE g == frame[p]
<1>1. /\ frame \in [Procs -> Frame] /\ g \in Frame /\ Held(g) /\ sequence \in Nat
      /\ now \in Nat /\ anomalies \in SUBSET Anomaly
  BY DEF TypeInv, TypeOK
<1>2. /\ g.at = "anomaly" /\ g.job \in Job /\ g.job.type = "incident-evaluation"
      /\ g.pending \in Seq(Severities) /\ g.pending # <<>> /\ g.next \in Nat
  BY <1>1 DEF PutAnomaly, At, Held, Stage, Frame
<1>3. Head(g.pending) \in Severities /\ Tail(g.pending) \in Seq(Severities)
  BY <1>2
<1>4. PICK n \in {g.next, sequence} :
        \/ /\ Exists(anomalies, n)
           /\ Detect(p, Tail(g.pending))
           /\ UNCHANGED anomalies
        \/ /\ ~Exists(anomalies, n)
           /\ anomalies' = Store(anomalies, NewAnomaly(n, g.job, Head(g.pending)))
           /\ Enter(p, Holding("find", g.job, Tail(g.pending),
                               NewAnomaly(n, g.job, Head(g.pending)), None))
  BY DEF PutAnomaly
<1>5. CASE Detect(p, Tail(g.pending)) /\ UNCHANGED anomalies
  BY <1>1, <1>2, <1>3, <1>5, DetectIs
<1>6. CASE /\ ~Exists(anomalies, n)
           /\ anomalies' = Store(anomalies, NewAnomaly(n, g.job, Head(g.pending)))
           /\ Enter(p, Holding("find", g.job, Tail(g.pending),
                               NewAnomaly(n, g.job, Head(g.pending)), None))
  <2> DEFINE an == NewAnomaly(n, g.job, Head(g.pending))
             f  == Holding("find", g.job, Tail(g.pending), an, None)
  <2>1. n \in Nat
    BY <1>1, <1>2, <1>4
  <2>2. an \in Anomaly /\ an.id = n /\ an.created = now /\ an.incident = None
    BY <1>1, <1>2, <1>3, <2>1, NewAnomalyIs
  <2>3. anomalies' = Store(anomalies, an) /\ Enter(p, f)
    BY <1>6
  <2> HIDE DEF an
  <2>4. "find" \in Labels
    BY DEF Labels
  <2>5. /\ f \in Frame /\ f.at = "find" /\ f.job = g.job /\ f.anomaly = an
        /\ f.incident = None /\ Stage(f) = "find"
    BY <1>2, <1>3, <2>2, <2>4 DEF Holding, Frame, Stage
  <2> HIDE DEF f
  <2>6. Held(f)
    BY <1>2, <2>2, <2>5, NoneIsNothing DEF Held
  <2>7. \A x \in anomalies : x.id # an.id
    BY <1>6, <2>2 DEF Exists
  <2>8. anomalies' = anomalies \cup {an}
    BY <2>3, <2>7 DEF Store
  <2>9. /\ frame' \in [Procs -> Frame] /\ frame'[p] = f
        /\ \A q \in Procs \ {p} : frame'[q] = frame[q]
    BY <1>1, <2>3, <2>5, Frames
  <2> QED  BY <2>2, <2>5, <2>6, <2>7, <2>8, <2>9
<1> QED  BY <1>4, <1>5, <1>6

(* The goroutine takes a copy of a stored incident, with its anomaly       *)
(* added, or goes on to open one.                                          *)
LEMMA FindOpenIncidentIs ==
  ASSUME TypeInv, NEW p \in Procs, FindOpenIncident(p)
  PROVE  /\ frame' \in [Procs -> Frame] /\ Held(frame'[p])
         /\ \A q \in Procs \ {p} : frame'[q] = frame[q]
         /\ frame[p].anomaly \in Anomaly /\ frame[p].incident = None
         /\ frame'[p].anomaly = frame[p].anomaly
         /\ \/ frame'[p].incident = None
            \/ \E inc \in Matching(frame[p].anomaly) :
                 frame'[p].incident = AddAnomaly(inc, frame[p].anomaly)
<1> DEFINE g == frame[p]
<1> USE NoneIsNothing
<1>1. /\ frame \in [Procs -> Frame] /\ g \in Frame /\ Held(g) /\ incidents \in SUBSET Incident
  BY DEF TypeInv, TypeOK
<1>2. /\ g.at = "find" /\ Stage(g) = "find" /\ g.job \in Job
      /\ g.job.type = "incident-evaluation"
      /\ g.pending \in Seq(Severities) /\ g.anomaly \in Anomaly /\ g.incident = None
  BY <1>1 DEF FindOpenIncident, At, Held, Stage, Frame
<1>3. ASSUME NEW inc \in Matching(g.anomaly),
             Enter(p, Holding("update", g.job, g.pending, g.anomaly, AddAnomaly(inc, g.anomaly)))
      PROVE  /\ frame' \in [Procs -> Frame] /\ Held(frame'[p])
             /\ \A q \in Procs \ {p} : frame'[q] = frame[q]
             /\ frame'[p].anomaly = frame[p].anomaly
             /\ frame'[p].incident = AddAnomaly(inc, frame[p].anomaly)
  <2> DEFINE x == AddAnomaly(inc, g.anomaly)
             f == Holding("update", g.job, g.pending, g.anomaly, x)
  <2>1. inc \in Incident /\ inc.device = g.anomaly.device
    BY <1>1, <1>3 DEF Matching, SameTopic
  <2>2. x \in Incident /\ x.device = inc.device /\ g.anomaly.id \in x.anomalies
    BY <1>2, <2>1, AddAnomalyIs
  <2>3. Enter(p, f)
    BY <1>3
  <2> HIDE DEF x
  <2>4. "update" \in Labels
    BY DEF Labels
  <2>5. /\ f \in Frame /\ f.at = "update" /\ f.job = g.job /\ f.anomaly = g.anomaly
        /\ f.incident = x /\ Stage(f) = "update"
    BY <1>2, <2>2, <2>4 DEF Holding, Frame, Stage
  <2> HIDE DEF f
  <2>6. Held(f)
    BY <1>2, <2>1, <2>2, <2>5 DEF Held
  <2>7. /\ frame' \in [Procs -> Frame] /\ frame'[p] = f
        /\ \A q \in Procs \ {p} : frame'[q] = frame[q]
    BY <1>1, <2>3, <2>5, Frames
  <2> QED  BY <2>5, <2>6, <2>7 DEF x
<1>4. CASE CallNextID(p, g.job, g.pending, "incident", g.anomaly, None)
  <2>1. /\ frame' \in [Procs -> Frame] /\ Held(frame'[p])
        /\ frame'[p].anomaly = g.anomaly /\ frame'[p].incident = None
        /\ \A q \in Procs \ {p} : frame'[q] = frame[q]
    BY <1>1, <1>2, <1>4, CallIs DEF Kinds
  <2> QED  BY <1>2, <2>1
<1>5. \/ \E inc \in Matching(g.anomaly) :
           Enter(p, Holding("update", g.job, g.pending, g.anomaly, AddAnomaly(inc, g.anomaly)))
      \/ CallNextID(p, g.job, g.pending, "incident", g.anomaly, None)
  BY DEF FindOpenIncident
<1>6. CASE \E inc \in Matching(g.anomaly) :
             Enter(p, Holding("update", g.job, g.pending, g.anomaly, AddAnomaly(inc, g.anomaly)))
  BY <1>2, <1>3, <1>6
<1> QED  BY <1>4, <1>5, <1>6

(* The anomaly stays without an incident, or a new incident lists only it. *)
LEMMA PutIncidentIs ==
  ASSUME TypeInv, NEW p \in Procs, PutIncident(p)
  PROVE  /\ frame' \in [Procs -> Frame] /\ Held(frame'[p])
         /\ \A q \in Procs \ {p} : frame'[q] = frame[q]
         /\ frame[p].anomaly \in Anomaly /\ frame[p].incident = None
         /\ \/ /\ incidents' = incidents
               /\ frame'[p].anomaly = None /\ frame'[p].incident = None
            \/ \E n \in Nat :
                 /\ \A x \in incidents : x.id # n
                 /\ incidents' = incidents \cup {NewIncident(n, frame[p].anomaly)}
                 /\ frame'[p].anomaly = frame[p].anomaly
                 /\ frame'[p].incident = NewIncident(n, frame[p].anomaly)
<1> DEFINE g == frame[p]
<1> USE NoneIsNothing
<1>1. /\ frame \in [Procs -> Frame] /\ g \in Frame /\ Held(g) /\ incidents \in SUBSET Incident
      /\ sequence \in Nat /\ now \in Nat
  BY DEF TypeInv, TypeOK
<1>2. /\ g.at = "incident" /\ Stage(g) = "incident" /\ g.job \in Job
      /\ g.job.type = "incident-evaluation" /\ g.next \in Nat
      /\ g.pending \in Seq(Severities) /\ g.anomaly \in Anomaly /\ g.incident = None
  BY <1>1 DEF PutIncident, At, Held, Stage, Frame
<1>3. PICK n \in {g.next, sequence} :
        \/ /\ Exists(incidents, n)
           /\ Detect(p, g.pending)
           /\ UNCHANGED incidents
        \/ /\ ~Exists(incidents, n)
           /\ incidents' = Store(incidents, NewIncident(n, g.anomaly))
           /\ Enter(p, Holding("submit", g.job, g.pending, g.anomaly, NewIncident(n, g.anomaly)))
  BY DEF PutIncident
<1>4. CASE Detect(p, g.pending) /\ UNCHANGED incidents
  <2>1. /\ frame' \in [Procs -> Frame] /\ Held(frame'[p])
        /\ frame'[p].anomaly = None /\ frame'[p].incident = None
        /\ \A q \in Procs \ {p} : frame'[q] = frame[q]
    BY <1>1, <1>2, <1>4, DetectIs
  <2> QED  BY <1>2, <1>4, <2>1
<1>5. CASE /\ ~Exists(incidents, n)
           /\ incidents' = Store(incidents, NewIncident(n, g.anomaly))
           /\ Enter(p, Holding("submit", g.job, g.pending, g.anomaly, NewIncident(n, g.anomaly)))
  <2> DEFINE x == NewIncident(n, g.anomaly)
             f == Holding("submit", g.job, g.pending, g.anomaly, x)
  <2>1. n \in Nat
    BY <1>1, <1>2, <1>3
  <2>2. /\ x \in Incident /\ x.id = n /\ x.device = g.anomaly.device
        /\ x.anomalies = {g.anomaly.id}
    BY <1>1, <1>2, <2>1, NewIncidentIs
  <2>3. incidents' = Store(incidents, x) /\ Enter(p, f)
    BY <1>5
  <2> HIDE DEF x
  <2>4. "submit" \in Labels
    BY DEF Labels
  <2>5. /\ f \in Frame /\ f.at = "submit" /\ f.job = g.job /\ f.anomaly = g.anomaly
        /\ f.incident = x /\ Stage(f) = "submit"
    BY <1>2, <2>2, <2>4 DEF Holding, Frame, Stage
  <2> HIDE DEF f
  <2>6. Held(f)
    BY <1>2, <2>2, <2>5 DEF Held
  <2>7. \A y \in incidents : y.id # n
    BY <1>5 DEF Exists
  <2>8. incidents' = incidents \cup {x}
    BY <2>2, <2>3, <2>7 DEF Store
  <2>9. /\ frame' \in [Procs -> Frame] /\ frame'[p] = f
        /\ \A q \in Procs \ {p} : frame'[q] = frame[q]
    BY <1>1, <2>3, <2>5, Frames
  <2> QED  BY <1>2, <2>1, <2>5, <2>6, <2>7, <2>8, <2>9 DEF x
<1> QED  BY <1>3, <1>4, <1>5

(* The anomaly that the goroutine owns gets its link and is given up.      *)
LEMMA UpdateAnomalyIs ==
  ASSUME TypeInv, NEW p \in Procs, UpdateAnomaly(p)
  PROVE  LET an == frame[p].anomaly
             inc == frame[p].incident
             linked == [an EXCEPT !.incident = inc.id]
         IN
         /\ frame' \in [Procs -> Frame] /\ Held(frame'[p])
         /\ \A q \in Procs \ {p} : frame'[q] = frame[q]
         /\ frame'[p].anomaly = None /\ frame'[p].incident = None
         /\ an \in Anomaly /\ inc \in Incident
         /\ an.id \in inc.anomalies /\ inc.device = an.device
         /\ linked \in Anomaly /\ linked.incident = inc.id /\ linked.id = an.id
         /\ linked.device = an.device /\ linked.signal = an.signal
         /\ linked.severity = an.severity /\ linked.created = an.created
         /\ anomalies' = Store(anomalies, linked)
<1> DEFINE g == frame[p]
<1> USE NoneIsNothing
<1>1. frame \in [Procs -> Frame] /\ g \in Frame /\ Held(g)
  BY DEF TypeInv, TypeOK
<1>2. /\ g.at = "link" /\ Stage(g) = "link" /\ g.job \in Job
      /\ g.job.type = "incident-evaluation"
      /\ g.pending \in Seq(Severities) /\ g.anomaly \in Anomaly /\ g.incident \in Incident
      /\ g.anomaly.id \in g.incident.anomalies /\ g.incident.device = g.anomaly.device
  BY <1>1 DEF UpdateAnomaly, At, Held, Stage, Frame
<1>3. /\ frame' \in [Procs -> Frame] /\ Held(frame'[p])
      /\ frame'[p].anomaly = None /\ frame'[p].incident = None
      /\ \A q \in Procs \ {p} : frame'[q] = frame[q]
  BY <1>1, <1>2, DetectIs DEF UpdateAnomaly
<1>4. g.incident.id \in Nat
  BY <1>2 DEF Incident
<1>5. LET linked == [g.anomaly EXCEPT !.incident = g.incident.id] IN
      /\ linked \in Anomaly /\ linked.incident = g.incident.id /\ linked.id = g.anomaly.id
      /\ linked.device = g.anomaly.device /\ linked.signal = g.anomaly.signal
      /\ linked.severity = g.anomaly.severity /\ linked.created = g.anomaly.created
  BY <1>2, <1>4 DEF Anomaly
<1> QED  BY <1>2, <1>3, <1>5 DEF UpdateAnomaly
-----------------------------------------------------------------------------
(* Calls that begin, jobs that are queued: types that most steps share.    *)
LEMMA SubmitIs ==
  ASSUME jobs \in Seq(Job), Len(jobs) <= Buffer, NEW j \in Job, Submit(j)
  PROVE  jobs' \in Seq(Job) /\ Len(jobs') <= Buffer
<1>1. CASE HasRoom
  <2>1. jobs' = Append(jobs, j)
    BY <1>1 DEF Submit
  <2>2. Len(jobs) \in Nat /\ Buffer \in Nat
    BY EvaluationAssumption
  <2> QED  BY <1>1, <2>1, <2>2 DEF HasRoom
<1>2. CASE ~HasRoom
  BY <1>2 DEF Submit
<1> QED  BY <1>1, <1>2

(* What a step does to the frames when one goroutine moves.                *)
LEMMA OthersHeld ==
  ASSUME TypeInv, NEW p \in Procs, Held(frame'[p]),
         \A q \in Procs \ {p} : frame'[q] = frame[q]
  PROVE  \A q \in Procs : Held(frame'[q])
  BY DEF TypeInv

(* Type correctness and what is held at each label, action by action.      *)
LEMMA TypeStep == TypeInv /\ [Next]_vars => TypeInv'
<1> SUFFICES ASSUME TypeInv, [Next]_vars PROVE TypeInv'
  OBVIOUS
<1> USE NoneIsNothing
<1>t. /\ anomalies \in SUBSET Anomaly /\ Unique(anomalies)
      /\ incidents \in SUBSET Incident /\ Unique(incidents)
      /\ sequence \in Nat /\ jobs \in Seq(Job) /\ Len(jobs) <= Buffer
      /\ now \in Nat /\ frame \in [Procs -> Frame] /\ calls \in Nat
  BY DEF TypeInv, TypeOK
<1>h. \A p \in Procs : Held(frame[p]) /\ frame[p] \in Frame
  BY <1>t DEF TypeInv
<1>g. ASSUME NEW p \in Procs, frame' \in [Procs -> Frame], Held(frame'[p]),
             \A q \in Procs \ {p} : frame'[q] = frame[q]
      PROVE  \A q \in Procs : Held(frame'[q])
  BY <1>g, OthersHeld
<1>1. ASSUME NEW p \in Procs, SubmitIncidentEvaluation(p) PROVE TypeInv'
  <2>1. PICK d \in Devices, g \in Signals :
          Submit([type |-> "incident-evaluation", device |-> d, signal |-> g])
    BY <1>1 DEF SubmitIncidentEvaluation
  <2>2. jobs' \in Seq(Job) /\ Len(jobs') <= Buffer
    BY <1>t, <2>1, SubmitIs DEF Job
  <2> QED  BY <1>1, <1>t, <1>h, <2>2 DEF SubmitIncidentEvaluation, Begin, TypeInv, TypeOK, Unique
<1>2. ASSUME NEW p \in Procs, ReadIncident(p) PROVE TypeInv'
  <2>1. PICK inc \in incidents : \E s \in {inc.status, "closed"} :
          Enter(p, Holding("write", None, <<>>, None, [inc EXCEPT !.status = s]))
    BY <1>2 DEF ReadIncident
  <2>2. PICK s \in {inc.status, "closed"} :
          Enter(p, Holding("write", None, <<>>, None, [inc EXCEPT !.status = s]))
    BY <2>1
  <2> DEFINE x == [inc EXCEPT !.status = s]
  <2>3. x \in Incident
    BY <1>t, <2>1, <2>2 DEF Incident
  <2> HIDE DEF x
  <2>4. <<>> \in Seq(Severities) /\ "write" \in Labels
    BY DEF Labels
  <2> DEFINE f == Holding("write", None, <<>>, None, x)
  <2>5. f \in Frame /\ f.at = "write" /\ f.anomaly = None /\ f.incident = x /\ Stage(f) = "write"
    BY <2>3, <2>4 DEF Holding, Frame, Stage
  <2>6. Enter(p, f)
    BY <2>2 DEF x
  <2> HIDE DEF f
  <2>7. Held(f)
    BY <2>3, <2>5 DEF Held
  <2>8. frame' \in [Procs -> Frame] /\ \A q \in Procs : Held(frame'[q])
    BY <1>t, <1>g, <2>5, <2>6, <2>7, Frames
  <2> QED  BY <1>2, <1>t, <2>8 DEF ReadIncident, Begin, TypeInv, TypeOK, Unique
<1>3. ASSUME NEW p \in Procs, WriteIncident(p) PROVE TypeInv'
  <2>1. frame[p].incident \in Incident
    BY <1>3, <1>t, <1>h DEF WriteIncident, At, Held, Frame
  <2>2. incidents' \in SUBSET Incident /\ Unique(incidents')
    BY <1>3, <1>t, <2>1, StoreIs DEF WriteIncident
  <2>3. frame' \in [Procs -> Frame] /\ \A q \in Procs : Held(frame'[q])
    BY <1>3, <1>t, <1>g, ReturnIs DEF WriteIncident
  <2> QED  BY <1>3, <1>t, <2>2, <2>3 DEF WriteIncident, TypeInv, TypeOK, Unique
<1>4. ASSUME NEW p \in Procs, TakeJob(p) PROVE TypeInv'
  <2>1. Head(jobs) \in Job /\ Tail(jobs) \in Seq(Job) /\ Len(Tail(jobs)) <= Buffer
    BY <1>4, <1>t, EvaluationAssumption DEF TakeJob
  <2>2. <<>> \in Seq(Severities) /\ "job" \in Labels
    BY DEF Labels
  <2> DEFINE f == Holding("job", Head(jobs), <<>>, None, None)
  <2>3. /\ f \in Frame /\ f.at = "job" /\ f.job = Head(jobs) /\ f.anomaly = None
        /\ f.incident = None /\ Stage(f) = "job"
    BY <2>1, <2>2 DEF Holding, Frame, Stage
  <2>4. Enter(p, f)
    BY <1>4 DEF TakeJob
  <2> HIDE DEF f
  <2>5. Held(f)
    BY <2>1, <2>3 DEF Held
  <2>6. frame' \in [Procs -> Frame] /\ \A q \in Procs : Held(frame'[q])
    BY <1>t, <1>g, <2>3, <2>4, <2>5, Frames
  <2> QED  BY <1>4, <1>t, <2>1, <2>6 DEF TakeJob, TypeInv, TypeOK, Unique
<1>5. ASSUME NEW p \in Procs, EvaluateTelemetry(p) PROVE TypeInv'
  <2>1. PICK s \in Detections[frame[p].job.signal] : Detect(p, s)
    BY <1>5 DEF EvaluateTelemetry
  <2>3. frame[p].job \in Job /\ frame[p].job.type = "incident-evaluation"
    BY <1>5, <1>h DEF EvaluateTelemetry, At, Held
  <2>s. frame[p].job.signal \in Signals
    BY <2>3 DEF Job
  <2>2. s \in Seq(Severities)
    BY <2>1, <2>s, EvaluationAssumption
  <2>4. frame' \in [Procs -> Frame] /\ \A q \in Procs : Held(frame'[q])
    BY <1>t, <1>g, <2>1, <2>2, <2>3, DetectIs
  <2> QED  BY <1>5, <1>t, <2>4 DEF EvaluateTelemetry, TypeInv, TypeOK, Unique
<1>6. ASSUME NEW p \in Procs, NextIDLoad(p) PROVE TypeInv'
  <2> DEFINE y == [frame[p] EXCEPT !.at = "store"]
             f == [y EXCEPT !.next = sequence + 1]
  <2>1. /\ y \in Frame /\ y.at = "store" /\ y.job = frame[p].job /\ y.pending = frame[p].pending
        /\ y.kind = frame[p].kind /\ y.anomaly = frame[p].anomaly
        /\ y.incident = frame[p].incident
    BY <1>h DEF Frame, Labels
  <2>n. sequence + 1 \in Nat
    BY <1>t
  <2> HIDE DEF y
  <2>2. /\ f \in Frame /\ f.at = "store" /\ f.job = frame[p].job /\ f.pending = frame[p].pending
        /\ f.kind = frame[p].kind /\ f.anomaly = frame[p].anomaly
        /\ f.incident = frame[p].incident
    BY <2>1, <2>n DEF Frame
  <2>3. Enter(p, f)
    BY <1>6 DEF NextIDLoad, y
  <2> HIDE DEF f
  <2>4. frame[p].at = "load"
    BY <1>6 DEF NextIDLoad, At
  <2>5. Stage(f) = Stage(frame[p])
    BY <2>2, <2>4 DEF Stage
  <2>6. Held(f)
    BY <1>h, <2>2, <2>4, <2>5 DEF Held
  <2>7. frame' \in [Procs -> Frame] /\ \A q \in Procs : Held(frame'[q])
    BY <1>t, <1>g, <2>2, <2>3, <2>6, Frames
  <2> QED  BY <1>6, <1>t, <2>7 DEF NextIDLoad, TypeInv, TypeOK, Unique
<1>7. ASSUME NEW p \in Procs, NextIDStore(p) PROVE TypeInv'
  <2> DEFINE f == [frame[p] EXCEPT !.at = frame[p].kind]
  <2>1. frame[p].at = "store" /\ frame[p].kind \in Kinds
    BY <1>7, <1>h DEF NextIDStore, At, Held
  <2>2. /\ f \in Frame /\ f.at = frame[p].kind /\ f.job = frame[p].job
        /\ f.pending = frame[p].pending /\ f.anomaly = frame[p].anomaly
        /\ f.incident = frame[p].incident
    BY <1>h, <2>1 DEF Frame, Labels
  <2>3. Enter(p, f)
    BY <1>7 DEF NextIDStore, GoTo
  <2> HIDE DEF f
  <2>4. Stage(f) = Stage(frame[p])
    BY <2>1, <2>2 DEF Stage, Kinds
  <2>5. Held(f)
    BY <1>h, <2>1, <2>2, <2>4 DEF Held, Kinds
  <2>6. frame' \in [Procs -> Frame] /\ \A q \in Procs : Held(frame'[q])
    BY <1>t, <1>g, <2>2, <2>3, <2>5, Frames
  <2>7. sequence' \in Nat
    BY <1>7, <1>h DEF NextIDStore, Frame
  <2> QED  BY <1>7, <1>t, <2>6, <2>7 DEF NextIDStore, TypeInv, TypeOK, Unique
<1>8. ASSUME NEW p \in Procs, PutAnomaly(p) PROVE TypeInv'
  <2>1. frame' \in [Procs -> Frame] /\ \A q \in Procs : Held(frame'[q])
    BY <1>8, <1>g, PutAnomalyIs
  <2>2. anomalies' \in SUBSET Anomaly /\ Unique(anomalies')
    <3>1. CASE anomalies' = anomalies
      BY <1>t, <3>1
    <3>2. CASE \E an \in Anomaly : /\ \A x \in anomalies : x.id # an.id
                                   /\ anomalies' = anomalies \cup {an}
      BY <1>t, <3>2 DEF Unique
    <3> QED  BY <1>8, <3>1, <3>2, PutAnomalyIs
  <2> QED  BY <1>8, <1>t, <2>1, <2>2 DEF PutAnomaly, TypeInv, TypeOK, Unique
<1>9. ASSUME NEW p \in Procs, FindOpenIncident(p) PROVE TypeInv'
  <2>1. frame' \in [Procs -> Frame] /\ \A q \in Procs : Held(frame'[q])
    BY <1>9, <1>g, FindOpenIncidentIs
  <2> QED  BY <1>9, <1>t, <2>1 DEF FindOpenIncident, TypeInv, TypeOK, Unique
<1>10. ASSUME NEW p \in Procs, UpdateIncident(p) PROVE TypeInv'
  <2> DEFINE f == [frame[p] EXCEPT !.at = "link"]
  <2>1. frame[p].at = "update" /\ frame[p].incident \in Incident
    BY <1>10, <1>h DEF UpdateIncident, At, Held, Frame
  <2>2. /\ f \in Frame /\ f.at = "link" /\ f.job = frame[p].job /\ Stage(f) = "link"
        /\ f.pending = frame[p].pending /\ f.anomaly = frame[p].anomaly
        /\ f.incident = frame[p].incident
    BY <1>h DEF Frame, Labels, Stage
  <2>3. Enter(p, f)
    BY <1>10 DEF UpdateIncident, GoTo
  <2> HIDE DEF f
  <2>4. Held(f)
    BY <1>h, <2>1, <2>2 DEF Held, Stage
  <2>5. frame' \in [Procs -> Frame] /\ \A q \in Procs : Held(frame'[q])
    BY <1>t, <1>g, <2>2, <2>3, <2>4, Frames
  <2>6. incidents' \in SUBSET Incident /\ Unique(incidents')
    BY <1>10, <1>t, <2>1, StoreIs DEF UpdateIncident
  <2> QED  BY <1>10, <1>t, <2>5, <2>6 DEF UpdateIncident, TypeInv, TypeOK, Unique
<1>11. ASSUME NEW p \in Procs, PutIncident(p) PROVE TypeInv'
  <2>1. frame' \in [Procs -> Frame] /\ \A q \in Procs : Held(frame'[q])
    BY <1>11, <1>g, PutIncidentIs
  <2>2. incidents' \in SUBSET Incident /\ Unique(incidents')
    <3>1. CASE incidents' = incidents
      BY <1>t, <3>1
    <3>2. CASE \E n \in Nat : /\ \A x \in incidents : x.id # n
                              /\ incidents' = incidents \cup {NewIncident(n, frame[p].anomaly)}
      <4>1. PICK n \in Nat : /\ \A x \in incidents : x.id # n
                             /\ incidents' = incidents \cup {NewIncident(n, frame[p].anomaly)}
        BY <3>2
      <4>2. /\ NewIncident(n, frame[p].anomaly) \in Incident
            /\ NewIncident(n, frame[p].anomaly).id = n
        BY <1>11, <1>t, <4>1, PutIncidentIs, NewIncidentIs
      <4> QED  BY <1>t, <4>1, <4>2 DEF Unique
    <3> QED  BY <1>11, <3>1, <3>2, PutIncidentIs
  <2> QED  BY <1>11, <1>t, <2>1, <2>2 DEF PutIncident, TypeInv, TypeOK, Unique
<1>12. ASSUME NEW p \in Procs, SubmitEvidenceRollup(p) PROVE TypeInv'
  <2> DEFINE f == [frame[p] EXCEPT !.at = "link"]
  <2>1. frame[p].at = "submit" /\ frame[p].incident \in Incident
    BY <1>12, <1>h DEF SubmitEvidenceRollup, At, Held, Frame
  <2>2. /\ f \in Frame /\ f.at = "link" /\ f.job = frame[p].job /\ Stage(f) = "link"
        /\ f.pending = frame[p].pending /\ f.anomaly = frame[p].anomaly
        /\ f.incident = frame[p].incident
    BY <1>h DEF Frame, Labels, Stage
  <2>3. Enter(p, f)
    BY <1>12 DEF SubmitEvidenceRollup, GoTo
  <2> HIDE DEF f
  <2>4. Held(f)
    BY <1>h, <2>1, <2>2 DEF Held, Stage
  <2>5. frame' \in [Procs -> Frame] /\ \A q \in Procs : Held(frame'[q])
    BY <1>t, <1>g, <2>2, <2>3, <2>4, Frames
  <2>6. [type |-> "evidence-rollup", incident |-> frame[p].incident.id] \in Job
    BY <2>1 DEF Job, Incident
  <2>7. jobs' \in Seq(Job) /\ Len(jobs') <= Buffer
    BY <1>12, <1>t, <2>6, SubmitIs DEF SubmitEvidenceRollup
  <2> QED  BY <1>12, <1>t, <2>5, <2>7 DEF SubmitEvidenceRollup, TypeInv, TypeOK, Unique
<1>13. ASSUME NEW p \in Procs, UpdateAnomaly(p) PROVE TypeInv'
  <2>1. frame' \in [Procs -> Frame] /\ \A q \in Procs : Held(frame'[q])
    BY <1>13, <1>g, UpdateAnomalyIs
  <2> DEFINE linked == [frame[p].anomaly EXCEPT !.incident = frame[p].incident.id]
  <2>2. linked \in Anomaly /\ anomalies' = Store(anomalies, linked)
    BY <1>13, UpdateAnomalyIs
  <2> HIDE DEF linked
  <2>3. anomalies' \in SUBSET Anomaly /\ Unique(anomalies')
    BY <1>t, <2>2, StoreIs
  <2> QED  BY <1>13, <1>t, <2>1, <2>3 DEF UpdateAnomaly, TypeInv, TypeOK, Unique
<1>14. ASSUME NEW p \in Procs, RollupGet(p) PROVE TypeInv'
  <2>1. PICK inc \in incidents : Enter(p, Holding("rollup", None, <<>>, None, inc))
    BY <1>14 DEF RollupGet
  <2>2. <<>> \in Seq(Severities) /\ "rollup" \in Labels
    BY DEF Labels
  <2> DEFINE f == Holding("rollup", None, <<>>, None, inc)
  <2>3. f \in Frame /\ f.at = "rollup" /\ f.anomaly = None /\ f.incident = inc /\ Stage(f) = "rollup"
    BY <1>t, <2>1, <2>2 DEF Holding, Frame, Stage
  <2>4. Enter(p, f)
    BY <2>1
  <2> HIDE DEF f
  <2>5. Held(f)
    BY <1>t, <2>1, <2>3 DEF Held
  <2>6. frame' \in [Procs -> Frame] /\ \A q \in Procs : Held(frame'[q])
    BY <1>t, <1>g, <2>3, <2>4, <2>5, Frames
  <2> QED  BY <1>14, <1>t, <2>6 DEF RollupGet, TypeInv, TypeOK, Unique
<1>15. ASSUME NEW p \in Procs, RollupLoad(p) PROVE TypeInv'
  <2> DEFINE y == [frame[p] EXCEPT !.at = "evidence"]
             f == [y EXCEPT !.next = sequence + 1]
  <2>1. /\ y \in Frame /\ y.at = "evidence" /\ y.anomaly = frame[p].anomaly
        /\ y.incident = frame[p].incident
    BY <1>h DEF Frame, Labels
  <2>n. sequence + 1 \in Nat
    BY <1>t
  <2> HIDE DEF y
  <2>2. /\ f \in Frame /\ f.at = "evidence" /\ f.anomaly = frame[p].anomaly
        /\ f.incident = frame[p].incident
    BY <2>1, <2>n DEF Frame
  <2>3. Enter(p, f)
    BY <1>15 DEF RollupLoad, y
  <2> HIDE DEF f
  <2>4. frame[p].at = "rollup"
    BY <1>15 DEF RollupLoad, At
  <2>5. Stage(f) = "evidence" /\ Stage(frame[p]) = "rollup"
    BY <2>2, <2>4 DEF Stage
  <2>6. Held(f)
    BY <1>h, <2>2, <2>4, <2>5 DEF Held
  <2>7. frame' \in [Procs -> Frame] /\ \A q \in Procs : Held(frame'[q])
    BY <1>t, <1>g, <2>2, <2>3, <2>6, Frames
  <2> QED  BY <1>15, <1>t, <2>7 DEF RollupLoad, TypeInv, TypeOK, Unique
<1>16. ASSUME NEW p \in Procs, RollupPut(p) PROVE TypeInv'
  <2>s. sequence' \in Nat
    BY <1>16, <1>h DEF RollupPut, Frame
  <2>1. CASE Return(p)
    <3>1. frame' \in [Procs -> Frame] /\ \A q \in Procs : Held(frame'[q])
      BY <1>t, <1>g, <2>1, ReturnIs
    <3> QED  BY <1>16, <1>t, <2>s, <3>1 DEF RollupPut, TypeInv, TypeOK, Unique
  <2>2. CASE Enter(p, Holding("write", None, <<>>, None, frame[p].incident))
    <3> DEFINE f == Holding("write", None, <<>>, None, frame[p].incident)
    <3>1. frame[p].at = "evidence" /\ frame[p].incident \in Incident
      BY <1>16, <1>h DEF RollupPut, At, Held, Frame
    <3>e. <<>> \in Seq(Severities) /\ "write" \in Labels
      BY DEF Labels
    <3>2. /\ f \in Frame /\ f.at = "write" /\ Stage(f) = "write"
          /\ f.anomaly = None /\ f.incident = frame[p].incident
      BY <3>1, <3>e DEF Holding, Frame, Stage
    <3>3. Enter(p, f)
      BY <2>2
    <3> HIDE DEF f
    <3>4. Held(f)
      BY <3>1, <3>2 DEF Held
    <3>5. frame' \in [Procs -> Frame] /\ \A q \in Procs : Held(frame'[q])
      BY <1>t, <1>g, <3>2, <3>3, <3>4, Frames
    <3> QED  BY <1>16, <1>t, <2>s, <3>5 DEF RollupPut, TypeInv, TypeOK, Unique
  <2> QED  BY <1>16, <2>1, <2>2 DEF RollupPut
<1>17. ASSUME Tick PROVE TypeInv'
  BY <1>17, <1>t, <1>h DEF Tick, TypeInv, TypeOK, Unique
<1>18. ASSUME UNCHANGED vars PROVE TypeInv'
  BY <1>18, <1>t, <1>h DEF vars, TypeInv, TypeOK, Unique
<1> QED  BY <1>1, <1>2, <1>3, <1>4, <1>5, <1>6, <1>7, <1>8, <1>9, <1>10, <1>11, <1>12, <1>13,
            <1>14, <1>15, <1>16, <1>17, <1>18 DEF Next
-----------------------------------------------------------------------------
(* Two incidents, stored or copied, that say the same of their anomalies.  *)
Like(x, y) ==
  /\ x.id = y.id /\ x.device = y.device /\ x.opened = y.opened
  /\ x.anomalies = y.anomalies /\ x.severity = y.severity

(* A step that writes no anomaly and after which every incident and copy   *)
(* says what an incident or a copy said before.                            *)
LEMMA Quiet ==
  ASSUME Inv, anomalies' = anomalies, now \in Nat, now' \in Nat, now' >= now,
         \A an \in anomalies : an.created \in Nat,
         \A x \in Known' : \E y \in Known : Like(x, y),
         \A inc \in incidents : \E x \in incidents' : x.id = inc.id /\ x.device = inc.device,
         \A q \in Procs : /\ Owner(frame'[q]) => frame'[q].anomaly = frame[q].anomaly
                          /\ Searching(frame'[q]) => Searching(frame[q])
  PROVE  KnownInv' /\ LinkInv' /\ OwnInv'
<1>1. \A n, d : StoredAs(n, d) => StoredAs(n, d)'
  BY DEF StoredAs
<1>2. ASSUME NEW x \in Known' PROVE StoredAs(x.id, x.device)' /\ OfOneSignal(x)' /\ Covers(x)'
  <2>1. PICK y \in Known : Like(x, y)
    BY <1>2
  <2>2. StoredAs(y.id, y.device) /\ OfOneSignal(y) /\ Covers(y)
    BY <2>1 DEF Inv, KnownInv
  <2>3. StoredAs(x.id, x.device)'
    BY <1>1, <2>1, <2>2 DEF Like
  <2>4. OfOneSignal(x)'
    BY <2>1, <2>2 DEF Like, OfOneSignal
  <2>5. Covers(x)'
    BY <2>1, <2>2 DEF Like, Covers
  <2> QED  BY <2>3, <2>4, <2>5
<1>3. ASSUME NEW x \in Known', NEW z \in Known', NEW n \in x.anomalies \cap z.anomalies
      PROVE  x.id = z.id
  <2>1. PICK y \in Known : Like(x, y)
    BY <1>3
  <2>2. PICK w \in Known : Like(z, w)
    BY <1>3
  <2> QED  BY <1>3, <2>1, <2>2 DEF Like, Inv, KnownInv
<1>4. KnownInv'
  BY <1>2, <1>3 DEF KnownInv
<1>5. LinkInv'
  <2> SUFFICES ASSUME NEW an \in anomalies, an.incident # None
               PROVE  /\ StoredAs(an.incident, an.device)'
                      /\ \A x \in Known' : an.id \in x.anomalies => x.id = an.incident
    BY DEF LinkInv
  <2>1. /\ StoredAs(an.incident, an.device)
        /\ \A y \in Known : an.id \in y.anomalies => y.id = an.incident
    BY DEF Inv, LinkInv
  <2>2. ASSUME NEW x \in Known', an.id \in x.anomalies PROVE x.id = an.incident
    <3>1. PICK y \in Known : Like(x, y)
      BY <2>2
    <3> QED  BY <2>1, <2>2, <3>1 DEF Like
  <2> QED  BY <1>1, <2>1, <2>2
<1>6. OwnInv'
  <2>1. ASSUME NEW q \in Procs, Owner(frame'[q])
        PROVE  /\ Owner(frame[q]) /\ frame'[q].anomaly = frame[q].anomaly
               /\ frame[q].anomaly \in anomalies /\ frame[q].anomaly.incident = None
               /\ frame[q].anomaly.created <= now'
    <3>1. Owner(frame[q]) /\ frame'[q].anomaly = frame[q].anomaly
      BY <2>1 DEF Owner
    <3>2. /\ frame[q].anomaly \in anomalies /\ frame[q].anomaly.incident = None
          /\ frame[q].anomaly.created <= now
      BY <3>1 DEF Inv, OwnInv
    <3>3. frame[q].anomaly.created <= now'
      BY <3>2
    <3> QED  BY <3>1, <3>2, <3>3
  <2>2. ASSUME NEW q \in Procs, Searching(frame'[q]), NEW x \in Known'
        PROVE  frame'[q].anomaly.id \notin x.anomalies
    <3>1. PICK y \in Known : Like(x, y)
      BY <2>2
    <3>2. Searching(frame[q]) /\ frame'[q].anomaly = frame[q].anomaly
      BY <2>2 DEF Owner, Searching
    <3> QED  BY <3>1, <3>2 DEF Like, Inv, OwnInv
  <2>3. ASSUME NEW q \in Procs, NEW r \in Procs, Owner(frame'[q]), Owner(frame'[r]), q # r
        PROVE  frame'[q].anomaly.id # frame'[r].anomaly.id
    BY <2>1, <2>3 DEF Inv, OwnInv
  <2> QED  BY <2>1, <2>2, <2>3 DEF OwnInv
<1> QED  BY <1>4, <1>5, <1>6

(* When one goroutine moves, nothing is known but what was known, what is  *)
(* stored, and its copy.                                                   *)
LEMMA KnownMoves ==
  ASSUME NEW p \in Procs, \A q \in Procs \ {p} : frame'[q] = frame[q]
  PROVE  \A x : x \in Known' =>
           \/ x \in incidents' \/ x \in Known
           \/ x = frame'[p].incident /\ x # None
  BY DEF Known

(* Quiet, for a step of one goroutine.                                     *)
LEMMA QuietMove ==
  ASSUME Inv, anomalies' = anomalies, now' = now, NEW p \in Procs,
         \A q \in Procs \ {p} : frame'[q] = frame[q],
         \A x \in incidents' : x \in Known,
         \A inc \in incidents : \E x \in incidents' : x.id = inc.id /\ x.device = inc.device,
         frame'[p].incident # None => \E y \in Known : Like(frame'[p].incident, y),
         Owner(frame'[p]) => frame'[p].anomaly = frame[p].anomaly,
         Searching(frame'[p]) => Searching(frame[p])
  PROVE  KnownInv' /\ LinkInv' /\ OwnInv'
<1>1. \A x \in Known' : \E y \in Known : Like(x, y)
  BY KnownMoves DEF Like
<1>2. now \in Nat /\ now' \in Nat /\ now' >= now /\ \A an \in anomalies : an.created \in Nat
  BY DEF Inv, TypeInv, TypeOK, Anomaly
<1>3. \A q \in Procs : /\ Owner(frame'[q]) => frame'[q].anomaly = frame[q].anomaly
                       /\ Searching(frame'[q]) => Searching(frame[q])
  OBVIOUS
<1> QED  BY <1>1, <1>2, <1>3, Quiet

(* Storing a copy that a goroutine holds: the incident stays stored.       *)
LEMMA StoreCopy ==
  ASSUME Inv, NEW p \in Procs, frame[p].incident # None,
         incidents' = Store(incidents, frame[p].incident)
  PROVE  /\ \A x \in incidents' : x \in Known
         /\ \A inc \in incidents : \E x \in incidents' : x.id = inc.id /\ x.device = inc.device
<1> DEFINE c == frame[p].incident
<1>1. c \in Known /\ Unique(incidents)
  BY DEF Known, Inv, TypeInv, TypeOK
<1>2. PICK s \in incidents : s.id = c.id /\ s.device = c.device
  BY <1>1 DEF Inv, KnownInv, StoredAs
<1>3. \A x : x \in incidents' <=> x = c \/ (x \in incidents /\ x.id # c.id)
  BY <1>1, StoreIs
<1>4. \A x \in incidents' : x \in Known
  BY <1>1, <1>3 DEF Known
<1>5. ASSUME NEW inc \in incidents PROVE \E x \in incidents' : x.id = inc.id /\ x.device = inc.device
  <2>1. CASE inc.id = c.id
    BY <1>1, <1>2, <1>3, <2>1 DEF Unique
  <2>2. CASE inc.id # c.id
    BY <1>3, <2>2
  <2> QED  BY <2>1, <2>2
<1> QED  BY <1>4, <1>5
-----------------------------------------------------------------------------
(* A new anomaly is unknown to every incident and every other goroutine.   *)
LEMMA PutAnomalyKeeps ==
  ASSUME Inv, NEW p \in Procs, PutAnomaly(p)
  PROVE  KnownInv' /\ LinkInv' /\ OwnInv'
<1>t. /\ TypeInv /\ now \in Nat /\ anomalies \in SUBSET Anomaly
      /\ incidents' = incidents /\ now' = now
  BY DEF Inv, TypeInv, TypeOK, PutAnomaly
<1>f. /\ \A q \in Procs \ {p} : frame'[q] = frame[q]
      /\ frame'[p].incident = None
  BY <1>t, PutAnomalyIs
<1>k. \A x \in Known' : x \in Known
  BY <1>t, <1>f, KnownMoves DEF Known
<1>1. CASE anomalies' = anomalies /\ frame'[p].anomaly = None
  BY <1>1, <1>t, <1>f, QuietMove DEF Known, Owner, Searching
<1>2. ASSUME NEW an \in Anomaly, an.incident = None, an.created = now,
             \A x \in anomalies : x.id # an.id,
             anomalies' = anomalies \cup {an}, frame'[p].anomaly = an
      PROVE  KnownInv' /\ LinkInv' /\ OwnInv'
  <2>1. \A x \in Known : an.id \notin x.anomalies
    BY <1>2 DEF Inv, KnownInv, OfOneSignal
  <2>2. \A n, d : StoredAs(n, d)' <=> StoredAs(n, d)
    BY <1>t DEF StoredAs
  <2>3. ASSUME NEW x \in Known' PROVE StoredAs(x.id, x.device)' /\ OfOneSignal(x)' /\ Covers(x)'
    <3>1. x \in Known /\ StoredAs(x.id, x.device) /\ OfOneSignal(x) /\ Covers(x)
      BY <1>k, <2>3 DEF Inv, KnownInv
    <3>2. OfOneSignal(x)'
      BY <1>2, <3>1 DEF OfOneSignal
    <3>3. Covers(x)'
      BY <1>2, <2>1, <3>1 DEF Covers
    <3> QED  BY <2>2, <3>1, <3>2, <3>3
  <2>4. KnownInv'
    BY <1>k, <2>3 DEF Inv, KnownInv
  <2>5. LinkInv'
    BY <1>2, <1>k, <2>2 DEF Inv, LinkInv
  <2>6. OwnInv'
    <3>1. \A q \in Procs \ {p} : Owner(frame[q]) => frame[q].anomaly.id # an.id
      BY <1>2 DEF Inv, OwnInv
    <3>2. ASSUME NEW q \in Procs, Owner(frame'[q])
          PROVE  /\ frame'[q].anomaly \in anomalies' /\ frame'[q].anomaly.incident = None
                 /\ frame'[q].anomaly.created <= now'
      <4>1. CASE q = p
        BY <1>2, <1>t, <4>1
      <4>2. CASE q # p
        BY <1>2, <1>t, <1>f, <3>2, <4>2 DEF Inv, OwnInv
      <4> QED  BY <4>1, <4>2
    <3>3. ASSUME NEW q \in Procs, NEW r \in Procs, Owner(frame'[q]), Owner(frame'[r]), q # r
          PROVE  frame'[q].anomaly.id # frame'[r].anomaly.id
      BY <1>2, <1>f, <3>1, <3>3 DEF Inv, OwnInv
    <3>4. ASSUME NEW q \in Procs, Searching(frame'[q]), NEW x \in Known'
          PROVE  frame'[q].anomaly.id \notin x.anomalies
      <4>1. CASE q = p
        BY <1>2, <1>k, <2>1, <4>1
      <4>2. CASE q # p
        BY <1>f, <1>k, <3>4, <4>2 DEF Inv, OwnInv
      <4> QED  BY <4>1, <4>2
    <3> QED  BY <3>2, <3>3, <3>4 DEF OwnInv
  <2> QED  BY <2>4, <2>5, <2>6
<1> QED  BY <1>t, <1>1, <1>2, PutAnomalyIs

(* Common to the two ways in which an anomaly gets into an incident: the   *)
(* goroutine adds the anomaly it searches an incident for, and nobody has  *)
(* added it before.                                                        *)
LEMMA JoinKeeps ==
  ASSUME Inv, NEW p \in Procs, NEW c, Searching(frame[p]),
         anomalies' = anomalies, now' = now,
         \A q \in Procs \ {p} : frame'[q] = frame[q],
         frame'[p].anomaly = frame[p].anomaly, frame'[p].incident = c, c # None,
         \A x \in Known' : x \in Known \/ x = c,
         \A inc \in incidents : inc \in incidents',
         StoredAs(c.id, c.device)', OfOneSignal(c), Covers(c),
         \A n \in c.anomalies : \/ n = frame[p].anomaly.id
                                \/ \E y \in Known : y.id = c.id /\ n \in y.anomalies
  PROVE  KnownInv' /\ LinkInv' /\ OwnInv'
<1> DEFINE own == frame[p].anomaly
<1>o. /\ own \in anomalies /\ own.incident = None /\ own.created <= now
      /\ \A x \in Known : own.id \notin x.anomalies
      /\ \A q \in Procs \ {p} : Owner(frame[q]) => frame[q].anomaly.id # own.id
  BY DEF Inv, OwnInv, Searching, Owner
<1>1. \A n, d : StoredAs(n, d) => StoredAs(n, d)'
  BY DEF StoredAs
<1>2. \A x \in Known' : StoredAs(x.id, x.device)' /\ OfOneSignal(x)' /\ Covers(x)'
  BY <1>1 DEF Inv, KnownInv, OfOneSignal, Covers
<1>3. \A x \in Known : \A n \in x.anomalies \cap c.anomalies : x.id = c.id
  BY <1>o DEF Inv, KnownInv
<1>4. KnownInv'
  BY <1>2, <1>3 DEF Inv, KnownInv
<1>5. LinkInv'
  <2> SUFFICES ASSUME NEW an \in anomalies, an.incident # None
               PROVE  /\ StoredAs(an.incident, an.device)'
                      /\ \A x \in Known' : an.id \in x.anomalies => x.id = an.incident
    BY DEF LinkInv
  <2>1. /\ StoredAs(an.incident, an.device)
        /\ \A y \in Known : an.id \in y.anomalies => y.id = an.incident
    BY DEF Inv, LinkInv
  <2>2. an.id # own.id
    BY <1>o DEF Inv, TypeInv, TypeOK, Unique
  <2>3. an.id \in c.anomalies => c.id = an.incident
    BY <2>1, <2>2
  <2> QED  BY <1>1, <2>1, <2>3
<1>6. OwnInv'
  <2>1. \A q \in Procs : frame'[q].anomaly = frame[q].anomaly
    OBVIOUS
  <2>2. ASSUME NEW q \in Procs, Searching(frame'[q]), NEW x \in Known'
        PROVE  frame'[q].anomaly.id \notin x.anomalies
    <3>1. q # p
      BY <2>2 DEF Searching
    <3>2. Searching(frame[q]) /\ frame'[q] = frame[q]
      BY <2>2, <3>1
    <3>3. \A y \in Known : frame[q].anomaly.id \notin y.anomalies
      BY <3>2 DEF Inv, OwnInv
    <3>4. frame[q].anomaly.id # own.id
      BY <1>o, <3>1, <3>2 DEF Searching, Owner
    <3> QED  BY <3>2, <3>3, <3>4
  <2> QED  BY <2>1, <2>2 DEF Inv, OwnInv, Owner
<1> QED  BY <1>4, <1>5, <1>6

(* An open incident of the same device and signal takes the anomaly.       *)
LEMMA FindOpenIncidentKeeps ==
  ASSUME Inv, NEW p \in Procs, FindOpenIncident(p)
  PROVE  KnownInv' /\ LinkInv' /\ OwnInv'
<1> DEFINE own == frame[p].anomaly
<1>t. /\ TypeInv /\ now \in Nat /\ anomalies \in SUBSET Anomaly /\ Unique(anomalies)
      /\ incidents \in SUBSET Incident
      /\ incidents' = incidents /\ anomalies' = anomalies /\ now' = now
  BY DEF Inv, TypeInv, TypeOK, FindOpenIncident
<1>f. /\ \A q \in Procs \ {p} : frame'[q] = frame[q]
      /\ own \in Anomaly /\ frame[p].incident = None /\ frame'[p].anomaly = own
  BY <1>t, FindOpenIncidentIs
<1>s. Searching(frame[p])
  BY <1>f, NoneIsNothing DEF Searching
<1>o. own \in anomalies /\ own.created <= now
  BY <1>s DEF Inv, OwnInv, Searching, Owner
<1>1. CASE frame'[p].incident = None
  BY <1>1, <1>t, <1>f, <1>s, QuietMove DEF Known
<1>2. ASSUME NEW inc \in Matching(own), NEW c, c = AddAnomaly(inc, own),
             frame'[p].incident = c
      PROVE  KnownInv' /\ LinkInv' /\ OwnInv'
  <2>1. /\ inc \in incidents /\ inc \in Incident /\ inc \in Known /\ inc.device = own.device
        /\ inc.opened >= now - Width
        /\ \E x \in anomalies : x.id \in inc.anomalies /\ x.signal = own.signal
    BY <1>t, <1>2 DEF Matching, SameTopic, Recent, Known
  <2>2. /\ c \in Incident /\ c.id = inc.id /\ c.device = inc.device /\ c.opened = inc.opened
        /\ c.anomalies = inc.anomalies \cup {own.id}
        /\ c.severity >= inc.severity /\ c.severity >= own.severity
    <3>1. own.id \notin inc.anomalies
      BY <1>s, <2>1 DEF Inv, OwnInv
    <3> QED  BY <1>2, <1>f, <2>1, <3>1, AddAnomalyIs
  <2>3. OfOneSignal(inc) /\ Covers(inc)
    BY <2>1 DEF Inv, KnownInv
  <2>4. PICK g \in Signals : \A n \in inc.anomalies :
          \E an \in anomalies : an.id = n /\ an.device = inc.device /\ an.signal = g
    BY <2>3 DEF OfOneSignal
  <2>5. own.signal = g
    BY <1>t, <2>1, <2>4 DEF Unique
  <2>6. OfOneSignal(c)
    BY <1>o, <2>1, <2>2, <2>4, <2>5 DEF OfOneSignal
  <2>7. ASSUME NEW an \in anomalies, an.id \in c.anomalies
        PROVE  an.severity <= c.severity /\ an.created <= c.opened + Width
    <3>0. /\ an.severity \in Int /\ c.severity \in Int /\ inc.severity \in Int
          /\ Width \in Nat /\ inc.opened \in Nat /\ an.created \in Nat
      BY <1>t, <2>1, <2>2, EvaluationAssumption DEF Anomaly, Incident, Severities
    <3>1. CASE an.id \in inc.anomalies
      <4>1. an.severity <= inc.severity /\ an.created <= inc.opened + Width
        BY <2>3, <3>1 DEF Covers
      <4> QED  BY <2>2, <3>0, <4>1
    <3>2. CASE an.id = own.id
      <4>1. an = own
        BY <1>o, <1>t, <3>2 DEF Unique
      <4>2. an.created <= now /\ inc.opened >= now - Width
        BY <1>o, <2>1, <4>1
      <4>3. an.created <= c.opened + Width
        BY <1>t, <2>2, <3>0, <4>2
      <4> QED  BY <2>2, <3>0, <4>1, <4>3
    <3> QED  BY <2>2, <2>7, <3>1, <3>2
  <2>8. Covers(c)
    BY <2>7 DEF Covers
  <2>9. frame'[p].incident = c /\ c # None
    BY <1>2, <2>2, NoneIsNothing
  <2>10. \A x \in Known' : x \in Known \/ x = c
    BY <1>t, <1>f, <2>9, KnownMoves DEF Known
  <2>11. StoredAs(c.id, c.device)'
    BY <1>t, <2>1, <2>2 DEF StoredAs
  <2>12. \A n \in c.anomalies : n = own.id \/ \E y \in Known : y.id = c.id /\ n \in y.anomalies
    BY <2>1, <2>2
  <2> QED  BY <1>t, <1>f, <1>s, <2>6, <2>8, <2>9, <2>10, <2>11, <2>12, JoinKeeps
<1> QED  BY <1>t, <1>1, <1>2, FindOpenIncidentIs

(* A new incident lists the anomaly that it was opened for.                *)
LEMMA PutIncidentKeeps ==
  ASSUME Inv, NEW p \in Procs, PutIncident(p)
  PROVE  KnownInv' /\ LinkInv' /\ OwnInv'
<1> DEFINE own == frame[p].anomaly
<1>t. /\ TypeInv /\ now \in Nat /\ anomalies \in SUBSET Anomaly /\ Unique(anomalies)
      /\ anomalies' = anomalies /\ now' = now
  BY DEF Inv, TypeInv, TypeOK, PutIncident
<1>f. /\ \A q \in Procs \ {p} : frame'[q] = frame[q]
      /\ own \in Anomaly /\ frame[p].incident = None
  BY <1>t, PutIncidentIs
<1>s. Searching(frame[p])
  BY <1>f, NoneIsNothing DEF Searching
<1>o. own \in anomalies /\ own.created <= now
  BY <1>s DEF Inv, OwnInv, Searching, Owner
<1>1. CASE incidents' = incidents /\ frame'[p].anomaly = None /\ frame'[p].incident = None
  BY <1>1, <1>t, <1>f, QuietMove DEF Known, Owner, Searching
<1>2. ASSUME NEW n \in Nat, NEW c, c = NewIncident(n, own),
             \A x \in incidents : x.id # n,
             incidents' = incidents \cup {c},
             frame'[p].anomaly = own, frame'[p].incident = c
      PROVE  KnownInv' /\ LinkInv' /\ OwnInv'
  <2>1. /\ c \in Incident /\ c.id = n /\ c.device = own.device /\ c.opened = now
        /\ c.anomalies = {own.id} /\ c.severity = own.severity
    BY <1>2, <1>t, <1>f, NewIncidentIs
  <2>2. incidents' = incidents \cup {c} /\ frame'[p].incident = c
    BY <1>2
  <2>3. own.signal \in Signals
    BY <1>f DEF Anomaly
  <2>4. OfOneSignal(c)
    BY <1>o, <2>1, <2>3 DEF OfOneSignal
  <2>5. ASSUME NEW an \in anomalies, an.id \in c.anomalies
        PROVE  an.severity <= c.severity /\ an.created <= c.opened + Width
    <3>1. an = own
      BY <1>o, <1>t, <2>1, <2>5 DEF Unique
    <3>2. own.created \in Nat /\ own.severity \in Int /\ Width \in Nat
      BY <1>f, EvaluationAssumption DEF Anomaly, Severities
    <3> QED  BY <1>o, <1>t, <2>1, <3>1, <3>2
  <2>6. Covers(c)
    BY <2>5 DEF Covers
  <2>7. c # None
    BY <2>1, NoneIsNothing
  <2>8. \A x \in Known' : x \in Known \/ x = c
    BY <1>f, <2>2, KnownMoves DEF Known
  <2>9. StoredAs(c.id, c.device)'
    BY <2>2 DEF StoredAs
  <2> QED  BY <1>2, <1>t, <1>f, <1>s, <2>1, <2>2, <2>4, <2>6, <2>7, <2>8, <2>9, JoinKeeps
<1> QED  BY <1>t, <1>1, <1>2, PutIncidentIs

(* The link names the incident that all who list the anomaly are copies of.*)
LEMMA UpdateAnomalyKeeps ==
  ASSUME Inv, NEW p \in Procs, UpdateAnomaly(p)
  PROVE  KnownInv' /\ LinkInv' /\ OwnInv'
<1> DEFINE own == frame[p].anomaly
           c == frame[p].incident
           linked == [own EXCEPT !.incident = c.id]
<1>t. /\ TypeInv /\ now \in Nat /\ anomalies \in SUBSET Anomaly /\ Unique(anomalies)
      /\ incidents' = incidents /\ now' = now
  BY DEF Inv, TypeInv, TypeOK, UpdateAnomaly
<1>f. /\ \A q \in Procs \ {p} : frame'[q] = frame[q]
      /\ frame'[p].anomaly = None /\ frame'[p].incident = None
      /\ own \in Anomaly /\ c \in Incident /\ own.id \in c.anomalies /\ c.device = own.device
  BY <1>t, UpdateAnomalyIs
<1>l. /\ linked.incident = c.id /\ linked.id = own.id
      /\ linked.device = own.device /\ linked.signal = own.signal
      /\ linked.severity = own.severity /\ linked.created = own.created
      /\ anomalies' = Store(anomalies, linked)
  BY <1>t, UpdateAnomalyIs
<1> HIDE DEF linked
<1>o. own \in anomalies /\ \A q \in Procs \ {p} : Owner(frame[q]) => frame[q].anomaly.id # own.id
  BY <1>f, NoneIsNothing DEF Inv, OwnInv, Owner
<1>c. c \in Known
  BY <1>f, NoneIsNothing DEF Known
<1>k. \A x \in Known' : x \in Known
  BY <1>t, <1>f, KnownMoves DEF Known
<1>s. \A x : x \in anomalies' <=> x = linked \/ (x \in anomalies /\ x.id # own.id)
  BY <1>l, <1>t, StoreIs
<1>1. \A n, d : StoredAs(n, d)' <=> StoredAs(n, d)
  BY <1>t DEF StoredAs
<1>2. ASSUME NEW x \in Known PROVE OfOneSignal(x)' /\ Covers(x)'
  <2>1. OfOneSignal(x) /\ Covers(x)
    BY <1>2 DEF Inv, KnownInv
  <2>2. PICK g \in Signals : \A n \in x.anomalies :
          \E an \in anomalies : an.id = n /\ an.device = x.device /\ an.signal = g
    BY <2>1 DEF OfOneSignal
  <2>3. ASSUME NEW n \in x.anomalies
        PROVE  \E an \in anomalies' : an.id = n /\ an.device = x.device /\ an.signal = g
    <3>1. PICK an \in anomalies : an.id = n /\ an.device = x.device /\ an.signal = g
      BY <2>2, <2>3
    <3>2. CASE n = own.id
      <4>1. an = own
        BY <1>o, <1>t, <3>1, <3>2 DEF Unique
      <4> QED  BY <1>l, <1>s, <3>1, <4>1
    <3>3. CASE n # own.id
      BY <1>s, <3>1, <3>3
    <3> QED  BY <3>2, <3>3
  <2>4. OfOneSignal(x)'
    BY <2>3 DEF OfOneSignal
  <2>5. Covers(x)'
    BY <1>l, <1>o, <1>s, <2>1 DEF Covers
  <2> QED  BY <2>4, <2>5
<1>3. KnownInv'
  BY <1>1, <1>2, <1>k DEF Inv, KnownInv
<1>4. LinkInv'
  <2> SUFFICES ASSUME NEW an \in anomalies', an.incident # None
               PROVE  /\ StoredAs(an.incident, an.device)'
                      /\ \A x \in Known' : an.id \in x.anomalies => x.id = an.incident
    BY DEF LinkInv
  <2>1. CASE an = linked
    <3>1. StoredAs(c.id, c.device)
      BY <1>c DEF Inv, KnownInv
    <3>2. \A x \in Known : own.id \in x.anomalies => x.id = c.id
      BY <1>c, <1>f DEF Inv, KnownInv
    <3> QED  BY <1>1, <1>f, <1>k, <1>l, <2>1, <3>1, <3>2
  <2>2. CASE an \in anomalies
    <3>1. /\ StoredAs(an.incident, an.device)
          /\ \A x \in Known : an.id \in x.anomalies => x.id = an.incident
      BY <2>2 DEF Inv, LinkInv
    <3> QED  BY <1>1, <1>k, <3>1
  <2> QED  BY <1>s, <2>1, <2>2
<1>5. OwnInv'
  <2>1. ASSUME NEW q \in Procs, Owner(frame'[q])
        PROVE  /\ q # p /\ frame'[q] = frame[q] /\ Owner(frame[q])
               /\ frame[q].anomaly \in anomalies'
               /\ frame[q].anomaly.incident = None /\ frame[q].anomaly.created <= now'
    <3>1. q # p /\ frame'[q] = frame[q] /\ Owner(frame[q])
      BY <1>f, <2>1 DEF Owner
    <3>2. /\ frame[q].anomaly \in anomalies /\ frame[q].anomaly.incident = None
          /\ frame[q].anomaly.created <= now
      BY <3>1 DEF Inv, OwnInv
    <3> QED  BY <1>o, <1>s, <1>t, <3>1, <3>2
  <2>2. ASSUME NEW q \in Procs, Searching(frame'[q]), NEW x \in Known'
        PROVE  frame'[q].anomaly.id \notin x.anomalies
    <3>1. q # p /\ frame'[q] = frame[q]
      BY <1>f, <2>2 DEF Searching
    <3> QED  BY <1>k, <2>2, <3>1 DEF Inv, OwnInv
  <2>3. ASSUME NEW q \in Procs, NEW r \in Procs, Owner(frame'[q]), Owner(frame'[r]), q # r
        PROVE  frame'[q].anomaly.id # frame'[r].anomaly.id
    BY <2>1, <2>3 DEF Inv, OwnInv
  <2> QED  BY <2>1, <2>2, <2>3 DEF OwnInv
<1> QED  BY <1>3, <1>4, <1>5
-----------------------------------------------------------------------------
(* A step that leaves incidents alone, and after which its goroutine holds *)
(* no incident and no anomaly that it did not hold before.                 *)
LEMMA NothingNew ==
  ASSUME Inv, anomalies' = anomalies, incidents' = incidents, now' = now,
         NEW p \in Procs, \A q \in Procs \ {p} : frame'[q] = frame[q],
         frame'[p].incident \in {None, frame[p].incident},
         frame'[p].anomaly \in {None, frame[p].anomaly},
         Searching(frame'[p]) => Searching(frame[p])
  PROVE  KnownInv' /\ LinkInv' /\ OwnInv'
<1>1. frame'[p].incident # None => \E y \in Known : Like(frame'[p].incident, y)
  BY DEF Known, Like
<1>2. Owner(frame'[p]) => frame'[p].anomaly = frame[p].anomaly
  BY DEF Owner
<1> QED  BY <1>1, <1>2, QuietMove DEF Known

(* Every step keeps what is claimed of incidents, anomalies and copies.    *)
LEMMA KeepsStep ==
  ASSUME Inv, [Next]_vars
  PROVE  KnownInv' /\ LinkInv' /\ OwnInv'
<1>t. /\ TypeInv /\ frame \in [Procs -> Frame] /\ incidents \in SUBSET Incident
      /\ now \in Nat /\ anomalies \in SUBSET Anomaly
  BY DEF Inv, TypeInv, TypeOK
<1>h. \A p \in Procs : Held(frame[p])
  BY <1>t DEF TypeInv
<1>1. ASSUME NEW p \in Procs, SubmitIncidentEvaluation(p) PROVE KnownInv' /\ LinkInv' /\ OwnInv'
  BY <1>1, NothingNew DEF SubmitIncidentEvaluation
<1>2. ASSUME NEW p \in Procs, ReadIncident(p) PROVE KnownInv' /\ LinkInv' /\ OwnInv'
  <2>1. PICK inc \in incidents, s \in {"open", "closed"} :
          Enter(p, Holding("write", None, <<>>, None, [inc EXCEPT !.status = s]))
    BY <1>2, <1>t DEF ReadIncident, Incident
  <2> DEFINE f == Holding("write", None, <<>>, None, [inc EXCEPT !.status = s])
  <2>2. [inc EXCEPT !.status = s] \in Incident /\ Like([inc EXCEPT !.status = s], inc)
    BY <1>t, <2>1 DEF Incident, Like
  <2>3. f \in Frame /\ f.anomaly = None /\ f.incident = [inc EXCEPT !.status = s]
    BY <2>2 DEF Holding, Frame, Labels
  <2>4. frame'[p] = f /\ \A q \in Procs \ {p} : frame'[q] = frame[q]
    BY <1>t, <2>1, <2>3, Frames
  <2>5. \E y \in Known : Like(frame'[p].incident, y)
    BY <2>1, <2>2, <2>3, <2>4 DEF Known
  <2>6. ~Owner(frame'[p]) /\ ~Searching(frame'[p])
    BY <2>3, <2>4 DEF Owner, Searching
  <2> QED  BY <1>2, <2>4, <2>5, <2>6, QuietMove DEF ReadIncident, Known
<1>3. ASSUME NEW p \in Procs, WriteIncident(p) PROVE KnownInv' /\ LinkInv' /\ OwnInv'
  <2>1. /\ frame[p].incident # None
        /\ incidents' = Store(incidents, frame[p].incident)
        /\ frame'[p].incident = None /\ frame'[p].anomaly = None
        /\ \A q \in Procs \ {p} : frame'[q] = frame[q]
    BY <1>3, <1>t, <1>h, ReturnIs DEF WriteIncident, At, Held
  <2>2. /\ \A x \in incidents' : x \in Known
        /\ \A inc \in incidents : \E x \in incidents' : x.id = inc.id /\ x.device = inc.device
    BY <2>1, StoreCopy
  <2> QED  BY <1>3, <2>1, <2>2, QuietMove DEF WriteIncident, Owner, Searching
<1>4. ASSUME NEW p \in Procs, TakeJob(p) PROVE KnownInv' /\ LinkInv' /\ OwnInv'
  <2>1. /\ frame'[p].incident = None /\ frame'[p].anomaly = None
        /\ \A q \in Procs \ {p} : frame'[q] = frame[q]
    BY <1>4, <1>t DEF TakeJob, Enter, Holding
  <2> QED  BY <1>4, <2>1, NothingNew DEF TakeJob, Searching
<1>5. ASSUME NEW p \in Procs, EvaluateTelemetry(p) PROVE KnownInv' /\ LinkInv' /\ OwnInv'
  <2>1. /\ frame'[p].incident = None /\ frame'[p].anomaly = None
        /\ \A q \in Procs \ {p} : frame'[q] = frame[q]
    BY <1>5, <1>t DEF EvaluateTelemetry, Detect, Return, Idle, Holding, CallNextID, Enter
  <2> QED  BY <1>5, <2>1, NothingNew DEF EvaluateTelemetry, Searching
<1>6. ASSUME NEW p \in Procs, NextIDLoad(p) PROVE KnownInv' /\ LinkInv' /\ OwnInv'
  <2>1. /\ frame'[p].incident = frame[p].incident /\ frame'[p].anomaly = frame[p].anomaly
        /\ \A q \in Procs \ {p} : frame'[q] = frame[q]
    BY <1>6, <1>t DEF NextIDLoad, Enter, Frame
  <2> QED  BY <1>6, <2>1, NothingNew DEF NextIDLoad, Searching
<1>7. ASSUME NEW p \in Procs, NextIDStore(p) PROVE KnownInv' /\ LinkInv' /\ OwnInv'
  <2>1. /\ frame'[p].incident = frame[p].incident /\ frame'[p].anomaly = frame[p].anomaly
        /\ \A q \in Procs \ {p} : frame'[q] = frame[q]
    BY <1>7, <1>t DEF NextIDStore, GoTo, Enter, Frame
  <2> QED  BY <1>7, <2>1, NothingNew DEF NextIDStore, Searching
<1>8. ASSUME NEW p \in Procs, UpdateIncident(p) PROVE KnownInv' /\ LinkInv' /\ OwnInv'
  <2>1. /\ frame[p].incident # None
        /\ incidents' = Store(incidents, frame[p].incident)
        /\ frame'[p].incident = frame[p].incident /\ frame'[p].anomaly = frame[p].anomaly
        /\ \A q \in Procs \ {p} : frame'[q] = frame[q]
    BY <1>8, <1>t, <1>h DEF UpdateIncident, At, Held, GoTo, Enter, Frame
  <2>2. /\ \A x \in incidents' : x \in Known
        /\ \A inc \in incidents : \E x \in incidents' : x.id = inc.id /\ x.device = inc.device
    BY <2>1, StoreCopy
  <2>3. \E y \in Known : Like(frame'[p].incident, y)
    BY <2>1 DEF Known, Like
  <2> QED  BY <1>8, <2>1, <2>2, <2>3, QuietMove DEF UpdateIncident, Searching
<1>9. ASSUME NEW p \in Procs, SubmitEvidenceRollup(p) PROVE KnownInv' /\ LinkInv' /\ OwnInv'
  <2>1. /\ frame'[p].incident = frame[p].incident /\ frame'[p].anomaly = frame[p].anomaly
        /\ \A q \in Procs \ {p} : frame'[q] = frame[q]
    BY <1>9, <1>t DEF SubmitEvidenceRollup, GoTo, Enter, Frame
  <2> QED  BY <1>9, <2>1, NothingNew DEF SubmitEvidenceRollup, Searching
<1>10. ASSUME NEW p \in Procs, RollupGet(p) PROVE KnownInv' /\ LinkInv' /\ OwnInv'
  <2>1. PICK inc \in incidents : Enter(p, Holding("rollup", None, <<>>, None, inc))
    BY <1>10 DEF RollupGet
  <2>2. /\ frame'[p].incident = inc /\ frame'[p].anomaly = None
        /\ \A q \in Procs \ {p} : frame'[q] = frame[q]
    BY <1>t, <2>1 DEF Enter, Holding
  <2>3. \E y \in Known : Like(frame'[p].incident, y)
    BY <2>1, <2>2 DEF Known, Like
  <2> QED  BY <1>10, <2>2, <2>3, QuietMove DEF RollupGet, Known, Owner, Searching
<1>11. ASSUME NEW p \in Procs, RollupLoad(p) PROVE KnownInv' /\ LinkInv' /\ OwnInv'
  <2>1. /\ frame'[p].incident = frame[p].incident /\ frame'[p].anomaly = frame[p].anomaly
        /\ \A q \in Procs \ {p} : frame'[q] = frame[q]
    BY <1>11, <1>t DEF RollupLoad, Enter, Frame
  <2> QED  BY <1>11, <2>1, NothingNew DEF RollupLoad, Searching
<1>12. ASSUME NEW p \in Procs, RollupPut(p) PROVE KnownInv' /\ LinkInv' /\ OwnInv'
  <2>1. \A q \in Procs \ {p} : frame'[q] = frame[q]
    BY <1>12, <1>t DEF RollupPut, Return, Enter
  <2>2. \/ frame'[p].incident = None /\ frame'[p].anomaly = None
        \/ frame'[p].incident = frame[p].incident /\ frame'[p].anomaly = None
    BY <1>12, <1>t DEF RollupPut, Return, Idle, Holding, Enter, Frame
  <2> QED  BY <1>12, <2>1, <2>2, NothingNew DEF RollupPut, Searching
<1>13. ASSUME Tick PROVE KnownInv' /\ LinkInv' /\ OwnInv'
  BY <1>13, <1>t, Quiet DEF Tick, Known, Like, Anomaly
<1>14. ASSUME UNCHANGED vars PROVE KnownInv' /\ LinkInv' /\ OwnInv'
  BY <1>14, <1>t, Quiet DEF vars, Known, Like, Anomaly
<1> QED  BY <1>1, <1>2, <1>3, <1>4, <1>5, <1>6, <1>7, <1>8, <1>9, <1>10, <1>11, <1>12, <1>13,
            <1>14,
            PutAnomalyKeeps, FindOpenIncidentKeeps, PutIncidentKeeps, UpdateAnomalyKeeps
         DEF Next

(* At the start nothing is stored, held or listed.                         *)
LEMMA InvInit == Init => Inv
<1> SUFFICES ASSUME Init PROVE Inv
  OBVIOUS
<1>1. <<>> \in Seq(Severities) /\ <<>> \in Seq(Job) /\ Len(<<>>) = 0 /\ "idle" \in Labels
  BY DEF Labels
<1>2. /\ Idle \in Frame /\ Idle.at = "idle" /\ Idle.anomaly = None /\ Idle.incident = None
      /\ Stage(Idle) = "idle"
  BY <1>1 DEF Idle, Holding, Frame, Stage
<1>3. Held(Idle)
  BY <1>2 DEF Held
<1>4. frame \in [Procs -> Frame] /\ \A p \in Procs : frame[p] = Idle
  BY <1>2 DEF Init
<1>5. TypeInv
  BY <1>1, <1>3, <1>4, EvaluationAssumption DEF Init, TypeInv, TypeOK, Unique
<1>6. Known = {}
  BY <1>2, <1>4 DEF Init, Known
<1>7. KnownInv /\ LinkInv /\ OwnInv
  BY <1>2, <1>4, <1>6 DEF Init, KnownInv, LinkInv, OwnInv, Owner, Searching
<1> QED  BY <1>5, <1>7 DEF Inv

(* The inductive invariant: what is true of stored incidents is true of    *)
(* every copy of one that a goroutine may still write.                     *)
THEOREM Invariant == Spec => []Inv
<1>1. Inv /\ [Next]_vars => Inv'
  <2> SUFFICES ASSUME Inv, [Next]_vars PROVE Inv'
    OBVIOUS
  <2>1. TypeInv'
    BY TypeStep DEF Inv
  <2> QED  BY <2>1, KeepsStep DEF Inv
<1> QED  BY <1>1, InvInit, PTL DEF Spec
-----------------------------------------------------------------------------
(* Every variable keeps its type, ids are unique within a kind, and the    *)
(* queue's channel never holds more than its capacity (queue.go Submit).   *)
THEOREM TypeCorrect == Spec => []TypeOK
<1>1. Inv => TypeOK
  BY DEF Inv, TypeInv
<1> QED  BY <1>1, Invariant, PTL

(* An incident lists stored anomalies of its device and of one signal,     *)
(* though FindOpenIncident (queries.go) compares the signal with any one of*)
(* its anomalies and stale copies overwrite it.                            *)
THEOREM OneSignal == Spec => []IncidentsOfOneSignal
<1>1. Inv => IncidentsOfOneSignal
  BY DEF Inv, KnownInv, Known, IncidentsOfOneSignal
<1> QED  BY <1>1, Invariant, PTL

(* An incident is at least as severe as each of its anomalies, and was     *)
(* opened within Width of them (AddAnomaly and FindOpenIncident).          *)
THEOREM AnomaliesCovered == Spec => []IncidentsCoverAnomalies
<1>1. Inv => IncidentsCoverAnomalies
  BY DEF Inv, KnownInv, Known, IncidentsCoverAnomalies
<1> QED  BY <1>1, Invariant, PTL

(* No anomaly is listed by two incidents (correlateIncident), however      *)
(* evaluations interleave and whatever ids nextID returns.                 *)
THEOREM AnomaliesListedOnce == Spec => []ListedOnce
<1>1. Inv => ListedOnce
  BY DEF Inv, TypeInv, TypeOK, Unique, KnownInv, Known, ListedOnce
<1> QED  BY <1>1, Invariant, PTL

(* The incident that an anomaly is linked to (EvaluateTelemetry) is stored,*)
(* has its device, and is the only one that may list the anomaly.          *)
THEOREM LinksNameTheLister == Spec => []LinksAgree
<1>1. Inv => LinksAgree
  BY DEF Inv, LinkInv, StoredAs, Known, Linked, LinksAgree
<1> QED  BY <1>1, Invariant, PTL
=============================================================================
