--------------------------- MODULE Policies_proofs ---------------------------
(***************************************************************************)
(* Proofs about Policies, for any number of clients, policies, devices,    *)
(* versions and dates: publications and locks overwrite each other, but    *)
(* the version that evaluation uses for a device never falls.              *)
(*                                                                         *)
(* A call may write a copy that is older than the stored policy.  What     *)
(* makes this harmless for the active version is SameForce: the copy and   *)
(* the stored policy have the same effective date, or both are past it.    *)
(***************************************************************************)
EXTENDS Policies, TLAPS

SameForce(x, y) ==
  /\ x.id = y.id /\ x.device = y.device /\ x.version = y.version
  /\ x.from = y.from \/ (x.from <= now /\ y.from <= now)

Held(f) ==
  /\ f.at # "idle" => f.policy \in Policy
  /\ f.at \in {"publish.check", "update"} =>
       policies[f.policy.id] # None /\ SameForce(f.policy, policies[f.policy.id])
  /\ f.at = "update" => f.policy.status \in {"published", "locked"}

Inv == TypeOK /\ \A c \in Clients : Held(frame[c])

(* Publish and Lock (domain/policy.go) return policies that differ from    *)
(* their argument in the status and, when none was given, the date.        *)
LEMMA PolicyMethods ==
  ASSUME NEW policy \in Policy, now \in Nat
  PROVE  /\ Publish(policy) \in Policy /\ SameForce(Publish(policy), policy)
         /\ Publish(policy).status = "published"
         /\ Lock(policy) \in Policy /\ SameForce(Lock(policy), policy)
         /\ Lock(policy).status = "locked"
<1> DEFINE x == [policy EXCEPT !.status = "published"]
<1>1. /\ x \in Policy /\ x.status = "published" /\ x.from = policy.from
      /\ x.id = policy.id /\ x.device = policy.device /\ x.version = policy.version
  BY DEF Policy, PolicyStatus
<1>2. Publish(policy) = [x EXCEPT !.from = IF policy.from = 0 THEN now ELSE policy.from]
  BY <1>1 DEF Publish
<1> HIDE DEF x
<1>3. policy.from \in Nat
  BY DEF Policy
<1>4. Publish(policy) \in Policy /\ SameForce(Publish(policy), policy)
      /\ Publish(policy).status = "published"
  BY <1>1, <1>2, <1>3 DEF Policy, SameForce
<1>5. Lock(policy) \in Policy /\ SameForce(Lock(policy), policy) /\ Lock(policy).status = "locked"
  BY DEF Lock, Policy, PolicyStatus, SameForce
<1> QED  BY <1>4, <1>5

(* A call that goes on holds the copy; one that returns holds nothing.     *)
LEMMA Frames ==
  ASSUME frame \in [Clients -> Frame], NEW c \in Clients
  PROVE  /\ \A l \in Labels, x \in Policy : Hold(c, l, x) =>
                   /\ frame' \in [Clients -> Frame] /\ frame'[c].at = l /\ frame'[c].policy = x
                   /\ \A b \in Clients \ {c} : frame'[b] = frame[b]
         /\ Return(c) => /\ frame' \in [Clients -> Frame] /\ frame'[c].at = "idle"
                         /\ \A b \in Clients \ {c} : frame'[b] = frame[b]
  BY DEF Hold, Return, Idle, Frame, Labels

(* SameForce is an equivalence and lasts as time passes.                   *)
LEMMA SameForceIs ==
  ASSUME now \in Nat, NEW x \in Policy, NEW y \in Policy, NEW z \in Policy
  PROVE  /\ SameForce(x, x)
         /\ SameForce(x, y) => SameForce(y, x)
         /\ SameForce(x, y) /\ SameForce(y, z) => SameForce(x, z)
         /\ SameForce(x, y) /\ now' \in Nat /\ now' >= now => SameForce(x, y)'
  BY DEF SameForce, Policy

(* UpdatePolicy (store/memory.go) always stores the copy: no call changes  *)
(* the version that its check compares.                                    *)
LEMMA StorePolicy ==
  ASSUME Inv, NEW c \in Clients, UpdatePolicy(c)
  PROVE  LET x == frame[c].policy IN
         /\ x \in Policy /\ x.id \in PolicyIDs /\ x # None
         /\ policies[x.id] # None /\ SameForce(x, policies[x.id])
         /\ x.status \in {"published", "locked"}
         /\ policies' \in [PolicyIDs -> Policy \cup {None}]
         /\ \A p \in PolicyIDs : policies'[p] = IF p = x.id THEN x ELSE policies[p]
<1> DEFINE x == frame[c].policy
<1>1. /\ x \in Policy /\ policies[x.id] # None /\ SameForce(x, policies[x.id])
      /\ x.status \in {"published", "locked"}
  BY DEF Inv, Held, UpdatePolicy, At
<1>2. x.id \in PolicyIDs /\ x # None /\ x.version = policies[x.id].version
  BY <1>1, PoliciesAssumption DEF Policy, PoliciesAssumption, SameForce
<1>3. policies' = [policies EXCEPT ![x.id] = x]
  BY <1>2 DEF UpdatePolicy
<1>4. policies \in [PolicyIDs -> Policy \cup {None}]
  BY DEF Inv, TypeOK
<1> HIDE DEF x
<1>5. /\ policies' \in [PolicyIDs -> Policy \cup {None}]
      /\ \A p \in PolicyIDs : policies'[p] = IF p = x.id THEN x ELSE policies[p]
  BY <1>1, <1>2, <1>3, <1>4
<1> QED  BY <1>1, <1>2, <1>5 DEF x

(* There are neither policies nor calls in the initial state.              *)
LEMMA InvInit == Init => Inv
  BY DEF Init, Inv, TypeOK, Held, Idle, Frame, Labels

(* Every step keeps the types, and every copy of a stored policy in the    *)
(* same force as the stored one.                                           *)
LEMMA InvNext == Inv /\ [Next]_vars => Inv'
<1> SUFFICES ASSUME Inv, [Next]_vars PROVE Inv'
  OBVIOUS
<1>a. /\ frame \in [Clients -> Frame] /\ calls \in Nat /\ now \in Nat
      /\ None \notin Policy /\ Devices \ retired \subseteq Devices
      /\ \A c \in Clients : Held(frame[c])
      /\ \A p \in PolicyIDs : policies[p] # None => policies[p] \in Policy /\ policies[p].id = p
  BY PoliciesAssumption DEF PoliciesAssumption, Inv, TypeOK
(* Copies in frames that do not change, while no stored policy changes.    *)
<1>b. ASSUME NEW b \in Clients, frame'[b] = frame[b], now' \in Nat, now' >= now,
             \A p \in PolicyIDs : policies[p] # None => policies'[p] = policies[p]
      PROVE  Held(frame[b])'
  <2>1. CASE frame[b].at \in {"publish.check", "update"}
    <3> DEFINE x == frame[b].policy
    <3>1. /\ x \in Policy /\ x.id \in PolicyIDs /\ policies[x.id] # None
          /\ SameForce(x, policies[x.id]) /\ policies[x.id] \in Policy
      BY <1>a, <2>1 DEF Held, Policy
    <3> HIDE DEF x
    <3>2. /\ policies'[x.id] = policies[x.id]
          /\ x.id = policies[x.id].id /\ x.device = policies[x.id].device
          /\ x.version = policies[x.id].version
          /\ x.from = policies[x.id].from \/ (x.from <= now' /\ policies[x.id].from <= now')
      BY <1>a, <1>b, <3>1 DEF SameForce, Policy
    <3>3. frame'[b] = frame[b] /\ Held(frame[b])
      BY <1>a, <1>b
    <3> QED  BY <3>1, <3>2, <3>3 DEF Held, SameForce, x
  <2>2. CASE frame[b].at \notin {"publish.check", "update"}
    BY <1>a, <1>b, <2>2 DEF Held
  <2> QED  BY <2>1, <2>2
<1>1. CASE UNCHANGED vars
  BY <1>1, <1>a, <1>b DEF vars, Inv, TypeOK
(* A call that goes on with a copy and writes nothing.                     *)
<1>2. ASSUME NEW c \in Clients, NEW l \in Labels \ {"idle"}, NEW x \in Policy, Hold(c, l, x),
             UNCHANGED <<policies, retired, now>>, calls' \in Nat,
             l \in {"publish.check", "update"} =>
               policies[x.id] # None /\ SameForce(x, policies[x.id]),
             l = "update" => x.status \in {"published", "locked"}
      PROVE  Inv'
  <2>1. /\ frame' \in [Clients -> Frame] /\ frame'[c].at = l /\ frame'[c].policy = x
        /\ \A b \in Clients \ {c} : frame'[b] = frame[b]
    BY <1>a, <1>2, Frames
  <2>2. Held(frame[c])'
    BY <1>2, <2>1 DEF Held, SameForce
  <2>3. \A b \in Clients : Held(frame[b])'
    BY <1>a, <1>b, <1>2, <2>1, <2>2
  <2> QED  BY <1>2, <2>1, <2>3 DEF Inv, TypeOK
(* A call that returns without writing.                                    *)
<1>3. ASSUME NEW c \in Clients, Return(c), UNCHANGED <<policies, retired, now, calls>>
      PROVE  Inv'
  <2>1. /\ frame' \in [Clients -> Frame] /\ frame'[c].at = "idle"
        /\ \A b \in Clients \ {c} : frame'[b] = frame[b]
    BY <1>a, <1>3, Frames
  <2>2. \A b \in Clients : Held(frame[b])'
    BY <1>a, <1>b, <1>3, <2>1 DEF Held
  <2> QED  BY <1>3, <2>1, <2>2 DEF Inv, TypeOK
<1>4. ASSUME NEW c \in Clients, CreatePolicyGet(c)
      PROVE  Inv'
  <2>1. PICK p \in PolicyIDs, d \in Devices \ retired, v \in Versions, t \in Dates :
          ValidVersion(v) /\ Hold(c, "create.put", NewPolicy(p, d, v, t))
    BY <1>4 DEF CreatePolicyGet
  <2>2. v \in Nat \ {0} /\ t \in Nat
    BY <2>1, PoliciesAssumption DEF ValidVersion, PoliciesAssumption
  <2>3. NewPolicy(p, d, v, t) \in Policy
    BY <2>2 DEF NewPolicy, Policy, PolicyStatus
  <2>4. UNCHANGED <<policies, retired, now>> /\ calls' \in Nat
    BY <1>a, <1>4 DEF CreatePolicyGet, Begin
  <2> QED  BY <1>2, <2>1, <2>3, <2>4 DEF Labels
<1>5. ASSUME NEW c \in Clients, CreatePolicyPut(c)
      PROVE  Inv'
  <2> DEFINE x == frame[c].policy
  <2>1. x \in Policy /\ x.id \in PolicyIDs
    BY <1>a, <1>5 DEF CreatePolicyPut, At, Held, Policy
  <2>2. /\ policies' = IF policies[x.id] # None THEN policies ELSE [policies EXCEPT ![x.id] = x]
        /\ UNCHANGED <<retired, now, calls>> /\ Return(c)
    BY <1>5 DEF CreatePolicyPut
  <2> HIDE DEF x
  <2>3. /\ policies' \in [PolicyIDs -> Policy \cup {None}]
        /\ \A p \in PolicyIDs : policies[p] # None => policies'[p] = policies[p]
        /\ \A p \in PolicyIDs : policies'[p] # None => policies'[p].id = p
    BY <1>a, <2>1, <2>2 DEF Inv, TypeOK
  <2>4. /\ frame' \in [Clients -> Frame] /\ frame'[c].at = "idle"
        /\ \A b \in Clients \ {c} : frame'[b] = frame[b]
    BY <1>a, <2>2, Frames
  <2>5. \A b \in Clients : Held(frame[b])'
    BY <1>a, <1>b, <2>2, <2>3, <2>4 DEF Held
  <2> QED  BY <2>2, <2>3, <2>4, <2>5 DEF Inv, TypeOK
<1>6. ASSUME NEW c \in Clients, PublishPolicyGet(c)
      PROVE  Inv'
  <2>1. PICK p \in PolicyIDs : policies[p] # None /\ Hold(c, "publish.check", policies[p])
    BY <1>6 DEF PublishPolicyGet
  <2>2. policies[p] \in Policy /\ policies[p].id = p /\ SameForce(policies[p], policies[p])
    BY <1>a, <2>1 DEF SameForce
  <2>3. UNCHANGED <<policies, retired, now>> /\ calls' \in Nat
    BY <1>a, <1>6 DEF PublishPolicyGet, Begin
  <2> QED  BY <1>2, <2>1, <2>2, <2>3 DEF Labels
<1>7. ASSUME NEW c \in Clients, PublishPolicyCheck(c)
      PROVE  Inv'
  <2> DEFINE x == frame[c].policy
  <2>1. /\ x \in Policy /\ x.id \in PolicyIDs /\ policies[x.id] \in Policy /\ policies[x.id] # None
        /\ SameForce(x, policies[x.id])
    BY <1>a, <1>7 DEF PublishPolicyCheck, At, Held, Policy
  <2>2. /\ UNCHANGED <<policies, retired, now, calls>>
        /\ Return(c) \/ Hold(c, "update", Publish(x))
    BY <1>7 DEF PublishPolicyCheck
  <2> HIDE DEF x
  <2>3. /\ Publish(x) \in Policy /\ SameForce(Publish(x), x) /\ Publish(x).id = x.id
        /\ Publish(x).status = "published"
    BY <1>a, <2>1, PolicyMethods DEF SameForce
  <2>4. SameForce(Publish(x), policies[x.id])
    BY <1>a, <2>1, <2>3, SameForceIs
  <2> QED  BY <1>a, <1>2, <1>3, <2>1, <2>2, <2>3, <2>4 DEF Labels
<1>8. ASSUME NEW c \in Clients, LockPolicyGet(c)
      PROVE  Inv'
  <2>1. PICK p \in PolicyIDs : policies[p] # None /\ Hold(c, "update", Lock(policies[p]))
    BY <1>8 DEF LockPolicyGet
  <2>2. policies[p] \in Policy /\ policies[p].id = p
    BY <1>a, <2>1
  <2>3. /\ Lock(policies[p]) \in Policy /\ SameForce(Lock(policies[p]), policies[p])
        /\ Lock(policies[p]).id = p /\ Lock(policies[p]).status = "locked"
    BY <1>a, <2>2, PolicyMethods DEF SameForce
  <2>4. UNCHANGED <<policies, retired, now>> /\ calls' \in Nat
    BY <1>a, <1>8 DEF LockPolicyGet, Begin
  <2> QED  BY <1>2, <2>1, <2>3, <2>4 DEF Labels
<1>9. ASSUME NEW c \in Clients, UpdatePolicy(c)
      PROVE  Inv'
  <2> DEFINE x == frame[c].policy
  <2>1. /\ x \in Policy /\ x.id \in PolicyIDs /\ x # None
        /\ policies[x.id] # None /\ SameForce(x, policies[x.id])
        /\ policies' \in [PolicyIDs -> Policy \cup {None}]
        /\ \A p \in PolicyIDs : policies'[p] = IF p = x.id THEN x ELSE policies[p]
    BY <1>9, StorePolicy
  <2>2. UNCHANGED <<retired, now, calls>> /\ Return(c)
    BY <1>9 DEF UpdatePolicy
  <2> HIDE DEF x
  <2>3. /\ frame' \in [Clients -> Frame] /\ frame'[c].at = "idle"
        /\ \A b \in Clients \ {c} : frame'[b] = frame[b]
    BY <1>a, <2>2, Frames
  <2>4. ASSUME NEW b \in Clients \ {c}
        PROVE  Held(frame[b])'
    <3>1. frame'[b] = frame[b] /\ Held(frame[b])
      BY <1>a, <2>3
    <3>2. CASE frame[b].at \in {"publish.check", "update"}
      <4> DEFINE y == frame[b].policy
      <4>1. /\ y \in Policy /\ y.id \in PolicyIDs /\ policies[y.id] # None
            /\ policies[y.id] \in Policy /\ SameForce(y, policies[y.id])
        BY <1>a, <3>1, <3>2 DEF Held, Policy
      <4> HIDE DEF y
      <4>2. policies'[y.id] # None /\ SameForce(y, policies'[y.id])
        BY <1>a, <2>1, <4>1, SameForceIs
      <4>3. SameForce(y, policies[y.id])'
             <=> SameForce(y, policies'[y.id])
        BY <2>2, <3>1 DEF SameForce, y
      <4> QED  BY <3>1, <4>2, <2>2 DEF Held, SameForce, y
    <3>3. CASE frame[b].at \notin {"publish.check", "update"}
      BY <3>1, <3>3 DEF Held
    <3> QED  BY <3>2, <3>3
  <2>5. Held(frame[c])'
    BY <2>3 DEF Held
  <2>6. \A p \in PolicyIDs : policies'[p] # None => policies'[p].id = p
    BY <1>a, <2>1
  <2> QED  BY <2>1, <2>2, <2>3, <2>4, <2>5, <2>6 DEF Inv, TypeOK
<1>10. CASE RetireDevice
  BY <1>10, <1>a, <1>b DEF RetireDevice, Inv, TypeOK
<1>11. CASE Tick
  <2>1. now' \in Nat /\ now' >= now /\ UNCHANGED <<policies, retired, frame, calls>>
    BY <1>a, <1>11 DEF Tick
  <2>2. \A b \in Clients : Held(frame[b])'
    BY <1>b, <2>1
  <2> QED  BY <2>1, <2>2 DEF Inv, TypeOK
<1> QED  BY <1>1, <1>4, <1>5, <1>6, <1>7, <1>8, <1>9, <1>10, <1>11 DEF Next

(* In every reachable state each copy that will be written is in the same  *)
(* force as the stored policy it will overwrite.                           *)
THEOREM Invariant == Spec => []Inv
<1> QED  BY InvInit, InvNext, PTL DEF Spec

(* The policies and the calls under way keep their types                   *)
(* (store/memory.go).                                                      *)
THEOREM TypeCorrect == Spec => []TypeOK
<1>1. Inv => TypeOK
  BY DEF Inv
<1> QED  BY <1>1, Invariant, PTL

(* The version that evaluation uses for a device (store/memory.go          *)
(* ActivePolicy) never falls, whatever publications and locks overlap.     *)
THEOREM ActiveVersionNeverFalls == Spec => ActiveVersionGrows
<1> DEFINE Grows == \A d \in Devices : \A old \in Active(d) :
                      \E new \in Active(d)' : new.version >= old.version
<1>1. ASSUME Inv, Inv', [Next]_vars
      PROVE  Grows
  <2>a. /\ now \in Nat /\ now' \in Nat /\ None \notin Policy
        /\ \A p \in PolicyIDs : policies[p] # None => policies[p] \in Policy
        /\ \A p \in PolicyIDs : policies'[p] # None => policies'[p] \in Policy
    BY <1>1, PoliciesAssumption DEF Inv, TypeOK, PoliciesAssumption
  <2>1. now' >= now
    BY <1>1, <2>a DEF Next, vars, CreatePolicyGet, CreatePolicyPut, PublishPolicyGet,
         PublishPolicyCheck, LockPolicyGet, UpdatePolicy, RetireDevice, Tick
  (* Each policy that is active stays so. *)
  <2>2. ASSUME NEW p \in PolicyIDs, policies[p] # None, ActiveAt(policies[p], now)
        PROVE  /\ policies'[p] # None /\ ActiveAt(policies'[p], now')
               /\ policies'[p].device = policies[p].device
               /\ policies'[p].version = policies[p].version
    <3>1. CASE policies'[p] = policies[p]
      BY <2>a, <2>1, <2>2, <3>1 DEF ActiveAt, Policy
    <3>2. ASSUME NEW c \in Clients, UpdatePolicy(c), policies'[p] # policies[p]
          PROVE  /\ policies'[p] # None /\ ActiveAt(policies'[p], now')
                 /\ policies'[p].device = policies[p].device
                 /\ policies'[p].version = policies[p].version
      <4> DEFINE x == frame[c].policy
      <4>1. /\ x \in Policy /\ x # None /\ x.status \in {"published", "locked"}
            /\ policies'[p] = x /\ SameForce(x, policies[p])
        BY <1>1, <3>2, StorePolicy
      <4> HIDE DEF x
      <4> QED  BY <2>a, <2>1, <2>2, <4>1 DEF SameForce, ActiveAt, Policy
    <3>3. ASSUME NEW c \in Clients, CreatePolicyPut(c)
          PROVE  policies'[p] = policies[p]
      BY <1>1, <2>2, <3>3 DEF CreatePolicyPut, Inv, TypeOK
    <3>4. CASE UNCHANGED policies
      BY <3>1, <3>4
    <3> QED  BY <1>1, <3>1, <3>2, <3>3, <3>4 DEF Next, vars, CreatePolicyGet, PublishPolicyGet,
               PublishPolicyCheck, LockPolicyGet, RetireDevice, Tick
  <2>3. ASSUME NEW d \in Devices, NEW old \in Active(d)
        PROVE  \E new \in Active(d)' : new.version >= old.version
    <3>1. PICK p \in PolicyIDs : /\ policies[p] # None /\ policies[p].device = d
                                 /\ ActiveAt(policies[p], now) /\ old = policies[p]
      BY <2>3 DEF Active
    <3>2. policies'[p] \in Active(d)'
      BY <2>2, <3>1 DEF Active, ActiveAt
    <3>3. policies'[p].version >= old.version
      BY <2>a, <2>2, <3>1 DEF Policy
    <3> QED  BY <3>2, <3>3
  <2> QED  BY <2>3
<1>2. Inv /\ Inv' /\ [Next]_vars => [Grows]_vars
  BY <1>1
<1> QED  BY <1>2, Invariant, PTL DEF Spec, ActiveVersionGrows
(* Once a policy is locked and no call is about to write another copy of   *)
(* it, it keeps its lock and its date (service/policies.go, domain/        *)
(* policy.go): only a publication or a lock that read it before undoes the *)
(* lock.                                                                   *)
THEOREM LockedPoliciesStay == Spec => LockedStays
<1> DEFINE Stays(p) == LockedForGood(p)' /\ policies'[p] = policies[p]
<1>1. ASSUME Inv, [Next]_vars, NEW p \in PolicyIDs, LockedForGood(p)
      PROVE  Stays(p)
  <2> DEFINE Writes == {"publish.check", "update"}
  <2>a. /\ frame \in [Clients -> Frame] /\ policies[p] # None /\ policies[p].status = "locked"
        /\ \A c \in Clients : frame[c].at \in Writes /\ frame[c].policy.id = p =>
             frame[c].policy = policies[p]
        /\ \A q \in PolicyIDs : policies[q] # None => policies[q] \in Policy /\ policies[q].id = q
        /\ \A c \in Clients : frame[c].at \in Writes => frame[c].policy \in Policy
        /\ now \in Nat
    BY <1>1 DEF Inv, TypeOK, Held, LockedForGood
  (* A step that keeps the policy and makes no other copy of it. *)
  <2>b. ASSUME NEW c \in Clients, policies'[p] = policies[p],
               frame'[c].at \in Writes /\ frame'[c].policy.id = p =>
                 frame'[c].policy = policies[p],
               \A b \in Clients \ {c} : frame'[b] = frame[b]
        PROVE  Stays(p)
    BY <1>1, <2>b DEF LockedForGood
  <2>1. ASSUME UNCHANGED <<policies, frame>>
        PROVE  Stays(p)
    BY <1>1, <2>1 DEF LockedForGood
  <2>2. ASSUME NEW c \in Clients, CreatePolicyGet(c)
        PROVE  Stays(p)
    <3>1. UNCHANGED policies
      BY <2>2 DEF CreatePolicyGet
    <3>2. frame'[c].at = "create.put" /\ \A b \in Clients \ {c} : frame'[b] = frame[b]
      BY <2>a, <2>2 DEF CreatePolicyGet, Hold
    <3> QED  BY <2>b, <3>1, <3>2
  <2>3. ASSUME NEW c \in Clients, CreatePolicyPut(c)
        PROVE  Stays(p)
    <3>1. policies'[p] = policies[p]
      BY <1>1, <2>a, <2>3 DEF CreatePolicyPut, Inv, TypeOK
    <3>2. frame'[c].at = "idle" /\ \A b \in Clients \ {c} : frame'[b] = frame[b]
      BY <2>a, <2>3, Frames DEF CreatePolicyPut
    <3> QED  BY <2>b, <3>1, <3>2
  <2>4. ASSUME NEW c \in Clients, PublishPolicyGet(c)
        PROVE  Stays(p)
    <3>1. PICK q \in PolicyIDs : policies[q] # None /\ Hold(c, "publish.check", policies[q])
      BY <2>4 DEF PublishPolicyGet
    <3>2. policies[q].id = q /\ policies[q] \in Policy
      BY <2>a, <3>1
    <3>3. /\ frame'[c].policy = policies[q]
          /\ \A b \in Clients \ {c} : frame'[b] = frame[b]
      BY <2>a, <3>1, <3>2, Frames DEF Labels
    <3>4. UNCHANGED policies
      BY <2>4 DEF PublishPolicyGet
    <3> QED  BY <2>b, <3>2, <3>3, <3>4
  <2>5. ASSUME NEW c \in Clients, PublishPolicyCheck(c)
        PROVE  Stays(p)
    <3> DEFINE x == frame[c].policy
    <3>1. /\ x \in Policy /\ x.id = p => x = policies[p]
          /\ UNCHANGED policies
          /\ Return(c) \/ (Publishable(x) /\ Hold(c, "update", Publish(x)))
      BY <2>a, <2>5 DEF PublishPolicyCheck, At
    <3>2. x \in Policy
      BY <2>a, <2>5 DEF PublishPolicyCheck, At
    <3> HIDE DEF x
    <3>3. CASE Return(c)
      <4>1. frame'[c].at = "idle" /\ \A b \in Clients \ {c} : frame'[b] = frame[b]
        BY <2>a, <3>3, Frames
      <4> QED  BY <2>b, <3>1, <4>1
    <3>4. CASE Publishable(x) /\ Hold(c, "update", Publish(x))
      <4>1. x.id # p
        BY <2>a, <3>1, <3>2, <3>4 DEF Publishable
      <4>2. Publish(x) \in Policy /\ Publish(x).id # p
        BY <2>a, <3>2, <4>1, PolicyMethods DEF SameForce
      <4>3. frame'[c].policy = Publish(x) /\ \A b \in Clients \ {c} : frame'[b] = frame[b]
        BY <2>a, <3>4, <4>2, Frames DEF Labels
      <4> QED  BY <2>b, <3>1, <4>2, <4>3
    <3> QED  BY <3>1, <3>3, <3>4
  <2>6. ASSUME NEW c \in Clients, LockPolicyGet(c)
        PROVE  Stays(p)
    <3>1. PICK q \in PolicyIDs : /\ policies[q] # None /\ Lockable(policies[q])
                                 /\ Hold(c, "update", Lock(policies[q]))
      BY <2>6 DEF LockPolicyGet
    <3>2. policies[q] \in Policy /\ policies[q].id = q /\ q # p
      BY <2>a, <3>1 DEF Lockable
    <3>3. Lock(policies[q]) \in Policy /\ Lock(policies[q]).id # p
      BY <2>a, <3>2, PolicyMethods DEF SameForce
    <3>4. frame'[c].policy = Lock(policies[q]) /\ \A b \in Clients \ {c} : frame'[b] = frame[b]
      BY <2>a, <3>1, <3>3, Frames DEF Labels
    <3>5. UNCHANGED policies
      BY <2>6 DEF LockPolicyGet
    <3> QED  BY <2>b, <3>3, <3>4, <3>5
  <2>7. ASSUME NEW c \in Clients, UpdatePolicy(c)
        PROVE  Stays(p)
    <3> DEFINE x == frame[c].policy
    <3>1. \A q \in PolicyIDs : policies'[q] = IF q = x.id THEN x ELSE policies[q]
      BY <1>1, <2>7, StorePolicy
    <3>2. x.id = p => x = policies[p]
      BY <2>a, <2>7 DEF UpdatePolicy, At
    <3>3. frame'[c].at = "idle" /\ \A b \in Clients \ {c} : frame'[b] = frame[b]
      BY <2>a, <2>7, Frames DEF UpdatePolicy
    <3> HIDE DEF x
    <3>4. policies'[p] = policies[p]
      BY <3>1, <3>2
    <3> QED  BY <2>b, <3>3, <3>4
  <2> HIDE DEF Stays
  <2> QED  BY <1>1, <2>1, <2>2, <2>3, <2>4, <2>5, <2>6, <2>7 DEF Next, vars, RetireDevice, Tick
<1>2. Inv /\ [Next]_vars =>
        [\A p \in PolicyIDs : LockedForGood(p) =>
            LockedForGood(p)' /\ policies'[p] = policies[p]]_vars
  BY <1>1
<1> QED  BY <1>2, Invariant, PTL DEF Spec, LockedStays
=============================================================================
