------------------------------ MODULE Policies ------------------------------
(***************************************************************************)
(* Collection policies (internal/service/policies.go, domain/policy.go)    *)
(* over the repository (internal/store/memory.go).  A policy is created as *)
(* a draft, published and locked; evaluation uses the active policy of the *)
(* device, the one with the highest version among those in force.  Each    *)
(* repository method is one step, and the clock is read in the step that   *)
(* uses it.  A call that the code refuses at its first repository method   *)
(* is not a step.  The clock only advances here: what is said of policies  *)
(* in force assumes that nobody sets the wall clock back.                  *)
(***************************************************************************)
EXTENDS Integers

CONSTANTS
  Clients,    \* goroutines that serve HTTP requests
  PolicyIDs,  \* policy ids that callers send
  Devices,    \* registered devices
  Versions,   \* versions that callers send
  Dates,      \* effective dates that callers send, 0 for none
  MaxTime,    \* bound: the clock stops there
  MaxCalls,   \* bound: number of calls in a behaviour
  None        \* no record, no copy

(* Time 0 stands for Go's zero time: no effective date was given.  Nothing *)
(* calls Retire or sets EffectiveUntil, so a policy has neither.           *)
PolicyStatus == {"draft", "published", "locked"}

Policy == [id: PolicyIDs, device: Devices, version: Nat \ {0}, status: PolicyStatus, from: Nat]

ASSUME PoliciesAssumption ==
  /\ Versions \subseteq Int /\ Dates \subseteq Nat
  /\ MaxTime \in Nat /\ MaxCalls \in Nat
  /\ None \notin Policy

VARIABLES
  policies,  \* policy records by id, None when there is none
  retired,   \* devices whose record is retired
  now,       \* the clock
  frame,     \* per goroutine: where it is and the copy it holds
  calls      \* number of calls begun

vars == <<policies, retired, now, frame, calls>>
-----------------------------------------------------------------------------
(***************************************************************************)
(* The domain methods.                                                     *)
(***************************************************************************)
FaultValidVersion(v) == v >= 0

ValidVersion(v) == v >= 1

NewPolicy(p, d, v, t) ==
  [id |-> p, device |-> d, version |-> v, status |-> "draft", from |-> t]

FaultPublish(policy) ==
  [policy EXCEPT !.status = "published", !.from = IF @ = 0 THEN now + 1 ELSE @]

(* A policy without an effective date is in force from its publication.    *)
Publish(policy) ==
  [policy EXCEPT !.status = "published", !.from = IF @ = 0 THEN now ELSE @]

Lockable(policy) == policy.status = "published"

Lock(policy) == [policy EXCEPT !.status = "locked"]

ActiveAt(policy, t) == policy.status \in {"published", "locked"} /\ policy.from <= t

Active(d) ==
  {policies[p] : p \in {q \in PolicyIDs :
     policies[q] # None /\ policies[q].device = d /\ ActiveAt(policies[q], now)}}

(* The highest active version is not below the version to be published.    *)
Superseded(policy) == \E q \in Active(policy.device) : q.version >= policy.version

FaultPublishable(policy) == policy.status # "published"

Publishable(policy) == policy.status = "draft"
-----------------------------------------------------------------------------
Labels == {"idle", "create.put", "publish.check", "update"}
Frame  == [at: Labels, policy: Policy \cup {None}]
Idle   == [at |-> "idle", policy |-> None]

At(c, label) == frame[c].at = label
Return(c)    == frame' = [frame EXCEPT ![c] = Idle]

Hold(c, label, policy) ==
  frame' = [frame EXCEPT ![c] = [at |-> label, policy |-> policy]]

Begin(c) ==
  /\ At(c, "idle")
  /\ calls < MaxCalls
  /\ calls' = calls + 1

CreatePolicyGet(c) ==
  /\ Begin(c)
  /\ \E p \in PolicyIDs, d \in Devices \ retired, v \in Versions, t \in Dates :
       /\ ValidVersion(v)
       /\ Hold(c, "create.put", NewPolicy(p, d, v, t))
  /\ UNCHANGED <<policies, retired, now>>

CreatePolicyPut(c) ==
  LET policy == frame[c].policy IN
  /\ At(c, "create.put")
  /\ policies' = IF policies[policy.id] # None THEN policies
                 ELSE [policies EXCEPT ![policy.id] = policy]
  /\ Return(c)
  /\ UNCHANGED <<retired, now, calls>>

PublishPolicyGet(c) ==
  /\ Begin(c)
  /\ \E p \in PolicyIDs :
       /\ policies[p] # None
       /\ Hold(c, "publish.check", policies[p])
  /\ UNCHANGED <<policies, retired, now>>

PublishPolicyCheck(c) ==
  LET policy == frame[c].policy IN
  /\ At(c, "publish.check")
  /\ IF ~Superseded(policy) /\ Publishable(policy)
     THEN Hold(c, "update", Publish(policy))
     ELSE Return(c)
  /\ UNCHANGED <<policies, retired, now, calls>>

LockPolicyGet(c) ==
  /\ Begin(c)
  /\ \E p \in PolicyIDs :
       /\ policies[p] # None
       /\ Lockable(policies[p])
       /\ Hold(c, "update", Lock(policies[p]))
  /\ UNCHANGED <<policies, retired, now>>

(* Publishing and locking expect the version that the copy has: the check  *)
(* compares it with the stored version, which no call changes.             *)
UpdatePolicy(c) ==
  LET policy == frame[c].policy IN
  /\ At(c, "update")
  /\ policies' = IF policy.version > 0 /\ policies[policy.id].version # policy.version
                 THEN policies
                 ELSE [policies EXCEPT ![policy.id] = policy]
  /\ Return(c)
  /\ UNCHANGED <<retired, now, calls>>

(* The registry stores a device as retired.                                *)
RetireDevice ==
  /\ \E d \in Devices \ retired : retired' = retired \cup {d}
  /\ UNCHANGED <<policies, now, frame, calls>>

Tick ==
  /\ now < MaxTime
  /\ now' = now + 1
  /\ UNCHANGED <<policies, retired, frame, calls>>
-----------------------------------------------------------------------------
Init ==
  /\ policies = [p \in PolicyIDs |-> None]
  /\ retired = {}
  /\ now = 1
  /\ frame = [c \in Clients |-> Idle]
  /\ calls = 0

Next ==
  \/ \E c \in Clients :
       \/ CreatePolicyGet(c)
       \/ CreatePolicyPut(c)
       \/ PublishPolicyGet(c)
       \/ PublishPolicyCheck(c)
       \/ LockPolicyGet(c)
       \/ UpdatePolicy(c)
  \/ RetireDevice
  \/ Tick

Spec == Init /\ [][Next]_vars
-----------------------------------------------------------------------------
(***************************************************************************)
(* Properties                                                              *)
(***************************************************************************)
(* Every variable keeps its type and policies are stored under their id.   *)
TypeOK ==
  /\ policies \in [PolicyIDs -> Policy \cup {None}]
  /\ \A p \in PolicyIDs : policies[p] # None => policies[p].id = p
  /\ retired \subseteq Devices
  /\ now \in Nat
  /\ frame \in [Clients -> Frame]
  /\ calls \in Nat

(* The version that evaluation uses for a device never falls, and a device *)
(* that has an active policy never loses it, although publishing and       *)
(* locking overwrite each other's result and two publications may both     *)
(* pass the check.                                                         *)
ActiveVersionGrows ==
  [][\A d \in Devices : \A old \in Active(d) :
       \E new \in Active(d)' : new.version >= old.version]_vars

(* A locked policy that no publication or lock is about to overwrite with  *)
(* another copy keeps its lock and its date: only a call that read it      *)
(* before it was locked takes the lock from it.                            *)
LockedForGood(p) ==
  /\ policies[p] # None /\ policies[p].status = "locked"
  /\ \A c \in Clients :
       frame[c].at \in {"publish.check", "update"} /\ frame[c].policy.id = p =>
         frame[c].policy = policies[p]

LockedStays ==
  [][\A p \in PolicyIDs :
       LockedForGood(p) => LockedForGood(p)' /\ policies'[p] = policies[p]]_vars
=============================================================================
