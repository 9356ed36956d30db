-------------------------- MODULE DeviceLifecycle --------------------------
(***************************************************************************)
(* What a device registry with version checks promises for a device: its   *)
(* record changes in one indivisible step at a time, each computed from    *)
(* the record that is stored, each counted by the version; a retired       *)
(* device never changes again.                                             *)
(***************************************************************************)
EXTENDS Integers

CONSTANT Devices

VARIABLE device  \* status and version of each device

Lifecycle ==
  {<<"pending", "ready">>, <<"ready", "degraded">>, <<"degraded", "ready">>,
   <<"pending", "retired">>, <<"ready", "retired">>, <<"degraded", "retired">>}

Init == device = [d \in Devices |-> [status |-> "ready", version |-> 2]]

Write(d, s) ==
  device' = [device EXCEPT ![d] = [status |-> s, version |-> device[d].version + 1]]

Transition(d) == \E step \in Lifecycle : step[1] = device[d].status /\ Write(d, step[2])

Touch(d) == device[d].status # "retired" /\ Write(d, device[d].status)

Next == \E d \in Devices : Transition(d) \/ Touch(d)

Spec == Init /\ [][Next]_device
=============================================================================
