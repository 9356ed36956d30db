--------------------------- MODULE DeviceRegistry ---------------------------
(***************************************************************************)
(* Devices and telemetry streams (internal/service/devices.go, streams.go) *)
(* over the repository (internal/store/memory.go), whose updates compare   *)
(* the stored version with the one that the caller expects.  Each          *)
(* repository method is one step; a call that reads and then writes holds  *)
(* its copy in a frame while other calls run.  A call that the code        *)
(* refuses at its first repository method is not a step.                   *)
(***************************************************************************)
EXTENDS Integers

CONSTANTS
  Clients,    \* goroutines that serve HTTP requests
  DeviceIDs,  \* device ids that callers send
  StreamIDs,  \* stream ids that callers send
  Seeded,     \* devices that the process registers when it starts
  MaxCalls,   \* bound: number of calls in a behaviour
  None        \* no record, no copy

DeviceStatus == {"pending", "ready", "degraded", "retired"}
StreamStatus == {"active", "paused", "disabled"}

Device == [id: DeviceIDs, status: DeviceStatus, version: Nat \ {0}]
Stream == [id: StreamIDs, device: DeviceIDs, status: StreamStatus, version: Nat \ {0}]

ASSUME RegistryAssumption ==
  /\ Seeded \subseteq DeviceIDs
  /\ MaxCalls \in Nat
  /\ None \notin Device \cup Stream

VARIABLES
  devices,  \* device records by id, None when there is none
  streams,  \* stream records by id
  frame,    \* per goroutine: where it is and the copy it is about to write
  calls     \* number of calls begun

vars == <<devices, streams, frame, calls>>
-----------------------------------------------------------------------------
(***************************************************************************)
(* The domain methods.  A transition to the status that the record already *)
(* has succeeds and changes nothing, the version included.                 *)
(***************************************************************************)
NewDevice(d)    == [id |-> d, status |-> "pending", version |-> 1]
NewStream(s, d) == [id |-> s, device |-> d, status |-> "active", version |-> 1]

DeviceAllowed(from) ==
  CASE from = "pending"  -> {"ready", "retired"}
    [] from = "ready"    -> {"degraded", "retired"}
    [] from = "degraded" -> {"ready", "retired"}
    [] from = "retired"  -> {}

StreamAllowed(from) == IF from = "disabled" THEN {} ELSE StreamStatus

FaultMoved(record, s) == [record EXCEPT !.status = s]

Moved(record, s) ==
  IF s = record.status THEN record
  ELSE [[record EXCEPT !.status = s] EXCEPT !.version = record.version + 1]

Touched(device) == [device EXCEPT !.version = device.version + 1]

FaultConflict(current, expected) == expected > 0 /\ current.version < expected

(* The version check of UpdateDevice and UpdateStream.                     *)
Conflict(current, expected) == expected > 0 /\ current.version # expected
-----------------------------------------------------------------------------
Labels == {"idle", "device.update", "stream.put", "stream.update"}
Frame  == [at: Labels, device: Device \cup {None}, stream: Stream \cup {None}]
Idle   == [at |-> "idle", device |-> None, stream |-> None]

At(c, label) == frame[c].at = label
Return(c)    == frame' = [frame EXCEPT ![c] = Idle]

HoldDevice(c, device) ==
  frame' = [frame EXCEPT ![c] = [at |-> "device.update", device |-> device, stream |-> None]]

HoldStream(c, label, stream) ==
  frame' = [frame EXCEPT ![c] = [at |-> label, device |-> None, stream |-> stream]]

Begin(c) ==
  /\ At(c, "idle")
  /\ calls < MaxCalls
  /\ calls' = calls + 1

(* CreateDevice is a single repository call.                               *)
CreateDevice(c) ==
  /\ Begin(c)
  /\ \E d \in DeviceIDs :
       /\ devices[d] = None
       /\ devices' = [devices EXCEPT ![d] = NewDevice(d)]
  /\ UNCHANGED <<streams, frame>>

TransitionDeviceGet(c) ==
  /\ Begin(c)
  /\ \E d \in DeviceIDs, s \in DeviceStatus :
       /\ devices[d] # None
       /\ s = devices[d].status \/ s \in DeviceAllowed(devices[d].status)
       /\ HoldDevice(c, Moved(devices[d], s))
  /\ UNCHANGED <<devices, streams>>

FaultTouchDevice(c, d) ==
  /\ Begin(c)
  /\ devices[d] # None
  /\ HoldDevice(c, Touched(devices[d]))
  /\ UNCHANGED <<devices, streams>>

(* Ingestion touches the device of each stream it received samples for.    *)
TouchDevice(c, d) ==
  /\ Begin(c)
  /\ devices[d] # None
  /\ devices[d].status # "retired"
  /\ HoldDevice(c, Touched(devices[d]))
  /\ UNCHANGED <<devices, streams>>

TouchDeviceGet(c) == \E d \in DeviceIDs : TouchDevice(c, d)

(* Both callers expect the version below the one they are about to store.  *)
UpdateDevice(c) ==
  LET device == frame[c].device IN
  /\ At(c, "device.update")
  /\ devices' = IF Conflict(devices[device.id], device.version - 1) THEN devices
                ELSE [devices EXCEPT ![device.id] = device]
  /\ Return(c)
  /\ UNCHANGED <<streams, calls>>

CreateStreamGet(c) ==
  /\ Begin(c)
  /\ \E s \in StreamIDs, d \in DeviceIDs :
       /\ devices[d] # None
       /\ HoldStream(c, "stream.put", NewStream(s, d))
  /\ UNCHANGED <<devices, streams>>

FaultTaken(s) == FALSE

Taken(s) == streams[s] # None

CreateStreamPut(c) ==
  LET stream == frame[c].stream IN
  /\ At(c, "stream.put")
  /\ streams' = IF Taken(stream.id) THEN streams
                ELSE [streams EXCEPT ![stream.id] = stream]
  /\ Return(c)
  /\ UNCHANGED <<devices, calls>>

TransitionStreamGet(c) ==
  /\ Begin(c)
  /\ \E x \in StreamIDs, s \in StreamStatus :
       /\ streams[x] # None
       /\ s = streams[x].status \/ s \in StreamAllowed(streams[x].status)
       /\ HoldStream(c, "stream.update", Moved(streams[x], s))
  /\ UNCHANGED <<devices, streams>>

UpdateStream(c) ==
  LET stream == frame[c].stream IN
  /\ At(c, "stream.update")
  /\ streams' = IF Conflict(streams[stream.id], stream.version - 1) THEN streams
                ELSE [streams EXCEPT ![stream.id] = stream]
  /\ Return(c)
  /\ UNCHANGED <<devices, calls>>
-----------------------------------------------------------------------------
(* Seed registers a device and makes it ready: its version is already 2.   *)
Init ==
  /\ devices = [d \in DeviceIDs |->
                  IF d \in Seeded THEN [id |-> d, status |-> "ready", version |-> 2] ELSE None]
  /\ streams = [s \in StreamIDs |-> None]
  /\ frame = [c \in Clients |-> Idle]
  /\ calls = 0

Next ==
  \E c \in Clients :
    \/ CreateDevice(c)
    \/ TransitionDeviceGet(c)
    \/ TouchDeviceGet(c)
    \/ UpdateDevice(c)
    \/ CreateStreamGet(c)
    \/ CreateStreamPut(c)
    \/ TransitionStreamGet(c)
    \/ UpdateStream(c)

Spec == Init /\ [][Next]_vars
-----------------------------------------------------------------------------
(***************************************************************************)
(* Properties                                                              *)
(***************************************************************************)
(* Every variable keeps its type and records are stored under their id.    *)
TypeOK ==
  /\ devices \in [DeviceIDs -> Device \cup {None}]
  /\ \A d \in DeviceIDs : devices[d] # None => devices[d].id = d
  /\ streams \in [StreamIDs -> Stream \cup {None}]
  /\ \A s \in StreamIDs : streams[s] # None => streams[s].id = s
  /\ frame \in [Clients -> Frame]
  /\ calls \in Nat

(* A device that starts at version 2 changes as if each call read and      *)
(* wrote it in one step, and stays retired, whatever calls overlap.        *)
Promised == INSTANCE DeviceLifecycle
  WITH Devices <- Seeded,
       device <- [d \in Seeded |-> [status |-> devices[d].status, version |-> devices[d].version]]

SeededLifecycle == Promised!Spec

(* Whatever calls overlap, a write that is stored counts one version, or   *)
(* it takes the record back to the first one, with the status of a new     *)
(* record.                                                                 *)
Counted(old, new, first) ==
  \/ new = old
  \/ new.version = old.version + 1
  \/ new.version = 1 /\ new.status = first

VersionsCount ==
  [][/\ \A d \in DeviceIDs : devices[d] # None => Counted(devices[d], devices'[d], "pending")
     /\ \A s \in StreamIDs : streams[s] # None => Counted(streams[s], streams'[s], "active")]_vars

(* A retired device or a disabled stream that no call is about to overwrite*)
(* with another copy never changes again, its version included: touches and*)
(* transitions that read it from now on leave it as it is.                 *)
RetiredForGood(d) ==
  /\ devices[d] # None /\ devices[d].status = "retired"
  /\ \A c \in Clients :
       At(c, "device.update") /\ frame[c].device.id = d => frame[c].device = devices[d]

DisabledForGood(s) ==
  /\ streams[s] # None /\ streams[s].status = "disabled"
  /\ \A c \in Clients :
       At(c, "stream.update") /\ frame[c].stream.id = s => frame[c].stream = streams[s]

FinalStays ==
  [][/\ \A d \in DeviceIDs :
          RetiredForGood(d) => RetiredForGood(d)' /\ devices'[d] = devices[d]
     /\ \A s \in StreamIDs :
          DisabledForGood(s) => DisabledForGood(s)' /\ streams'[s] = streams[s]]_vars
-----------------------------------------------------------------------------
(* "retired device cannot transition" (domain/device.go:77), checked for   *)
(* devices that callers create.                                            *)
RetiredIsFinal ==
  [][\A d \in DeviceIDs :
       devices[d] # None /\ devices[d].status = "retired" => devices'[d].status = "retired"]_vars
=============================================================================
