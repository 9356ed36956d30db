------------------------ MODULE DeviceRegistry_proofs ------------------------
(***************************************************************************)
(* Proofs about DeviceRegistry, for any number of clients, devices,        *)
(* streams and calls: the version check makes every seeded device behave   *)
(* as DeviceLifecycle promises, and versions count writes or start again.  *)
(*                                                                         *)
(* Neither fact is inductive over the stored records alone: what a call    *)
(* will write is decided by the copy in its frame.                         *)
(***************************************************************************)
EXTENDS DeviceRegistry, TLAPS

(* A record of the first version is as it was created.                     *)
DeviceNew(x) == x.version = 1 => x.status = "pending"
StreamNew(x) == x.version = 1 => x.status = "active"

Held(f) ==
  /\ f.at = "device.update" => /\ f.device \in Device /\ DeviceNew(f.device)
                               /\ devices[f.device.id] # None
  /\ f.at \in {"stream.put", "stream.update"} => f.stream \in Stream /\ StreamNew(f.stream)
  /\ f.at = "stream.update" => streams[f.stream.id] # None

TypeInv ==
  /\ TypeOK
  /\ \A d \in DeviceIDs : devices[d] # None => DeviceNew(devices[d])
  /\ \A s \in StreamIDs : streams[s] # None => StreamNew(streams[s])
  /\ \A c \in Clients : Held(frame[c])

(***************************************************************************)
(* What the domain methods return.                                         *)
(***************************************************************************)
(* NewDevice, Transition (Moved) and TouchDevice (Touched) return devices  *)
(* under the id of their argument; a change of status counts one version.  *)
LEMMA DeviceMethods ==
  /\ \A d \in DeviceIDs : /\ NewDevice(d) \in Device /\ NewDevice(d).id = d
                          /\ DeviceNew(NewDevice(d))
  /\ \A x \in Device, s \in DeviceStatus :
       LET y == Moved(x, s) IN
       /\ y \in Device /\ y.id = x.id /\ y.status = s
       /\ y.version = IF s = x.status THEN x.version ELSE x.version + 1
       /\ DeviceNew(x) => DeviceNew(y)
  /\ \A x \in Device :
       LET y == Touched(x) IN
       /\ y \in Device /\ y.id = x.id /\ y.status = x.status /\ y.version = x.version + 1
       /\ DeviceNew(y)
<1>1. ASSUME NEW d \in DeviceIDs
      PROVE  NewDevice(d) \in Device /\ NewDevice(d).id = d /\ DeviceNew(NewDevice(d))
  BY DEF NewDevice, Device, DeviceStatus, DeviceNew
<1>2. ASSUME NEW x \in Device, NEW n \in Nat \ {0}
      PROVE  LET y == [x EXCEPT !.version = n] IN
             y \in Device /\ y.id = x.id /\ y.status = x.status /\ y.version = n
  BY DEF Device
<1>3. ASSUME NEW x \in Device
      PROVE  x.version \in Nat \ {0} /\ x.version + 1 \in Nat \ {0} /\ x.version + 1 # 1
  BY DEF Device
<1>4. ASSUME NEW x \in Device, NEW s \in DeviceStatus
      PROVE  LET y == Moved(x, s) IN
             /\ y \in Device /\ y.id = x.id /\ y.status = s
             /\ y.version = IF s = x.status THEN x.version ELSE x.version + 1
             /\ DeviceNew(x) => DeviceNew(y)
  <2> DEFINE z == [x EXCEPT !.status = s]
  <2>1. z \in Device /\ z.id = x.id /\ z.status = s
    BY DEF Device
  <2>2. Moved(x, s) = IF s = x.status THEN x ELSE [z EXCEPT !.version = x.version + 1]
    BY DEF Moved
  <2> HIDE DEF z
  <2> QED  BY <1>2, <1>3, <2>1, <2>2 DEF DeviceNew
<1>5. ASSUME NEW x \in Device
      PROVE  LET y == Touched(x) IN
             /\ y \in Device /\ y.id = x.id /\ y.status = x.status /\ y.version = x.version + 1
             /\ DeviceNew(y)
  BY <1>2, <1>3 DEF Touched, DeviceNew
<1> QED  BY <1>1, <1>4, <1>5

(* The same of NewStream and of a stream's Transition.                     *)
LEMMA StreamMethods ==
  /\ \A s \in StreamIDs, d \in DeviceIDs :
       NewStream(s, d) \in Stream /\ NewStream(s, d).id = s /\ StreamNew(NewStream(s, d))
  /\ \A x \in Stream, s \in StreamStatus :
       LET y == Moved(x, s) IN
       /\ y \in Stream /\ y.id = x.id
       /\ StreamNew(x) => StreamNew(y)
<1>1. ASSUME NEW s \in StreamIDs, NEW d \in DeviceIDs
      PROVE  NewStream(s, d) \in Stream /\ NewStream(s, d).id = s /\ StreamNew(NewStream(s, d))
  BY DEF NewStream, Stream, StreamStatus, StreamNew
<1>2. ASSUME NEW x \in Stream, NEW s \in StreamStatus
      PROVE  LET y == Moved(x, s) IN
             y \in Stream /\ y.id = x.id /\ (StreamNew(x) => StreamNew(y))
  <2> DEFINE z == [x EXCEPT !.status = s]
  <2>1. z \in Stream /\ z.id = x.id
    BY DEF Stream
  <2>2. Moved(x, s) = IF s = x.status THEN x ELSE [z EXCEPT !.version = x.version + 1]
    BY DEF Moved
  <2>3. x.version + 1 \in Nat \ {0} /\ x.version + 1 # 1
    BY DEF Stream
  <2> HIDE DEF z
  <2>4. [z EXCEPT !.version = x.version + 1] \in Stream
        /\ [z EXCEPT !.version = x.version + 1].id = x.id
        /\ [z EXCEPT !.version = x.version + 1].version = x.version + 1
    BY <2>1, <2>3 DEF Stream
  <2> QED  BY <2>2, <2>3, <2>4 DEF StreamNew
<1> QED  BY <1>1, <1>2
-----------------------------------------------------------------------------
(***************************************************************************)
(* How steps change the frames and the records.                            *)
(***************************************************************************)
(* A call that has read a device holds the copy it will write.             *)
LEMMA HoldDeviceFrame ==
  ASSUME frame \in [Clients -> Frame], NEW c \in Clients, NEW x \in Device, HoldDevice(c, x)
  PROVE  /\ frame' \in [Clients -> Frame]
         /\ frame'[c].at = "device.update" /\ frame'[c].device = x
         /\ \A b \in Clients \ {c} : frame'[b] = frame[b]
  BY DEF HoldDevice, Frame, Labels

(* A call that is about to write a stream holds it.                        *)
LEMMA HoldStreamFrame ==
  ASSUME frame \in [Clients -> Frame], NEW c \in Clients, NEW x \in Stream,
         NEW l \in {"stream.put", "stream.update"}, HoldStream(c, l, x)
  PROVE  /\ frame' \in [Clients -> Frame]
         /\ frame'[c].at = l /\ frame'[c].stream = x
         /\ \A b \in Clients \ {c} : frame'[b] = frame[b]
  BY DEF HoldStream, Frame, Labels

(* A call that returns holds nothing.                                      *)
LEMMA ReturnFrame ==
  ASSUME frame \in [Clients -> Frame], NEW c \in Clients, Return(c)
  PROVE  /\ frame' \in [Clients -> Frame]
         /\ frame'[c].at = "idle"
         /\ \A b \in Clients \ {c} : frame'[b] = frame[b]
  BY DEF Return, Idle, Frame, Labels

(* UpdateDevice stores the copy or leaves the repository as it is.         *)
LEMMA StoreDevice ==
  ASSUME TypeInv, NEW c \in Clients, UpdateDevice(c)
  PROVE  LET x == frame[c].device
             stored == ~Conflict(devices[x.id], x.version - 1)
         IN /\ x \in Device /\ x.id \in DeviceIDs /\ DeviceNew(x) /\ devices[x.id] # None
            /\ \A d \in DeviceIDs : devices'[d] = IF d = x.id /\ stored THEN x ELSE devices[d]
            /\ devices' \in [DeviceIDs -> Device \cup {None}]
<1> DEFINE x == frame[c].device
<1>1. x \in Device /\ DeviceNew(x) /\ devices[x.id] # None
  BY DEF TypeInv, Held, UpdateDevice, At
<1>2. x.id \in DeviceIDs
  BY <1>1 DEF Device
<1>3. devices' = IF Conflict(devices[x.id], x.version - 1) THEN devices
                 ELSE [devices EXCEPT ![x.id] = x]
  BY DEF UpdateDevice
<1>4. devices \in [DeviceIDs -> Device \cup {None}]
  BY DEF TypeInv, TypeOK
<1> HIDE DEF x
<1>5. /\ \A d \in DeviceIDs :
           devices'[d] = IF d = x.id /\ ~Conflict(devices[x.id], x.version - 1) THEN x ELSE devices[d]
      /\ devices' \in [DeviceIDs -> Device \cup {None}]
  BY <1>1, <1>2, <1>3, <1>4
<1> QED  BY <1>1, <1>2, <1>5 DEF x

(* CreateStreamPut and UpdateStream store their copy or leave the          *)
(* repository as it is.                                                    *)
LEMMA StoreStream ==
  ASSUME TypeInv, NEW c \in Clients, CreateStreamPut(c) \/ UpdateStream(c)
  PROVE  LET x == frame[c].stream
         IN /\ x \in Stream /\ x.id \in StreamIDs /\ StreamNew(x)
            /\ streams' \in [StreamIDs -> Stream \cup {None}]
            /\ \A s \in StreamIDs : streams'[s] = streams[s] \/ (s = x.id /\ streams'[s] = x)
            /\ CreateStreamPut(c) => \A s \in StreamIDs : streams[s] # None => streams'[s] = streams[s]
            /\ UpdateStream(c) => \A s \in StreamIDs :
                 streams'[s] = streams[s] \/ (~Conflict(streams[s], x.version - 1) /\ streams'[s] = x)
<1> DEFINE x == frame[c].stream
<1>1. x \in Stream /\ StreamNew(x)
  BY DEF TypeInv, Held, CreateStreamPut, Taken, UpdateStream, At
<1>2. x.id \in StreamIDs /\ x # None
  BY <1>1, RegistryAssumption DEF Stream, RegistryAssumption
<1>3. streams \in [StreamIDs -> Stream \cup {None}]
  BY DEF TypeInv, TypeOK
<1> DEFINE Stored ==
      /\ streams' \in [StreamIDs -> Stream \cup {None}]
      /\ \A s \in StreamIDs : streams'[s] = streams[s] \/ (s = x.id /\ streams'[s] = x)
      /\ CreateStreamPut(c) => \A s \in StreamIDs : streams[s] # None => streams'[s] = streams[s]
      /\ UpdateStream(c) => \A s \in StreamIDs :
           streams'[s] = streams[s] \/ (~Conflict(streams[s], x.version - 1) /\ streams'[s] = x)
<1>4. ASSUME CreateStreamPut(c) PROVE Stored
  <2>1. streams' = IF streams[x.id] # None THEN streams ELSE [streams EXCEPT ![x.id] = x]
    BY <1>4 DEF CreateStreamPut, Taken
  <2>2. ~UpdateStream(c)
    BY <1>4 DEF CreateStreamPut, Taken, UpdateStream, At
  <2> HIDE DEF x
  <2> QED  BY <1>1, <1>2, <1>3, <2>1, <2>2
<1>5. ASSUME UpdateStream(c) PROVE Stored
  <2>1. streams' = IF Conflict(streams[x.id], x.version - 1) THEN streams
                   ELSE [streams EXCEPT ![x.id] = x]
    BY <1>5 DEF UpdateStream
  <2>2. ~CreateStreamPut(c)
    BY <1>5 DEF CreateStreamPut, Taken, UpdateStream, At
  <2> HIDE DEF x
  <2> QED  BY <1>1, <1>2, <1>3, <2>1, <2>2
<1>6. Stored
  BY <1>4, <1>5
<1> QED  BY <1>1, <1>2, <1>6
-----------------------------------------------------------------------------
(***************************************************************************)
(* Type correctness and the first version.                                 *)
(***************************************************************************)
(* The seeded devices have the types and are not new.                      *)
LEMMA TypeInit == Init => TypeInv
<1> SUFFICES ASSUME Init PROVE TypeInv
  OBVIOUS
<1>1. \A d \in DeviceIDs : [id |-> d, status |-> "ready", version |-> 2] \in Device
  BY DEF Device, DeviceStatus
<1>2. Idle \in Frame /\ Idle.at = "idle"
  BY DEF Idle, Frame, Labels
<1>3. TypeOK
  BY <1>1, <1>2 DEF Init, TypeOK
<1> QED  BY <1>2, <1>3, RegistryAssumption DEF Init, TypeInv, Held, DeviceNew, RegistryAssumption

(* Every step keeps the types, and keeps records and copies of the first   *)
(* version as they were created.                                           *)
LEMMA TypeNext == TypeInv /\ [Next]_vars => TypeInv'
<1> SUFFICES ASSUME TypeInv, [Next]_vars PROVE TypeInv'
  OBVIOUS
<1>a. /\ frame \in [Clients -> Frame] /\ calls \in Nat
      /\ \A c \in Clients : Held(frame[c])
  BY DEF TypeInv, TypeOK
<1>b. /\ \A d \in DeviceIDs : devices[d] # None =>
           devices[d] \in Device /\ devices[d].id = d /\ DeviceNew(devices[d])
      /\ \A s \in StreamIDs : streams[s] # None =>
           streams[s] \in Stream /\ streams[s].id = s /\ StreamNew(streams[s])
  BY DEF TypeInv, TypeOK
<1>c. None \notin Device /\ None \notin Stream
  BY RegistryAssumption DEF RegistryAssumption
(* The frames of the other calls stay sound as long as no record is lost.  *)
<1>d. ASSUME NEW c \in Clients, Held(frame[c])', \A b \in Clients \ {c} : frame'[b] = frame[b],
             \A d \in DeviceIDs : devices[d] # None => devices'[d] # None,
             \A s \in StreamIDs : streams[s] # None => streams'[s] # None
      PROVE  \A b \in Clients : Held(frame[b])'
  BY <1>a, <1>d DEF Held, Device, Stream
<1>1. CASE UNCHANGED vars
  BY <1>1 DEF vars, TypeInv, TypeOK, Held, DeviceNew, StreamNew
<1>2. ASSUME NEW c \in Clients, CreateDevice(c)
      PROVE  TypeInv'
  <2>1. PICK d \in DeviceIDs : devices[d] = None /\ devices' = [devices EXCEPT ![d] = NewDevice(d)]
    BY <1>2 DEF CreateDevice
  <2>2. UNCHANGED <<streams, frame>> /\ calls' = calls + 1
    BY <1>2 DEF CreateDevice, Begin
  <2>3. NewDevice(d) \in Device /\ NewDevice(d).id = d /\ DeviceNew(NewDevice(d)) /\ NewDevice(d) # None
    BY DeviceMethods, <1>c
  <2>4. \A e \in DeviceIDs : devices'[e] = IF e = d THEN NewDevice(d) ELSE devices[e]
    BY <2>1 DEF TypeInv, TypeOK
  <2>5. TypeOK'
    BY <2>1, <2>2, <2>3, <2>4 DEF TypeInv, TypeOK
  <2>6. \A e \in DeviceIDs : devices'[e] # None => DeviceNew(devices'[e])
    BY <1>b, <2>3, <2>4
  <2>7. \A b \in Clients : Held(frame[b])'
    BY <1>a, <2>2, <2>3, <2>4 DEF Held, Device
  <2> QED  BY <1>b, <2>2, <2>5, <2>6, <2>7 DEF TypeInv, DeviceNew, StreamNew
(* The calls that only read the repository and hold a device copy.         *)
<1>3. ASSUME NEW c \in Clients, NEW x \in Device, DeviceNew(x), devices[x.id] # None,
             HoldDevice(c, x), UNCHANGED <<devices, streams>>, calls' \in Nat
      PROVE  TypeInv'
  <2>1. /\ frame' \in [Clients -> Frame] /\ frame'[c].at = "device.update" /\ frame'[c].device = x
        /\ \A b \in Clients \ {c} : frame'[b] = frame[b]
    BY <1>a, <1>3, HoldDeviceFrame
  <2>2. Held(frame[c])'
    BY <1>3, <2>1 DEF Held, DeviceNew
  <2> QED  BY <1>3, <1>d, <2>1, <2>2 DEF TypeInv, TypeOK, DeviceNew, StreamNew
<1>4. ASSUME NEW c \in Clients, TransitionDeviceGet(c)
      PROVE  TypeInv'
  <2>1. PICK d \in DeviceIDs, s \in DeviceStatus :
          devices[d] # None /\ HoldDevice(c, Moved(devices[d], s))
    BY <1>4 DEF TransitionDeviceGet
  <2>2. Moved(devices[d], s) \in Device /\ Moved(devices[d], s).id = d /\ DeviceNew(Moved(devices[d], s))
    BY <1>b, <2>1, DeviceMethods
  <2>3. UNCHANGED <<devices, streams>> /\ calls' \in Nat
    BY <1>a, <1>4 DEF TransitionDeviceGet, Begin
  <2> QED  BY <1>3, <2>1, <2>2, <2>3
<1>5. ASSUME NEW c \in Clients, TouchDeviceGet(c)
      PROVE  TypeInv'
  <2>1. PICK d \in DeviceIDs : devices[d] # None /\ HoldDevice(c, Touched(devices[d]))
    BY <1>5 DEF TouchDeviceGet, TouchDevice
  <2>2. Touched(devices[d]) \in Device /\ Touched(devices[d]).id = d /\ DeviceNew(Touched(devices[d]))
    BY <1>b, <2>1, DeviceMethods
  <2>3. UNCHANGED <<devices, streams>> /\ calls' \in Nat
    BY <1>a, <1>5 DEF TouchDeviceGet, TouchDevice, Begin
  <2> QED  BY <1>3, <2>1, <2>2, <2>3
<1>6. ASSUME NEW c \in Clients, UpdateDevice(c)
      PROVE  TypeInv'
  <2> DEFINE x == frame[c].device
  <2>1. /\ x \in Device /\ x.id \in DeviceIDs /\ DeviceNew(x)
        /\ devices' \in [DeviceIDs -> Device \cup {None}]
        /\ \A d \in DeviceIDs : devices'[d] = devices[d] \/ (d = x.id /\ devices'[d] = x)
    BY <1>6, StoreDevice
  <2>2. UNCHANGED <<streams, calls>>
    BY <1>6 DEF UpdateDevice
  <2>3. /\ frame' \in [Clients -> Frame] /\ frame'[c].at = "idle"
        /\ \A b \in Clients \ {c} : frame'[b] = frame[b]
    BY <1>a, <1>6, ReturnFrame DEF UpdateDevice
  <2> HIDE DEF x
  <2>4. TypeOK'
    BY <1>b, <2>1, <2>2, <2>3 DEF TypeInv, TypeOK
  <2>5. \A d \in DeviceIDs : /\ devices'[d] # None => DeviceNew(devices'[d])
                             /\ devices[d] # None => devices'[d] # None
    BY <1>b, <1>c, <2>1
  <2>6. \A b \in Clients : Held(frame[b])'
    BY <1>d, <2>2, <2>3, <2>5 DEF Held
  <2> QED  BY <1>b, <2>2, <2>4, <2>5, <2>6 DEF TypeInv, DeviceNew, StreamNew
(* The calls that only read the repository and hold a stream copy.         *)
<1>7. ASSUME NEW c \in Clients, NEW x \in Stream, StreamNew(x), NEW l \in {"stream.put", "stream.update"},
             l = "stream.update" => streams[x.id] # None,
             HoldStream(c, l, x), UNCHANGED <<devices, streams>>, calls' \in Nat
      PROVE  TypeInv'
  <2>1. /\ frame' \in [Clients -> Frame] /\ frame'[c].at = l /\ frame'[c].stream = x
        /\ \A b \in Clients \ {c} : frame'[b] = frame[b]
    BY <1>a, <1>7, HoldStreamFrame
  <2>2. Held(frame[c])'
    BY <1>7, <2>1 DEF Held, StreamNew
  <2> QED  BY <1>7, <1>d, <2>1, <2>2 DEF TypeInv, TypeOK, DeviceNew, StreamNew
<1>8. ASSUME NEW c \in Clients, CreateStreamGet(c)
      PROVE  TypeInv'
  <2>1. PICK s \in StreamIDs, d \in DeviceIDs : HoldStream(c, "stream.put", NewStream(s, d))
    BY <1>8 DEF CreateStreamGet
  <2>2. NewStream(s, d) \in Stream /\ StreamNew(NewStream(s, d))
    BY StreamMethods
  <2>3. UNCHANGED <<devices, streams>> /\ calls' \in Nat
    BY <1>a, <1>8 DEF CreateStreamGet, Begin
  <2> QED  BY <1>7, <2>1, <2>2, <2>3
<1>9. ASSUME NEW c \in Clients, TransitionStreamGet(c)
      PROVE  TypeInv'
  <2>1. PICK d \in StreamIDs, s \in StreamStatus :
          streams[d] # None /\ HoldStream(c, "stream.update", Moved(streams[d], s))
    BY <1>9 DEF TransitionStreamGet
  <2>2. Moved(streams[d], s) \in Stream /\ Moved(streams[d], s).id = d /\ StreamNew(Moved(streams[d], s))
    BY <1>b, <2>1, StreamMethods
  <2>3. UNCHANGED <<devices, streams>> /\ calls' \in Nat
    BY <1>a, <1>9 DEF TransitionStreamGet, Begin
  <2> QED  BY <1>7, <2>1, <2>2, <2>3
<1>10. ASSUME NEW c \in Clients, CreateStreamPut(c) \/ UpdateStream(c)
       PROVE  TypeInv'
  <2> DEFINE x == frame[c].stream
  <2>1. /\ x \in Stream /\ x.id \in StreamIDs /\ StreamNew(x)
        /\ streams' \in [StreamIDs -> Stream \cup {None}]
        /\ \A s \in StreamIDs : streams'[s] = streams[s] \/ (s = x.id /\ streams'[s] = x)
    BY <1>10, StoreStream
  <2>2. UNCHANGED <<devices, calls>> /\ Return(c)
    BY <1>10 DEF CreateStreamPut, Taken, UpdateStream
  <2>3. /\ frame' \in [Clients -> Frame] /\ frame'[c].at = "idle"
        /\ \A b \in Clients \ {c} : frame'[b] = frame[b]
    BY <1>a, <2>2, ReturnFrame
  <2> HIDE DEF x
  <2>4. TypeOK'
    BY <1>b, <2>1, <2>2, <2>3 DEF TypeInv, TypeOK
  <2>5. \A s \in StreamIDs : /\ streams'[s] # None => StreamNew(streams'[s])
                             /\ streams[s] # None => streams'[s] # None
    BY <1>b, <1>c, <2>1
  <2>6. \A b \in Clients : Held(frame[b])'
    BY <1>d, <2>2, <2>3, <2>5 DEF Held
  <2> QED  BY <1>b, <2>2, <2>4, <2>5, <2>6 DEF TypeInv, DeviceNew, StreamNew
<1> QED  BY <1>1, <1>2, <1>4, <1>5, <1>6, <1>8, <1>9, <1>10 DEF Next

(* In every reachable state records and copies have their types, and those *)
(* of the first version are as they were created.                          *)
THEOREM TypeInvariant == Spec => []TypeInv
<1> QED  BY TypeInit, TypeNext, PTL DEF Spec

(* The repository and the calls under way keep their types                 *)
(* (store/memory.go).                                                      *)
THEOREM TypeCorrect == Spec => []TypeOK
<1>1. TypeInv => TypeOK
  BY DEF TypeInv
<1> QED  BY <1>1, TypeInvariant, PTL
-----------------------------------------------------------------------------
(***************************************************************************)
(* Versions count the writes.                                              *)
(***************************************************************************)
(* Only UpdateDevice changes a device that is stored.                      *)
LEMMA DeviceWrites ==
  ASSUME TypeInv, NEW c \in Clients,
         \/ CreateDevice(c) \/ TransitionDeviceGet(c) \/ TouchDeviceGet(c) \/ CreateStreamGet(c)
         \/ CreateStreamPut(c) \/ TransitionStreamGet(c) \/ UpdateStream(c)
  PROVE  \A d \in DeviceIDs : devices[d] # None => devices'[d] = devices[d]
  BY DEF TypeInv, TypeOK, CreateDevice, TransitionDeviceGet, TouchDeviceGet, TouchDevice, CreateStreamGet,
         CreateStreamPut, Taken, TransitionStreamGet, UpdateStream

(* Only UpdateStream changes a stream that is stored.                      *)
LEMMA StreamWrites ==
  ASSUME TypeInv, NEW c \in Clients,
         \/ CreateDevice(c) \/ TransitionDeviceGet(c) \/ TouchDeviceGet(c) \/ UpdateDevice(c)
         \/ CreateStreamGet(c) \/ CreateStreamPut(c) \/ TransitionStreamGet(c)
  PROVE  \A s \in StreamIDs : streams[s] # None => streams'[s] = streams[s]
<1>1. CASE CreateStreamPut(c)
  BY <1>1, StoreStream
<1>2. CASE ~CreateStreamPut(c)
  BY <1>2 DEF CreateDevice, TransitionDeviceGet, TouchDeviceGet, TouchDevice, UpdateDevice, CreateStreamGet,
              TransitionStreamGet
<1> QED  BY <1>1, <1>2

(* Whatever calls overlap, a stored write counts one version or takes the  *)
(* record back to the first one (store/memory.go UpdateDevice,             *)
(* UpdateStream).                                                          *)
THEOREM VersionsCounted == Spec => VersionsCount
<1> DEFINE Count ==
      /\ \A d \in DeviceIDs : devices[d] # None => Counted(devices[d], devices'[d], "pending")
      /\ \A s \in StreamIDs : streams[s] # None => Counted(streams[s], streams'[s], "active")
<1>1. ASSUME TypeInv, [Next]_vars
      PROVE  [Count]_vars
  <2>a. /\ \A d \in DeviceIDs : devices[d] # None => devices[d] \in Device
        /\ \A s \in StreamIDs : streams[s] # None => streams[s] \in Stream
    BY <1>1 DEF TypeInv, TypeOK
  <2>1. ASSUME NEW c \in Clients, UpdateDevice(c), NEW d \in DeviceIDs, devices[d] # None
        PROVE  Counted(devices[d], devices'[d], "pending")
    <3> DEFINE x == frame[c].device
    <3>1. /\ x \in Device /\ DeviceNew(x)
          /\ devices'[d] = devices[d] \/ (devices'[d] = x /\ ~Conflict(devices[d], x.version - 1))
      BY <1>1, <2>1, StoreDevice
    <3>2. x.version \in Nat \ {0} /\ devices[d].version \in Nat \ {0}
      BY <2>a, <2>1, <3>1 DEF Device
    <3> HIDE DEF x
    <3> QED  BY <3>1, <3>2 DEF Counted, Conflict, DeviceNew
  <2>2. ASSUME NEW c \in Clients, UpdateStream(c), NEW s \in StreamIDs, streams[s] # None
        PROVE  Counted(streams[s], streams'[s], "active")
    <3> DEFINE x == frame[c].stream
    <3>1. /\ x \in Stream /\ StreamNew(x)
          /\ streams'[s] = streams[s] \/ (streams'[s] = x /\ ~Conflict(streams[s], x.version - 1))
      BY <1>1, <2>2, StoreStream
    <3>2. x.version \in Nat \ {0} /\ streams[s].version \in Nat \ {0}
      BY <2>a, <2>2, <3>1 DEF Stream
    <3> HIDE DEF x
    <3> QED  BY <3>1, <3>2 DEF Counted, Conflict, StreamNew
  <2>3. ASSUME NEW c \in Clients, UpdateDevice(c) PROVE Count
    BY <1>1, <2>1, <2>3, StreamWrites DEF Counted
  <2>4. ASSUME NEW c \in Clients, UpdateStream(c) PROVE Count
    BY <1>1, <2>2, <2>4, DeviceWrites DEF Counted
  <2>5. ASSUME NEW c \in Clients,
               \/ CreateDevice(c) \/ TransitionDeviceGet(c) \/ TouchDeviceGet(c)
               \/ CreateStreamGet(c) \/ CreateStreamPut(c) \/ TransitionStreamGet(c)
        PROVE  Count
    BY <1>1, <2>5, DeviceWrites, StreamWrites DEF Counted
  <2> QED  BY <1>1, <2>3, <2>4, <2>5 DEF Next
<1> QED  BY <1>1, TypeInvariant, PTL DEF Spec, VersionsCount
-----------------------------------------------------------------------------
(***************************************************************************)
(* Seeded devices implement DeviceLifecycle.                               *)
(*                                                                         *)
(* A copy that the version check would let through was computed from the   *)
(* record that is stored now: the stored version only grows, so a copy of  *)
(* an older record, or one that a transition left as it was, is below it.  *)
(***************************************************************************)
LegalStep(old, new) ==
  \/ new.status \in DeviceAllowed(old.status)
  \/ new.status = old.status /\ old.status # "retired"

Ahead(f) ==
  f.at = "device.update" /\ f.device.id \in Seeded =>
    LET old == devices[f.device.id] IN
    /\ f.device.version >= 2
    /\ f.device.version <= old.version + 1
    /\ f.device.version = old.version + 1 => LegalStep(old, f.device)

SeededInv ==
  /\ \A d \in Seeded : devices[d] # None /\ devices[d].version >= 2
  /\ \A c \in Clients : Ahead(frame[c])

(* The seeded devices are registered at version 2.                         *)
LEMMA SeededInit == Init => SeededInv
  BY RegistryAssumption DEF Init, SeededInv, Ahead, Idle, RegistryAssumption, Device, DeviceStatus

(* What a step does to a seeded device, if anything, is legal.             *)
LEMMA SeededWrite ==
  ASSUME TypeInv, SeededInv, [Next]_vars, NEW d \in Seeded
  PROVE  \/ devices'[d] = devices[d]
         \/ /\ devices'[d] \in Device
            /\ devices'[d].version = devices[d].version + 1
            /\ LegalStep(devices[d], devices'[d])
<1>1. d \in DeviceIDs /\ devices[d] # None /\ devices[d] \in Device
      /\ devices[d].version \in Nat
  BY RegistryAssumption DEF RegistryAssumption, SeededInv, TypeInv, TypeOK, Device
<1>2. ASSUME NEW c \in Clients, UpdateDevice(c), devices'[d] # devices[d]
      PROVE  /\ devices'[d] \in Device
             /\ devices'[d].version = devices[d].version + 1
             /\ LegalStep(devices[d], devices'[d])
  <2> DEFINE x == frame[c].device
  <2>1. /\ x \in Device /\ x.id = d /\ devices'[d] = x
        /\ ~Conflict(devices[d], x.version - 1)
    BY <1>1, <1>2, StoreDevice
  <2>2. /\ x.version >= 2
        /\ x.version = devices[d].version + 1 => LegalStep(devices[d], x)
    BY <1>2, <2>1 DEF SeededInv, Ahead, UpdateDevice, At
  <2>3. x.version \in Nat
    BY <2>1 DEF Device
  <2> HIDE DEF x
  <2> QED  BY <1>1, <2>1, <2>2, <2>3 DEF Conflict
<1>3. CASE UNCHANGED vars
  BY <1>3 DEF vars
<1>4. ASSUME NEW c \in Clients,
             \/ CreateDevice(c) \/ TransitionDeviceGet(c) \/ TouchDeviceGet(c) \/ CreateStreamGet(c)
             \/ CreateStreamPut(c) \/ TransitionStreamGet(c) \/ UpdateStream(c)
      PROVE  devices'[d] = devices[d]
  BY <1>1, <1>4, DeviceWrites
<1> QED  BY <1>2, <1>3, <1>4 DEF Next

(* Every step keeps stored versions of seeded devices from falling and     *)
(* every copy of one at most one legal step ahead.                         *)
LEMMA SeededNext == TypeInv /\ SeededInv /\ [Next]_vars => SeededInv'
<1> SUFFICES ASSUME TypeInv, SeededInv, [Next]_vars PROVE SeededInv'
  OBVIOUS
<1>a. /\ frame \in [Clients -> Frame] /\ Seeded \subseteq DeviceIDs /\ None \notin Device
      /\ \A d \in Seeded : devices[d] # None /\ devices[d] \in Device
                           /\ devices[d].version \in Nat /\ devices[d].version >= 2
  BY RegistryAssumption DEF RegistryAssumption, SeededInv, TypeInv, TypeOK, Device
<1>1. \A d \in Seeded :
        /\ devices'[d] # None /\ devices'[d].version >= 2 /\ devices'[d].version \in Nat
        /\ devices'[d] # devices[d] => devices'[d].version = devices[d].version + 1
  BY <1>a, SeededWrite
(* The copies of calls that do not move.                                   *)
<1>2. ASSUME NEW c \in Clients, frame'[c] = frame[c]
      PROVE  Ahead(frame[c])'
  <2>1. CASE frame[c].at = "device.update" /\ frame[c].device.id \in Seeded
    <3> DEFINE d == frame[c].device.id
    <3>1. frame[c].device.version \in Nat
      BY <1>a, <2>1 DEF TypeInv, Held, Device
    <3>2. Ahead(frame[c])
      BY DEF SeededInv
    <3> HIDE DEF d
    <3>3. /\ frame[c].device.version >= 2
          /\ frame[c].device.version <= devices[frame[c].device.id].version + 1
          /\ frame[c].device.version = devices[frame[c].device.id].version + 1
               => LegalStep(devices[frame[c].device.id], frame[c].device)
      BY <2>1, <3>2 DEF Ahead
    <3>4. CASE devices'[frame[c].device.id] = devices[frame[c].device.id]
      BY <1>2, <3>3, <3>4 DEF Ahead, LegalStep
    <3>5. CASE devices'[frame[c].device.id] # devices[frame[c].device.id]
      BY <1>a, <1>1, <1>2, <2>1, <3>1, <3>3, <3>5 DEF Ahead
    <3> QED  BY <3>4, <3>5
  <2> QED  BY <1>2, <2>1 DEF Ahead
(* A call that has just read a device.                                     *)
<1>3. ASSUME NEW c \in Clients, NEW x \in Device, HoldDevice(c, x), UNCHANGED devices,
             x.id \in Seeded =>
               \/ x.version = devices[x.id].version
               \/ x.version = devices[x.id].version + 1 /\ LegalStep(devices[x.id], x)
      PROVE  SeededInv'
  <2>1. /\ frame'[c].device = x
        /\ \A b \in Clients \ {c} : frame'[b] = frame[b]
    BY <1>a, <1>3, HoldDeviceFrame
  <2>2. Ahead(frame[c])'
    BY <1>a, <1>3, <2>1 DEF Ahead, LegalStep
  <2> QED  BY <1>1, <1>2, <2>1, <2>2 DEF SeededInv
<1>4. ASSUME NEW c \in Clients, TransitionDeviceGet(c)
      PROVE  SeededInv'
  <2>1. PICK d \in DeviceIDs, s \in DeviceStatus :
          /\ devices[d] # None
          /\ s = devices[d].status \/ s \in DeviceAllowed(devices[d].status)
          /\ HoldDevice(c, Moved(devices[d], s))
    BY <1>4 DEF TransitionDeviceGet
  <2>2. devices[d] \in Device /\ devices[d].id = d
    BY <2>1 DEF TypeInv, TypeOK
  <2> DEFINE x == Moved(devices[d], s)
  <2>3. /\ x \in Device /\ x.id = d /\ x.status = s
        /\ x.version = IF s = devices[d].status THEN devices[d].version ELSE devices[d].version + 1
    BY <2>2, DeviceMethods
  <2>4. HoldDevice(c, x) /\ UNCHANGED devices
    BY <1>4, <2>1 DEF TransitionDeviceGet
  <2> HIDE DEF x
  <2>5. \/ x.version = devices[x.id].version
        \/ x.version = devices[x.id].version + 1 /\ LegalStep(devices[x.id], x)
    BY <2>1, <2>3 DEF LegalStep
  <2> QED  BY <1>3, <2>3, <2>4, <2>5
<1>5. ASSUME NEW c \in Clients, TouchDeviceGet(c)
      PROVE  SeededInv'
  <2>1. PICK d \in DeviceIDs :
          devices[d] # None /\ devices[d].status # "retired" /\ HoldDevice(c, Touched(devices[d]))
    BY <1>5 DEF TouchDeviceGet, TouchDevice
  <2>2. devices[d] \in Device /\ devices[d].id = d
    BY <2>1 DEF TypeInv, TypeOK
  <2> DEFINE x == Touched(devices[d])
  <2>3. /\ x \in Device /\ x.id = d /\ x.status = devices[d].status
        /\ x.version = devices[d].version + 1
    BY <2>2, DeviceMethods
  <2>4. HoldDevice(c, x) /\ UNCHANGED devices
    BY <1>5, <2>1 DEF TouchDeviceGet, TouchDevice
  <2> HIDE DEF x
  <2> QED  BY <1>3, <2>1, <2>3, <2>4 DEF LegalStep
(* The other steps move to a frame that holds no device.                   *)
<1>6. ASSUME NEW c \in Clients, frame'[c].at # "device.update",
             \A b \in Clients \ {c} : frame'[b] = frame[b]
      PROVE  SeededInv'
  BY <1>1, <1>2, <1>6 DEF SeededInv, Ahead
<1>7. ASSUME NEW c \in Clients, UpdateDevice(c) \/ CreateStreamPut(c) \/ UpdateStream(c)
      PROVE  SeededInv'
  <2>1. Return(c)
    BY <1>7 DEF UpdateDevice, CreateStreamPut, Taken, UpdateStream
  <2> QED  BY <1>a, <1>6, <2>1, ReturnFrame
<1>8. ASSUME NEW c \in Clients, CreateStreamGet(c) \/ TransitionStreamGet(c)
      PROVE  SeededInv'
  <2>1. frame'[c].at # "device.update" /\ \A b \in Clients \ {c} : frame'[b] = frame[b]
    BY <1>a, <1>8 DEF CreateStreamGet, TransitionStreamGet, HoldStream
  <2> QED  BY <1>6, <2>1
<1>9. CASE UNCHANGED frame
  BY <1>1, <1>2, <1>9 DEF SeededInv
<1> QED  BY <1>4, <1>5, <1>7, <1>8, <1>9 DEF Next, CreateDevice, vars

(* In every reachable state a copy of a seeded device that would pass the  *)
(* version check is a legal successor of the stored record.                *)
THEOREM SeededInvariant == Spec => []SeededInv
<1> QED  BY TypeInvariant, SeededInit, SeededNext, PTL DEF Spec

(* The devices that the process seeds (service/app.go Seed) behave as      *)
(* DeviceLifecycle: each call that has an effect has it in one step, and a *)
(* retired device stays as it is.                                          *)
THEOREM SeededImplementLifecycle == Spec => SeededLifecycle
<1> DEFINE abstract == [d \in Seeded |-> [status |-> devices[d].status, version |-> devices[d].version]]
<1>1. Init => Promised!Init
  BY RegistryAssumption DEF Init, Promised!Init, RegistryAssumption
<1>2. ASSUME TypeInv, SeededInv, SeededInv', [Next]_vars
      PROVE  [Promised!Next]_abstract
  <2>1. CASE \A d \in Seeded : devices'[d] = devices[d]
    BY <2>1
  <2>2. ASSUME NEW d \in Seeded, devices'[d] # devices[d]
        PROVE  Promised!Next
    <3>1. /\ devices[d] \in Device /\ devices'[d] \in Device
          /\ devices'[d].version = devices[d].version + 1
          /\ LegalStep(devices[d], devices'[d])
      BY <1>2, <2>2, SeededWrite, RegistryAssumption
      DEF RegistryAssumption, SeededInv, TypeInv, TypeOK
    <3>2. \A e \in Seeded \ {d} : devices'[e] = devices[e]
      <4>1. PICK c \in Clients : UpdateDevice(c)
        BY <1>2, <2>2, DeviceWrites, RegistryAssumption
        DEF Next, vars, RegistryAssumption, SeededInv
      <4> QED  BY <1>2, <2>2, <4>1, StoreDevice, RegistryAssumption DEF RegistryAssumption
    <3>3. abstract' = [abstract EXCEPT ![d] = [status |-> devices'[d].status,
                                               version |-> abstract[d].version + 1]]
      BY <3>1, <3>2
    <3>4. devices[d].status \in DeviceStatus /\ devices'[d].status \in DeviceStatus
      BY <3>1 DEF Device
    <3>5. abstract[d].status = devices[d].status
      OBVIOUS
    <3> HIDE DEF abstract
    <3>6. CASE devices'[d].status \in DeviceAllowed(devices[d].status)
      <4>1. <<devices[d].status, devices'[d].status>> \in Promised!Lifecycle
        BY <3>4, <3>6 DEF DeviceAllowed, DeviceStatus, Promised!Lifecycle
      <4>2. Promised!Transition(d)
        BY <3>3, <3>5, <4>1 DEF Promised!Transition, Promised!Write, abstract
      <4> QED  BY <4>2 DEF Promised!Next
    <3>7. CASE devices'[d].status = devices[d].status /\ devices[d].status # "retired"
      <4>1. Promised!Touch(d)
        BY <3>3, <3>5, <3>7 DEF Promised!Touch, Promised!Write, abstract
      <4> QED  BY <4>1 DEF Promised!Next
    <3> QED  BY <3>1, <3>6, <3>7 DEF LegalStep
  <2> QED  BY <2>1, <2>2
<1> QED  BY <1>1, <1>2, TypeInvariant, SeededInvariant, PTL
         DEF Spec, SeededLifecycle, Promised!Spec
-----------------------------------------------------------------------------
(***************************************************************************)
(* What stays for good.                                                    *)
(***************************************************************************)
(* Every step keeps a retired device, and the copies of it, as they are.   *)
LEMMA RetiredDeviceNext ==
  ASSUME TypeInv, NEW d \in DeviceIDs, RetiredForGood(d), [Next]_vars
  PROVE  RetiredForGood(d)' /\ devices'[d] = devices[d]
<1> DEFINE Stays == RetiredForGood(d)' /\ devices'[d] = devices[d]
<1>a. /\ frame \in [Clients -> Frame]
      /\ \A x \in DeviceIDs : devices[x] # None => devices[x] \in Device /\ devices[x].id = x
      /\ \A c \in Clients : Held(frame[c])
  BY DEF TypeInv, TypeOK
<1>b. devices[d] # None /\ devices[d].status = "retired" /\ DeviceAllowed("retired") = {}
  BY DEF RetiredForGood, DeviceAllowed
<1>c. \A c \in Clients : frame[c].at = "device.update" /\ frame[c].device.id = d =>
        frame[c].device = devices[d]
  BY DEF RetiredForGood, At
(* A step that keeps the device and makes no other copy of it.             *)
<1>d. ASSUME NEW c \in Clients, devices'[d] = devices[d],
             frame'[c].at = "device.update" /\ frame'[c].device.id = d =>
               frame'[c].device = devices[d],
             \A b \in Clients \ {c} : frame'[b] = frame[b]
      PROVE  Stays
  BY <1>d DEF RetiredForGood, At
<1>1. ASSUME UNCHANGED <<devices, frame>>
      PROVE  Stays
  BY <1>1 DEF RetiredForGood, At
<1>2. ASSUME NEW c \in Clients, CreateDevice(c)
      PROVE  Stays
  <2>1. devices'[d] = devices[d] /\ UNCHANGED frame
    BY <1>2, <1>b, DeviceWrites DEF CreateDevice
  <2> QED  BY <1>c, <1>d, <2>1
<1>3. ASSUME NEW c \in Clients, TransitionDeviceGet(c)
      PROVE  Stays
  <2>1. PICK x \in DeviceIDs, s \in DeviceStatus :
          /\ devices[x] # None
          /\ s = devices[x].status \/ s \in DeviceAllowed(devices[x].status)
          /\ HoldDevice(c, Moved(devices[x], s))
    BY <1>3 DEF TransitionDeviceGet
  <2>2. Moved(devices[x], s) \in Device /\ Moved(devices[x], s).id = x
    BY <1>a, <2>1, DeviceMethods
  <2>3. x = d => Moved(devices[x], s) = devices[d]
    BY <1>b, <2>1 DEF Moved
  <2>4. /\ frame'[c].device = Moved(devices[x], s)
        /\ \A b \in Clients \ {c} : frame'[b] = frame[b]
    BY <1>a, <2>1, <2>2, HoldDeviceFrame
  <2>5. UNCHANGED devices
    BY <1>3 DEF TransitionDeviceGet
  <2> QED  BY <1>d, <2>2, <2>3, <2>4, <2>5
<1>4. ASSUME NEW c \in Clients, TouchDeviceGet(c)
      PROVE  Stays
  <2>1. PICK x \in DeviceIDs : /\ devices[x] # None /\ devices[x].status # "retired"
                               /\ HoldDevice(c, Touched(devices[x]))
    BY <1>4 DEF TouchDeviceGet, TouchDevice
  <2>2. Touched(devices[x]) \in Device /\ Touched(devices[x]).id = x /\ x # d
    BY <1>a, <1>b, <2>1, DeviceMethods
  <2>3. /\ frame'[c].device = Touched(devices[x])
        /\ \A b \in Clients \ {c} : frame'[b] = frame[b]
    BY <1>a, <2>1, <2>2, HoldDeviceFrame
  <2>4. UNCHANGED devices
    BY <1>4 DEF TouchDeviceGet, TouchDevice
  <2> QED  BY <1>d, <2>2, <2>3, <2>4
<1>5. ASSUME NEW c \in Clients, UpdateDevice(c)
      PROVE  Stays
  <2> DEFINE x == frame[c].device
  <2>1. devices'[d] = devices[d] \/ (x.id = d /\ devices'[d] = x)
    BY <1>5, StoreDevice
  <2>2. x.id = d => x = devices[d]
    BY <1>5, <1>c DEF UpdateDevice, At
  <2>3. frame'[c].at = "idle" /\ \A b \in Clients \ {c} : frame'[b] = frame[b]
    BY <1>a, <1>5, ReturnFrame DEF UpdateDevice
  <2> HIDE DEF x
  <2> QED  BY <1>d, <2>1, <2>2, <2>3
<1>6. ASSUME NEW c \in Clients,
             \/ CreateStreamGet(c) \/ CreateStreamPut(c)
             \/ TransitionStreamGet(c) \/ UpdateStream(c)
      PROVE  Stays
  <2>1. UNCHANGED devices
    BY <1>6 DEF CreateStreamGet, CreateStreamPut, TransitionStreamGet, UpdateStream
  <2>2. frame'[c].at # "device.update" /\ \A b \in Clients \ {c} : frame'[b] = frame[b]
    <3>1. CASE CreateStreamGet(c) \/ TransitionStreamGet(c)
      BY <1>a, <3>1 DEF CreateStreamGet, TransitionStreamGet, HoldStream
    <3>2. CASE CreateStreamPut(c) \/ UpdateStream(c)
      BY <1>a, <3>2, ReturnFrame DEF CreateStreamPut, UpdateStream
    <3> QED  BY <1>6, <3>1, <3>2
  <2> QED  BY <1>d, <2>1, <2>2
<1> HIDE DEF Stays
<1>7. Stays
  BY <1>1, <1>2, <1>3, <1>4, <1>5, <1>6 DEF Next, vars
<1> QED  BY <1>7 DEF Stays

(* Every step keeps a disabled stream, and the copies of it, as they are.  *)
LEMMA DisabledStreamNext ==
  ASSUME TypeInv, NEW s \in StreamIDs, DisabledForGood(s), [Next]_vars
  PROVE  DisabledForGood(s)' /\ streams'[s] = streams[s]
<1> DEFINE Stays == DisabledForGood(s)' /\ streams'[s] = streams[s]
<1>a. /\ frame \in [Clients -> Frame]
      /\ \A x \in StreamIDs : streams[x] # None => streams[x] \in Stream /\ streams[x].id = x
      /\ \A c \in Clients : Held(frame[c])
  BY DEF TypeInv, TypeOK
<1>b. streams[s] # None /\ streams[s].status = "disabled" /\ StreamAllowed("disabled") = {}
  BY DEF DisabledForGood, StreamAllowed
<1>c. \A c \in Clients : frame[c].at = "stream.update" /\ frame[c].stream.id = s =>
        frame[c].stream = streams[s]
  BY DEF DisabledForGood, At
(* A step that keeps the stream and makes no other copy of it.             *)
<1>d. ASSUME NEW c \in Clients, streams'[s] = streams[s],
             frame'[c].at = "stream.update" /\ frame'[c].stream.id = s =>
               frame'[c].stream = streams[s],
             \A b \in Clients \ {c} : frame'[b] = frame[b]
      PROVE  Stays
  BY <1>d DEF DisabledForGood, At
<1>1. ASSUME UNCHANGED <<streams, frame>>
      PROVE  Stays
  BY <1>1 DEF DisabledForGood, At
<1>2. ASSUME NEW c \in Clients,
             CreateDevice(c) \/ TransitionDeviceGet(c) \/ TouchDeviceGet(c) \/ UpdateDevice(c)
      PROVE  Stays
  <2>1. UNCHANGED streams
    BY <1>2 DEF CreateDevice, TransitionDeviceGet, TouchDeviceGet, TouchDevice, UpdateDevice
  <2>2. /\ frame'[c] = frame[c] \/ frame'[c].at # "stream.update"
        /\ \A b \in Clients \ {c} : frame'[b] = frame[b]
    <3>1. CASE CreateDevice(c)
      BY <3>1 DEF CreateDevice
    <3>2. CASE TransitionDeviceGet(c) \/ TouchDeviceGet(c)
      BY <1>a, <3>2 DEF TransitionDeviceGet, TouchDeviceGet, TouchDevice, HoldDevice
    <3>3. CASE UpdateDevice(c)
      BY <1>a, <3>3, ReturnFrame DEF UpdateDevice
    <3> QED  BY <1>2, <3>1, <3>2, <3>3
  <2> QED  BY <1>c, <1>d, <2>1, <2>2
<1>3. ASSUME NEW c \in Clients, CreateStreamGet(c)
      PROVE  Stays
  <2>1. frame'[c].at = "stream.put" /\ \A b \in Clients \ {c} : frame'[b] = frame[b]
    BY <1>a, <1>3 DEF CreateStreamGet, HoldStream
  <2>2. UNCHANGED streams
    BY <1>3 DEF CreateStreamGet
  <2> QED  BY <1>d, <2>1, <2>2
<1>4. ASSUME NEW c \in Clients, CreateStreamPut(c)
      PROVE  Stays
  <2>1. streams'[s] = streams[s]
    BY <1>4, <1>b, StoreStream
  <2>2. frame'[c].at = "idle" /\ \A b \in Clients \ {c} : frame'[b] = frame[b]
    BY <1>a, <1>4, ReturnFrame DEF CreateStreamPut
  <2> QED  BY <1>d, <2>1, <2>2
<1>5. ASSUME NEW c \in Clients, TransitionStreamGet(c)
      PROVE  Stays
  <2>1. PICK x \in StreamIDs, t \in StreamStatus :
          /\ streams[x] # None
          /\ t = streams[x].status \/ t \in StreamAllowed(streams[x].status)
          /\ HoldStream(c, "stream.update", Moved(streams[x], t))
    BY <1>5 DEF TransitionStreamGet
  <2>2. Moved(streams[x], t) \in Stream /\ Moved(streams[x], t).id = x
    BY <1>a, <2>1, StreamMethods
  <2>3. x = s => Moved(streams[x], t) = streams[s]
    BY <1>b, <2>1 DEF Moved
  <2>4. /\ frame'[c].stream = Moved(streams[x], t)
        /\ \A b \in Clients \ {c} : frame'[b] = frame[b]
    BY <1>a, <2>1, <2>2, HoldStreamFrame
  <2>5. UNCHANGED streams
    BY <1>5 DEF TransitionStreamGet
  <2> QED  BY <1>d, <2>2, <2>3, <2>4, <2>5
<1>6. ASSUME NEW c \in Clients, UpdateStream(c)
      PROVE  Stays
  <2> DEFINE x == frame[c].stream
  <2>1. streams'[s] = streams[s] \/ (x.id = s /\ streams'[s] = x)
    BY <1>6, StoreStream
  <2>2. x.id = s => x = streams[s]
    BY <1>6, <1>c DEF UpdateStream, At
  <2>3. frame'[c].at = "idle" /\ \A b \in Clients \ {c} : frame'[b] = frame[b]
    BY <1>a, <1>6, ReturnFrame DEF UpdateStream
  <2> HIDE DEF x
  <2> QED  BY <1>d, <2>1, <2>2, <2>3
<1> HIDE DEF Stays
<1>7. Stays
  BY <1>1, <1>2, <1>3, <1>4, <1>5, <1>6 DEF Next, vars
<1> QED  BY <1>7 DEF Stays

(* Once a device is retired or a stream disabled, and no call is about to  *)
(* write another copy of it, nothing changes it any more (domain/device.go,*)
(* stream.go, service/telemetry.go): it comes back only through a call     *)
(* that read it before.                                                    *)
THEOREM FinalRecordsStay == Spec => FinalStays
<1>1. TypeInv /\ [Next]_vars =>
        [/\ \A d \in DeviceIDs :
              RetiredForGood(d) => RetiredForGood(d)' /\ devices'[d] = devices[d]
         /\ \A s \in StreamIDs :
              DisabledForGood(s) => DisabledForGood(s)' /\ streams'[s] = streams[s]]_vars
  BY RetiredDeviceNext, DisabledStreamNext
<1> QED  BY <1>1, TypeInvariant, PTL DEF Spec, FinalStays
=============================================================================
