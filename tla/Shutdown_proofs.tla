-------------------------- MODULE Shutdown_proofs --------------------------
(***************************************************************************)
(* Proofs about Shutdown, for any numbers of requests, workers, streams,   *)
(* topics, events and jobs, any capacity of a channel and both settings of *)
(* DropWhenFull.  First the event bus alone: it never sends on a closed    *)
(* channel, and delivers the events of a publisher in their order.  Then   *)
(* the process: it runs the bus and the job queue as their modules         *)
(* describe them, and closes the bus after the last worker has ended.      *)
(***************************************************************************)
EXTENDS Shutdown, TLAPS

(* Only a handler that has subscribed has an entry or a closed channel,    *)
(* and only Bus.Close closes the channel of one that has not ended.        *)
HandlersOwnChannels ==
  /\ \A s \in Streams : handler[s] = "begin" => s \notin subs /\ s \notin shut
  /\ \A s \in shut : handler[s] # "end" => closed

(* The mutex is lost only after Bus.Close.                                 *)
LostAfterClose == lost => closed

(* Ids are given out once, so an event that is published later has a       *)
(* greater one.                                                            *)
IdsBounded ==
  /\ \A s \in Streams, p \in Publishers : last[s][p] <= nextID
  /\ \A s \in Streams : \A i \in DOMAIN channel[s] : channel[s][i].id <= nextID
  /\ \A p \in Publishers : emitting[p] # None =>
       emitting[p].event.id <= nextID /\ emitting[p].event.from = p

(* Handler s has got everything that p has published, up to the event e.   *)
Before(s, p, e) ==
  /\ last[s][p] < e.id
  /\ \A i \in DOMAIN channel[s] : channel[s][i].from = p => channel[s][i].id < e.id

(* What a publisher has yet to send comes after what it has sent.          *)
SentBefore ==
  \A p \in Publishers : emitting[p] # None =>
    \A s \in Streams : emitting[p].todo = {} \/ s \in emitting[p].todo =>
      Before(s, p, emitting[p].event)

BInv ==
  /\ BusTypeOK /\ NoSendOnClosed /\ HandlersOwnChannels /\ LostAfterClose
  /\ InOrder /\ IdsBounded /\ SentBefore
-----------------------------------------------------------------------------
LEMMA Updated ==
  ASSUME NEW S, NEW T, NEW f \in [S -> T], NEW x \in S, NEW v \in T
  PROVE  [f EXCEPT ![x] = v] \in [S -> T]
OBVIOUS

LEMMA Initially == BusInit => BInv
<1> SUFFICES ASSUME BusInit PROVE BInv
  OBVIOUS
<1>1. BusTypeOK
  <2>1. channel \in [Streams -> Seq(Event)] /\ \A s \in Streams : Len(channel[s]) <= Capacity
    BY BusAssumption DEF BusAssumption, BusInit
  <2>2. /\ nextID \in Nat /\ closed \in BOOLEAN /\ lost \in BOOLEAN
        /\ subs \subseteq Streams /\ shut \subseteq Streams
        /\ handler \in [Streams -> Labels]
    BY DEF BusInit, Labels
  <2>3. emitting \in [Publishers -> Emission \cup {None}]
        /\ last \in [Streams -> [Publishers -> Nat]]
    BY DEF BusInit
  <2> QED  BY <2>1, <2>2, <2>3 DEF BusTypeOK
<1>2. NoSendOnClosed /\ HandlersOwnChannels /\ LostAfterClose /\ SentBefore
  BY DEF BusInit, NoSendOnClosed, HandlersOwnChannels, LostAfterClose, SentBefore
<1>3. InOrder /\ IdsBounded
  BY DEF BusInit, InOrder, IdsBounded
<1> QED  BY <1>1, <1>2, <1>3 DEF BInv

(* What channels and publishers hold are events.                           *)
LEMMA Events ==
  ASSUME BusTypeOK
  PROVE  /\ \A s \in Streams : \A i \in DOMAIN channel[s] :
              /\ channel[s][i] \in Event
              /\ channel[s][i].id \in Nat /\ channel[s][i].from \in Publishers
         /\ \A p \in Publishers : emitting[p] # None =>
              /\ emitting[p] \in Emission /\ emitting[p].event \in Event
              /\ emitting[p].event.id \in Nat /\ emitting[p].todo \subseteq Streams
         /\ \A s \in Streams, p \in Publishers : last[s][p] \in Nat
<1>1. ASSUME NEW s \in Streams, NEW i \in DOMAIN channel[s] PROVE channel[s][i] \in Event
  <2>1. channel[s] \in Seq(Event)
    BY DEF BusTypeOK
  <2> QED  BY <2>1
<1>2. ASSUME NEW p \in Publishers, emitting[p] # None PROVE emitting[p] \in Emission
  BY <1>2 DEF BusTypeOK
<1>3. \A s \in Streams, p \in Publishers : last[s][p] \in Nat
  BY DEF BusTypeOK
<1> QED  BY <1>1, <1>2, <1>3 DEF Emission, Event

(* App.emit takes an id that no event has.                                 *)
LEMMA EmitStep ==
  ASSUME BInv, NEW p \in Publishers, NewEvent(p) PROVE BInv'
<1> USE DEF BInv, NewEvent
<1>1. PICK t \in Topics :
        emitting' = [emitting EXCEPT ![p] =
          [event |-> [id |-> nextID + 1, from |-> p, topic |-> t], todo |-> {}]]
  OBVIOUS
<1>2. nextID \in Nat /\ nextID' = nextID + 1
  BY DEF BusTypeOK
<1>3. emitting' \in [Publishers -> Emission \cup {None}]
  <2> DEFINE x == [event |-> [id |-> nextID + 1, from |-> p, topic |-> t], todo |-> {}]
  <2>1. x \in Emission
    BY <1>2 DEF Emission, Event
  <2> QED  BY <1>1, <2>1 DEF BusTypeOK
<1>4. BusTypeOK'
  BY <1>2, <1>3 DEF BusTypeOK
<1>5. NoSendOnClosed' /\ HandlersOwnChannels' /\ LostAfterClose' /\ InOrder'
  BY <1>1 DEF BusTypeOK, NoSendOnClosed, HandlersOwnChannels, LostAfterClose, InOrder
<1>6. IdsBounded'
  <2>1. \A q \in Publishers : emitting'[q] # None =>
          emitting'[q].event.id <= nextID' /\ emitting'[q].event.from = q
    <3> SUFFICES ASSUME NEW q \in Publishers, emitting'[q] # None
                 PROVE  emitting'[q].event.id <= nextID' /\ emitting'[q].event.from = q
      OBVIOUS
    <3>1. CASE q = p
      BY <1>1, <1>2, <3>1 DEF BusTypeOK
    <3>2. CASE q # p
      <4>1. emitting'[q] = emitting[q] /\ emitting[q] \in Emission
        BY <1>1, <3>2 DEF BusTypeOK
      <4>2. emitting[q].event.id <= nextID /\ emitting[q].event.from = q
            /\ emitting[q].event.id \in Nat
        BY <4>1 DEF IdsBounded, Emission, Event
      <4> QED  BY <4>1, <4>2, <1>2
    <3> QED  BY <3>1, <3>2
  <2>2. /\ \A s \in Streams, q \in Publishers : last[s][q] <= nextID'
        /\ \A s \in Streams : \A i \in DOMAIN channel[s] : channel[s][i].id <= nextID'
    BY <1>2, Events DEF IdsBounded
  <2> QED  BY <2>1, <2>2 DEF IdsBounded
<1>7. SentBefore'
  <2> SUFFICES ASSUME NEW q \in Publishers, emitting'[q] # None, NEW s \in Streams,
                      emitting'[q].todo = {} \/ s \in emitting'[q].todo
               PROVE  Before(s, q, emitting[q].event)'
    BY DEF SentBefore
  <2>0. UNCHANGED <<last, channel>>
    OBVIOUS
  <2>1. CASE q = p
    <3>1. emitting'[q].event.id = nextID + 1
      BY <1>1, <2>1 DEF BusTypeOK
    <3>2. last[s][q] \in Nat /\ last[s][q] <= nextID
      BY DEF IdsBounded, BusTypeOK
    <3>3. \A i \in DOMAIN channel[s] : channel[s][i].id \in Nat /\ channel[s][i].id <= nextID
      BY Events DEF IdsBounded
    <3> QED  BY <1>2, <2>0, <3>1, <3>2, <3>3 DEF Before
  <2>2. CASE q # p
    <3>1. emitting'[q] = emitting[q]
      BY <1>1, <2>2 DEF BusTypeOK
    <3>2. Before(s, q, emitting[q].event)
      BY <3>1 DEF SentBefore
    <3> QED  BY <2>0, <3>1, <3>2 DEF Before
  <2> QED  BY <2>1, <2>2
<1> QED  BY <1>4, <1>5, <1>6, <1>7

(* SendTo changes whom p has yet to send its event to, and nobody else.    *)
LEMMA Targets ==
  ASSUME BInv, NEW p \in Publishers, emitting[p] # None, NEW targets \in SUBSET Streams,
         SendTo(p, targets)
  PROVE  /\ emitting' \in [Publishers -> Emission \cup {None}]
         /\ \A q \in Publishers \ {p} : emitting'[q] = emitting[q]
         /\ emitting'[p] # None =>
              /\ emitting'[p].event = emitting[p].event
              /\ emitting'[p].todo = targets /\ targets # {}
<1> DEFINE x == [event |-> emitting[p].event, todo |-> targets]
<1>1. x \in Emission
  BY Events DEF BInv, Emission
<1>2. emitting' = [emitting EXCEPT ![p] = IF targets = {} THEN None ELSE x]
  BY DEF SendTo
<1>3. x.event = emitting[p].event /\ x.todo = targets
  OBVIOUS
<1> HIDE DEF x
<1> QED  BY <1>1, <1>2, <1>3 DEF BInv, BusTypeOK

(* Publish begins with the subscribers of the event's topic.               *)
LEMMA LockStep ==
  ASSUME BInv, NEW p \in Publishers, PublishLock(p) PROVE BInv'
<1> DEFINE targets == IF closed THEN {} ELSE {s \in subs : Wants(s, emitting[p].event)}
<1>1. targets \subseteq subs /\ targets \subseteq Streams
  BY DEF BInv, BusTypeOK
<1>2. emitting[p] # None /\ emitting[p].todo = {} /\ SendTo(p, targets)
      /\ UNCHANGED <<nextID, closed, subs, lost, channel, shut, handler, last>>
  BY DEF PublishLock
<1> HIDE DEF targets
<1>3. /\ emitting' \in [Publishers -> Emission \cup {None}]
      /\ \A q \in Publishers \ {p} : emitting'[q] = emitting[q]
      /\ emitting'[p] # None =>
              /\ emitting'[p].event = emitting[p].event
              /\ emitting'[p].todo = targets /\ targets # {}
  BY <1>1, <1>2, Targets
<1>4. BusTypeOK' /\ NoSendOnClosed' /\ HandlersOwnChannels' /\ LostAfterClose' /\ InOrder'
  BY <1>1, <1>2, <1>3
     DEF BInv, BusTypeOK, NoSendOnClosed, HandlersOwnChannels, LostAfterClose, InOrder
<1>5. IdsBounded'
  BY <1>2, <1>3 DEF BInv, IdsBounded
<1>6. ASSUME NEW q \in Publishers, emitting'[q] # None, NEW s \in Streams,
             emitting'[q].todo = {} \/ s \in emitting'[q].todo
      PROVE  Before(s, q, emitting[q].event)'
  <2>1. emitting'[q].event = emitting[q].event /\ emitting[q] # None
    BY <1>2, <1>3, <1>6
  <2>2. Before(s, q, emitting[q].event)
    BY <1>2, <1>3, <1>6, <2>1 DEF BInv, SentBefore
  <2> QED  BY <1>2, <2>1, <2>2 DEF Before
<1> QED  BY <1>4, <1>5, <1>6 DEF BInv, SentBefore

(* An event that is sent is greater than what its publisher sent before.   *)
LEMMA SendStep ==
  ASSUME BInv, NEW p \in Publishers, PublishSend(p) PROVE BInv'
<1>1. PICK s \in emitting[p].todo :
        /\ \/ Room(s) /\ channel' = [channel EXCEPT ![s] = Enqueue(channel[s], emitting[p].event)]
           \/ UNCHANGED channel
        /\ SendTo(p, emitting[p].todo \ {s})
  BY DEF PublishSend
<1>2. emitting[p] # None /\ UNCHANGED <<nextID, closed, subs, lost, shut, handler, last>>
  BY DEF PublishSend
<1> DEFINE e == emitting[p].event
<1>3. /\ e \in Event /\ e.id \in Nat /\ e.from = p /\ e.id <= nextID
      /\ emitting[p].todo \subseteq Streams /\ s \in Streams
  BY <1>1, <1>2, Events DEF BInv, IdsBounded
<1>4. /\ emitting' \in [Publishers -> Emission \cup {None}]
      /\ \A q \in Publishers \ {p} : emitting'[q] = emitting[q]
      /\ emitting'[p] # None =>
              /\ emitting'[p].event = e
              /\ emitting'[p].todo = emitting[p].todo \ {s} /\ emitting'[p].todo # {}
  BY <1>1, <1>2, <1>3, Targets
<1>5. Before(s, p, e)
  BY <1>1, <1>2, <1>3 DEF BInv, SentBefore
<1>6. CASE UNCHANGED channel
  <2>1. BusTypeOK' /\ NoSendOnClosed' /\ HandlersOwnChannels' /\ LostAfterClose' /\ InOrder'
    BY <1>2, <1>4, <1>6
       DEF BInv, BusTypeOK, NoSendOnClosed, HandlersOwnChannels, LostAfterClose, InOrder
  <2>2. IdsBounded'
    BY <1>2, <1>4, <1>6 DEF BInv, IdsBounded
  <2>3. SentBefore'
    BY <1>2, <1>4, <1>6 DEF BInv, SentBefore, Before
  <2> QED  BY <2>1, <2>2, <2>3 DEF BInv
<1>7. CASE Room(s) /\ channel' = [channel EXCEPT ![s] = Append(channel[s], e)]
  <2> DEFINE n == Len(channel[s])
  <2>1. /\ channel[s] \in Seq(Event) /\ n \in Nat /\ n < Capacity
        /\ DOMAIN channel[s] = 1..n
    BY <1>3, <1>7 DEF BInv, BusTypeOK, Room
  <2>2. channel'[s] = Append(channel[s], e) /\ \A r \in Streams \ {s} : channel'[r] = channel[r]
    BY <1>3, <1>7 DEF BInv, BusTypeOK
  <2>3. /\ channel'[s] \in Seq(Event) /\ Len(channel'[s]) = n + 1
        /\ DOMAIN channel'[s] = 1..n + 1 /\ channel'[s][n + 1] = e
        /\ \A i \in 1..n : channel'[s][i] = channel[s][i]
    BY <2>1, <2>2, <1>3
  <2>4. Capacity \in Nat
    BY BusAssumption DEF BusAssumption
  <2>5. BusTypeOK'
    <3>1. channel' \in [Streams -> Seq(Event)]
      <4>1. channel \in [Streams -> Seq(Event)]
        BY DEF BInv, BusTypeOK
      <4>2. Append(channel[s], e) \in Seq(Event)
        BY <2>2, <2>3
      <4> HIDE DEF e
      <4> QED  BY <1>3, <1>7, <4>1, <4>2, Updated, Zenon
    <3>2. \A r \in Streams : Len(channel'[r]) <= Capacity
      <4>1. ASSUME NEW r \in Streams PROVE Len(channel'[r]) <= Capacity
        <5>1. CASE r = s
          BY <2>1, <2>3, <2>4, <5>1
        <5>2. CASE r # s
          BY <2>2, <5>2 DEF BInv, BusTypeOK
        <5> QED  BY <5>1, <5>2
      <4> QED  BY <4>1
    <3> QED  BY <1>2, <1>4, <3>1, <3>2 DEF BInv, BusTypeOK
  <2>6. NoSendOnClosed' /\ HandlersOwnChannels' /\ LostAfterClose'
    BY <1>2, <1>4 DEF BInv, NoSendOnClosed, HandlersOwnChannels, LostAfterClose
  <2>7. InOrder'
    <3>1. ASSUME NEW r \in Streams, NEW i \in DOMAIN channel'[r]
          PROVE  /\ last'[r][channel'[r][i].from] < channel'[r][i].id
                 /\ \A j \in DOMAIN channel'[r] :
                      i < j /\ channel'[r][i].from = channel'[r][j].from =>
                        channel'[r][i].id < channel'[r][j].id
      <4>1. CASE r # s
        BY <1>2, <2>2, <3>1, <4>1 DEF BInv, InOrder
      <4>2. CASE r = s
        <5>1. CASE i = n + 1
          BY <1>2, <1>3, <1>5, <2>1, <2>3, <3>1, <4>2, <5>1 DEF Before
        <5>2. CASE i # n + 1
          <6>1. i \in 1..n /\ channel'[s][i] = channel[s][i]
            BY <2>1, <2>3, <3>1, <4>2, <5>2
          <6>2. last[s][channel[s][i].from] < channel[s][i].id
            BY <1>3, <2>1, <6>1 DEF BInv, InOrder
          <6>3. ASSUME NEW j \in 1..n + 1, i < j, channel'[s][i].from = channel'[s][j].from
                PROVE  channel'[s][i].id < channel'[s][j].id
            <7>1. CASE j = n + 1
              BY <1>3, <1>5, <2>1, <2>3, <6>1, <6>3, <7>1 DEF Before
            <7>2. CASE j # n + 1
              <8>1. j \in 1..n /\ channel'[s][j] = channel[s][j]
                BY <2>1, <2>3, <6>3, <7>2
              <8> QED  BY <1>3, <2>1, <6>1, <6>3, <8>1 DEF BInv, InOrder
            <7> QED  BY <7>1, <7>2
          <6> QED  BY <1>2, <2>3, <4>2, <6>1, <6>2, <6>3
        <5> QED  BY <5>1, <5>2
      <4> QED  BY <4>1, <4>2
    <3> QED  BY <3>1 DEF InOrder
  <2>8. IdsBounded'
    <3>1. ASSUME NEW r \in Streams, NEW i \in DOMAIN channel'[r]
          PROVE  channel'[r][i].id <= nextID
      <4>1. \A q \in Streams : \A j \in DOMAIN channel[q] : channel[q][j].id <= nextID
        BY DEF BInv, IdsBounded
      <4>2. CASE r # s
        BY <2>2, <3>1, <4>1, <4>2
      <4>3. CASE r = s
        <5>1. CASE i = n + 1
          BY <1>3, <2>1, <2>3, <4>3, <5>1
        <5>2. CASE i # n + 1
          <6>1. i \in 1..n /\ channel'[s][i] = channel[s][i] /\ i \in DOMAIN channel[s]
            BY <2>1, <2>3, <3>1, <4>3, <5>2
          <6> QED  BY <4>1, <4>3, <6>1
        <5> QED  BY <5>1, <5>2
      <4> QED  BY <4>2, <4>3
    <3> QED  BY <1>2, <1>4, <3>1 DEF BInv, IdsBounded
  <2>9. SentBefore'
    <3> SUFFICES ASSUME NEW q \in Publishers, emitting'[q] # None, NEW r \in Streams,
                        emitting'[q].todo = {} \/ r \in emitting'[q].todo
                 PROVE  Before(r, q, emitting[q].event)'
      BY DEF SentBefore
    <3>1. /\ emitting'[q].event = emitting[q].event /\ emitting[q] # None
          /\ q = p => r # s
      BY <1>2, <1>4
    <3>2. Before(r, q, emitting[q].event)
      BY <1>4, <3>1 DEF BInv, SentBefore
    <3>3. CASE r # s
      BY <1>2, <2>2, <3>1, <3>2, <3>3 DEF Before
    <3>4. CASE r = s
      <4> DEFINE f == emitting[q].event
      <4>1. /\ q # p => Before(s, q, f) /\ e.from # q
            /\ q = p => FALSE
        BY <1>3, <3>1, <3>2, <3>4
      <4>2. \A i \in 1..n + 1 : channel'[s][i].from = q => channel'[s][i].id < f.id
        <5>1. ASSUME NEW i \in 1..n + 1, channel'[s][i].from = q
              PROVE  channel'[s][i].id < f.id
          <6>1. i \in 1..n /\ channel'[s][i] = channel[s][i]
            BY <2>1, <2>3, <4>1, <5>1
          <6> QED  BY <2>1, <4>1, <5>1, <6>1 DEF Before
        <5> QED  BY <5>1
      <4>3. last'[s][q] < f.id
        BY <1>2, <4>1 DEF Before
      <4>4. emitting'[q].event = f
        BY <3>1
      <4> HIDE DEF f
      <4> QED  BY <2>3, <3>4, <4>2, <4>3, <4>4 DEF Before
    <3> QED  BY <3>3, <3>4
  <2> QED  BY <2>5, <2>6, <2>7, <2>8, <2>9 DEF BInv
<1> QED  BY <1>1, <1>6, <1>7 DEF Enqueue

(* Subscribe finds a handler without an entry and without a closed channel.*)
LEMMA SubscribeStep ==
  ASSUME BInv, NEW s \in Streams, Subscribe(s) PROVE BInv'
<1>1. /\ handler[s] = "begin" /\ \A p \in Publishers : emitting[p] # None => emitting[p].todo = {}
      /\ UNCHANGED <<closed, lost, channel, shut, emitting, last>>
      /\ nextID \in Nat /\ nextID' \in {nextID, nextID + 1}
      /\ \/ handler' = [handler EXCEPT ![s] = "end"] /\ subs' = subs
         \/ handler' = [handler EXCEPT ![s] = "receive"] /\ subs' = subs \cup {s}
  BY DEF BInv, BusTypeOK, Subscribe, CanWrite
<1>2. BusTypeOK' /\ HandlersOwnChannels'
  <2>1. handler' \in [Streams -> Labels]
    BY <1>1 DEF BInv, BusTypeOK, Labels
  <2>2. subs' \subseteq Streams /\ nextID' \in Nat
    BY <1>1 DEF BInv, BusTypeOK
  <2>3. BusTypeOK'
    BY <1>1, <2>1, <2>2 DEF BInv, BusTypeOK
  <2>4. handler'[s] # "begin" /\ s \notin shut
        /\ \A r \in Streams \ {s} : handler'[r] = handler[r] /\ (r \in subs' => r \in subs)
    BY <1>1 DEF BInv, BusTypeOK, HandlersOwnChannels
  <2>5. HandlersOwnChannels'
    BY <1>1, <2>4 DEF BInv, BusTypeOK, HandlersOwnChannels
  <2> QED  BY <2>3, <2>5
<1>3. NoSendOnClosed' /\ LostAfterClose' /\ InOrder' /\ SentBefore'
  BY <1>1
     DEF BInv, NoSendOnClosed, HandlersOwnChannels, LostAfterClose, InOrder, SentBefore, Before
<1>4. IdsBounded'
  BY <1>1, Events DEF BInv, IdsBounded
<1> QED  BY <1>2, <1>3, <1>4 DEF BInv

(* What a handler receives is greater than what it has received from the   *)
(* same publisher, and less than what is still in its channel.             *)
LEMMA ReceiveStep ==
  ASSUME BInv, NEW s \in Streams, Receive(s) PROVE BInv'
<1> DEFINE e == Head(channel[s])
           n == Len(channel[s])
<1>1. /\ channel[s] # <<>> /\ handler[s] = "receive"
      /\ channel' = [channel EXCEPT ![s] = Tail(channel[s])]
      /\ last' = [last EXCEPT ![s] = [last[s] EXCEPT ![e.from] = e.id]]
      /\ handler' = [handler EXCEPT ![s] = "write"]
      /\ UNCHANGED <<nextID, closed, subs, lost, shut, emitting>>
  BY DEF Receive
<1>2. /\ channel[s] \in Seq(Event) /\ n \in Nat /\ n >= 1 /\ n <= Capacity
      /\ DOMAIN channel[s] = 1..n /\ e = channel[s][1]
  BY <1>1 DEF BInv, BusTypeOK
<1>3. /\ channel'[s] \in Seq(Event) /\ Len(channel'[s]) = n - 1
      /\ DOMAIN channel'[s] = 1..n - 1
      /\ \A i \in 1..n - 1 : channel'[s][i] = channel[s][i + 1]
      /\ \A r \in Streams \ {s} : channel'[r] = channel[r]
  <2>1. channel'[s] = Tail(channel[s]) /\ \A r \in Streams \ {s} : channel'[r] = channel[r]
    BY <1>1 DEF BInv, BusTypeOK
  <2> QED  BY <1>2, <2>1
<1>4. e \in Event /\ e.id \in Nat /\ e.from \in Publishers /\ e.id <= nextID
  <2>1. 1 \in DOMAIN channel[s]
    BY <1>2
  <2> QED  BY <1>2, <2>1, Events DEF BInv, IdsBounded
<1>5. /\ last' \in [Streams -> [Publishers -> Nat]]
      /\ last'[s] = [last[s] EXCEPT ![e.from] = e.id]
      /\ last'[s][e.from] = e.id
      /\ \A p \in Publishers \ {e.from} : last'[s][p] = last[s][p]
      /\ \A r \in Streams \ {s} : last'[r] = last[r]
  <2>1. last \in [Streams -> [Publishers -> Nat]]
    BY DEF BInv, BusTypeOK
  <2> HIDE DEF e
  <2> QED  BY <1>1, <1>4, <2>1
<1> HIDE DEF e, n
<1>6. BusTypeOK'
  <2>1. channel' \in [Streams -> Seq(Event)]
    BY <1>1, <1>3 DEF BInv, BusTypeOK
  <2>2. Capacity \in Nat
    BY BusAssumption DEF BusAssumption
  <2>3. \A r \in Streams : Len(channel'[r]) <= Capacity
    <3>1. ASSUME NEW r \in Streams PROVE Len(channel'[r]) <= Capacity
      <4>1. CASE r = s
        BY <1>2, <1>3, <2>2, <4>1
      <4>2. CASE r # s
        BY <1>3, <4>2 DEF BInv, BusTypeOK
      <4> QED  BY <4>1, <4>2
    <3> QED  BY <3>1
  <2> QED  BY <1>1, <1>5, <2>1, <2>3 DEF BInv, BusTypeOK, Labels
<1>7. NoSendOnClosed' /\ HandlersOwnChannels' /\ LostAfterClose'
  BY <1>1 DEF BInv, BusTypeOK, NoSendOnClosed, HandlersOwnChannels, LostAfterClose
<1>8. InOrder'
  <2>1. ASSUME NEW r \in Streams, NEW i \in DOMAIN channel'[r]
        PROVE  /\ last'[r][channel'[r][i].from] < channel'[r][i].id
               /\ \A j \in DOMAIN channel'[r] :
                    i < j /\ channel'[r][i].from = channel'[r][j].from =>
                      channel'[r][i].id < channel'[r][j].id
    <3>1. CASE r # s
      BY <1>3, <1>5, <2>1, <3>1 DEF BInv, InOrder
    <3>2. CASE r = s
      <4>1. /\ i \in 1..n - 1 /\ i + 1 \in 1..n /\ 1 \in 1..n /\ 1 < i + 1
            /\ channel'[s][i] = channel[s][i + 1]
        <5>1. i \in 1..n - 1
          BY <1>3, <2>1, <3>2
        <5> QED  BY <1>2, <1>3, <5>1
      <4>2. channel[s][i + 1].from \in Publishers
        BY <1>2, <4>1, Events DEF BInv
      <4>3. last'[s][channel[s][i + 1].from] < channel[s][i + 1].id
        <5>1. CASE channel[s][i + 1].from = e.from
          <6>1. channel[s][1].id < channel[s][i + 1].id
            BY <1>2, <4>1, <5>1 DEF BInv, InOrder
          <6> QED  BY <1>2, <1>5, <5>1, <6>1
        <5>2. CASE channel[s][i + 1].from # e.from
          BY <1>2, <1>5, <4>1, <4>2, <5>2 DEF BInv, InOrder
        <5> QED  BY <5>1, <5>2
      <4>4. ASSUME NEW j \in 1..n - 1, i < j, channel'[s][i].from = channel'[s][j].from
            PROVE  channel'[s][i].id < channel'[s][j].id
        <5>1. j + 1 \in 1..n /\ i + 1 < j + 1 /\ channel'[s][j] = channel[s][j + 1]
          BY <1>2, <1>3, <4>1, <4>4
        <5> QED  BY <1>2, <4>1, <4>4, <5>1 DEF BInv, InOrder
      <4> QED  BY <1>3, <3>2, <4>1, <4>3, <4>4
    <3> QED  BY <3>1, <3>2
  <2> QED  BY <2>1 DEF InOrder
<1>9. IdsBounded'
  <2>1. ASSUME NEW r \in Streams, NEW i \in DOMAIN channel'[r] PROVE channel'[r][i].id <= nextID
    <3>1. CASE r # s
      BY <1>3, <2>1, <3>1 DEF BInv, IdsBounded
    <3>2. CASE r = s
      <4>1. i + 1 \in 1..n /\ channel'[s][i] = channel[s][i + 1]
        BY <1>2, <1>3, <2>1, <3>2
      <4> QED  BY <1>2, <3>2, <4>1 DEF BInv, IdsBounded
    <3> QED  BY <3>1, <3>2
  <2>2. ASSUME NEW r \in Streams, NEW p \in Publishers PROVE last'[r][p] <= nextID
    BY <1>4, <1>5 DEF BInv, IdsBounded
  <2> QED  BY <1>1, <2>1, <2>2 DEF BInv, IdsBounded
<1>10. SentBefore'
  <2> SUFFICES ASSUME NEW p \in Publishers, emitting'[p] # None, NEW r \in Streams,
                      emitting'[p].todo = {} \/ r \in emitting'[p].todo
               PROVE  Before(r, p, emitting[p].event)'
    BY DEF SentBefore
  <2>1. emitting'[p] = emitting[p] /\ Before(r, p, emitting[p].event)
    BY <1>1 DEF BInv, SentBefore
  <2>2. CASE r # s
    BY <1>3, <1>5, <2>1, <2>2 DEF Before
  <2>3. CASE r = s
    <3> DEFINE f == emitting[p].event
    <3>1. \A i \in 1..n : channel[s][i].from = p => channel[s][i].id < f.id
      BY <1>2, <2>1, <2>3 DEF Before
    <3>2. \A i \in 1..n - 1 : channel'[s][i].from = p => channel'[s][i].id < f.id
      <4>1. \A i \in 1..n - 1 : i + 1 \in 1..n /\ channel'[s][i] = channel[s][i + 1]
        BY <1>2, <1>3
      <4> QED  BY <3>1, <4>1
    <3>3. last'[s][p] < f.id
      <4>1. CASE p = e.from
        BY <1>2, <1>5, <3>1, <4>1, SMTT(20)
      <4>2. CASE p # e.from
        BY <1>5, <2>1, <2>3, <4>2 DEF Before
      <4> QED  BY <4>1, <4>2
    <3>4. emitting'[p].event = f
      BY <2>1
    <3> HIDE DEF f
    <3> QED  BY <1>3, <2>3, <3>2, <3>3, <3>4 DEF Before
  <2> QED  BY <2>2, <2>3
<1> QED  BY <1>6, <1>7, <1>8, <1>9, <1>10 DEF BInv

(* A handler that goes on without its channel.                             *)
LEMMA HandlerStep ==
  ASSUME BInv, NEW s \in Streams, ReceiveClosed(s) \/ Disconnect(s) \/ Write(s) PROVE BInv'
<1>1. /\ handler[s] \in {"receive", "write"}
      /\ \E l \in {"receive", "close"} : handler' = [handler EXCEPT ![s] = l]
      /\ UNCHANGED <<nextID, closed, subs, lost, channel, shut, emitting, last>>
  BY DEF ReceiveClosed, Disconnect, Write
<1>2. BusTypeOK'
  BY <1>1 DEF BInv, BusTypeOK, Labels
<1>3. \A r \in Streams :
        \/ handler'[r] = handler[r]
        \/ handler[r] \in {"receive", "write"} /\ handler'[r] \in {"receive", "close"}
  BY <1>1 DEF BInv, BusTypeOK
<1>4. HandlersOwnChannels'
  BY <1>1, <1>3 DEF BInv, BusTypeOK, HandlersOwnChannels
<1>5. NoSendOnClosed' /\ LostAfterClose' /\ InOrder' /\ IdsBounded' /\ SentBefore'
  BY <1>1 DEF BInv, NoSendOnClosed, LostAfterClose, InOrder, IdsBounded, SentBefore, Before
<1> QED  BY <1>2, <1>4, <1>5 DEF BInv

(* Both Close methods find that nobody is sending.  A handler closes a     *)
(* closed channel only after Bus.Close.                                    *)
LEMMA CloseSubscriptionStep ==
  ASSUME BInv, NEW s \in Streams, CloseSubscription(s) PROVE BInv'
<1>1. /\ handler[s] = "close" /\ \A p \in Publishers : emitting[p] # None => emitting[p].todo = {}
      /\ subs' = subs \ {s} /\ shut' = shut \cup {s} /\ lost' = (s \in shut)
      /\ handler' = [handler EXCEPT ![s] = "end"]
      /\ UNCHANGED <<nextID, closed, channel, emitting, last>>
  BY DEF CloseSubscription, CanWrite
<1>2. BusTypeOK'
  BY <1>1 DEF BInv, BusTypeOK, Labels
<1>3. HandlersOwnChannels'
  BY <1>1 DEF BInv, BusTypeOK, HandlersOwnChannels
<1>4. LostAfterClose'
  BY <1>1 DEF BInv, HandlersOwnChannels, LostAfterClose
<1>5. NoSendOnClosed' /\ InOrder' /\ IdsBounded' /\ SentBefore'
  BY <1>1 DEF BInv, NoSendOnClosed, InOrder, IdsBounded, SentBefore, Before
<1> QED  BY <1>2, <1>3, <1>4, <1>5 DEF BInv

LEMMA CloseBusStep == ASSUME BInv, CloseBus PROVE BInv'
<1>1. /\ \A p \in Publishers : emitting[p] # None => emitting[p].todo = {}
      /\ closed' = TRUE /\ shut' = shut \cup subs /\ subs' = {}
      /\ UNCHANGED <<nextID, lost, channel, handler, emitting, last>>
  BY DEF CloseBus, CanWrite
<1>2. BusTypeOK'
  BY <1>1 DEF BInv, BusTypeOK
<1>3. HandlersOwnChannels' /\ LostAfterClose'
  BY <1>1 DEF BInv, BusTypeOK, HandlersOwnChannels, LostAfterClose
<1>4. NoSendOnClosed' /\ InOrder' /\ IdsBounded' /\ SentBefore'
  BY <1>1 DEF BInv, NoSendOnClosed, InOrder, IdsBounded, SentBefore, Before
<1> QED  BY <1>2, <1>3, <1>4 DEF BInv
-----------------------------------------------------------------------------
LEMMA StutterStep == ASSUME BInv, UNCHANGED busVars PROVE BInv'
BY DEF BInv, busVars, BusTypeOK, NoSendOnClosed, HandlersOwnChannels, LostAfterClose,
       InOrder, IdsBounded, SentBefore, Before

LEMMA Steps == BInv /\ [BusNext]_busVars => BInv'
<1>1. ASSUME BInv, BusNext PROVE BInv'
  <2>1. ASSUME NEW p \in Publishers, NewEvent(p) \/ Publish(p) PROVE BInv'
    BY <1>1, <2>1, EmitStep, LockStep, SendStep DEF Publish
  <2>2. ASSUME NEW s \in Streams, Subscribe(s) \/ Serve(s) \/ Disconnect(s) PROVE BInv'
    BY <1>1, <2>2, SubscribeStep, ReceiveStep, HandlerStep, CloseSubscriptionStep DEF Serve
  <2>3. CASE CloseBus
    BY <1>1, <2>3, CloseBusStep
  <2> QED  BY <1>1, <2>1, <2>2, <2>3 DEF BusNext
<1> QED  BY <1>1, StutterStep

(* The inductive invariant of the event bus.                               *)
THEOREM BusInvariant == BusSpec => []BInv
BY Initially, Steps, PTL DEF BusSpec

(* Every variable of the bus keeps its type and no channel exceeds its     *)
(* capacity, whatever publishers and handlers do.                          *)
THEOREM BusTypeCorrect == BusSpec => []BusTypeOK
<1>1. BInv => BusTypeOK
  BY DEF BInv
<1> QED  BY <1>1, BusInvariant, PTL

(* Publish never sends to a closed channel, although Subscription.Close    *)
(* and Bus.Close close channels at any time.                               *)
THEOREM NeverSendsOnClosed == BusSpec => []NoSendOnClosed
<1>1. BInv => NoSendOnClosed
  BY DEF BInv
<1> QED  BY <1>1, BusInvariant, PTL

(* A handler of GET /v1/events gets the events of one goroutine in the     *)
(* order of their ids and none of them twice.                              *)
THEOREM DeliveredInOrder == BusSpec => []InOrder
<1>1. BInv => InOrder
  BY DEF BInv
<1> QED  BY <1>1, BusInvariant, PTL
-----------------------------------------------------------------------------
(***************************************************************************)
(* The process.                                                            *)
(***************************************************************************)
(* Whatever the process does, it does with the bus what the bus allows,    *)
(* and likewise with the queue.                                            *)
LEMMA StepsOfParts == Next => [BusNext]_busVars /\ [QueueNext]_queueVars
<1> SUFFICES ASSUME Next PROVE [BusNext]_busVars /\ [QueueNext]_queueVars
  OBVIOUS
<1> USE DEF BusNext, QueueNext
<1>1. CASE Accept
  BY <1>1 DEF Accept
<1>2. ASSUME NEW g \in Handlers, Emit(g) PROVE [BusNext]_busVars /\ [QueueNext]_queueVars
  BY <1>2, ShutdownAssumption DEF Emit, Handlers, ShutdownAssumption
<1>3. ASSUME NEW g \in Handlers, Submit(g) PROVE [BusNext]_busVars /\ [QueueNext]_queueVars
  BY <1>3, ShutdownAssumption DEF Submit, Handlers, ShutdownAssumption
<1>4. ASSUME NEW g \in Handlers, Return(g) PROVE [BusNext]_busVars /\ [QueueNext]_queueVars
  BY <1>4 DEF Return
<1>5. ASSUME NEW g \in Handlers, GoOn(g) PROVE [BusNext]_busVars /\ [QueueNext]_queueVars
  BY <1>5, ShutdownAssumption DEF GoOn, Handlers, ShutdownAssumption
<1>6. ASSUME NEW w \in Workers, Work(w) PROVE [BusNext]_busVars /\ [QueueNext]_queueVars
  BY <1>6 DEF Work
<1>7. ASSUME NEW s \in Streams, Open(s) \/ Stream(s) \/ Leave(s)
      PROVE  [BusNext]_busVars /\ [QueueNext]_queueVars
  BY <1>7 DEF Open, Stream, Leave
<1>8. CASE Signal \/ ServerShutdown \/ Stop \/ BusClose \/ Exit
  BY <1>8 DEF Signal, ServerShutdown, Stop, BusClose, Exit
<1> QED  BY <1>1, <1>2, <1>3, <1>4, <1>5, <1>6, <1>7, <1>8 DEF Next

(* The process implements the event bus and the job queue.                 *)
THEOREM RunsBusAndQueue == Spec => BusSpec /\ QueueSpec
<1>1. Init => BusInit /\ QueueInit
  BY DEF Init
<1>2. [Next]_vars => [BusNext]_busVars /\ [QueueNext]_queueVars
  BY StepsOfParts DEF vars
<1> QED  BY <1>1, <1>2, PTL DEF Spec, BusSpec, QueueSpec

(* Publish never sends to a closed channel while the process shuts down.   *)
THEOREM ProcessNeverSendsOnClosed == Spec => []NoSendOnClosed
BY RunsBusAndQueue, NeverSendsOnClosed, PTL

(* Event streams of the process get each goroutine's events in order.      *)
THEOREM ProcessDeliversInOrder == Spec => []InOrder
BY RunsBusAndQueue, DeliveredInOrder, PTL
-----------------------------------------------------------------------------
(* The bus is closed in the last step of the shutdown, which the workers   *)
(* have ended before.                                                      *)
Order ==
  /\ stage \in {"bus", "done"} => WorkersDone
  /\ closed => stage = "done"

(* A worker that has ended has ended for good.                             *)
LEMMA WorkersStayDone == WorkersDone /\ [QueueNext]_queueVars => WorkersDone'
BY DEF WorkersDone, QueueNext, queueVars, SubmitCheck, SubmitSend, WorkerExit, TakeJob,
       HandlerReturns, StopRunning, StopCancel

LEMMA OrderSteps == Order /\ [Next]_vars => Order'
<1> SUFFICES ASSUME Order, [Next]_vars PROVE Order'
  OBVIOUS
<1>1. WorkersDone => WorkersDone'
  BY WorkersStayDone, StepsOfParts DEF vars
<1>2. CASE UNCHANGED <<stage, closed>>
  BY <1>1, <1>2 DEF Order
<1>3. CASE Signal \/ ServerShutdown \/ Stop
  BY <1>1, <1>3 DEF Order, Signal, ServerShutdown, Stop, Proceed, After, busVars, WorkersDone,
                    queueVars
<1>4. CASE BusClose
  BY <1>1, <1>4 DEF Order, BusClose, Proceed, After
<1>5. ASSUME NEW p, NewEvent(p) \/ Publish(p) PROVE UNCHANGED closed
  BY <1>5 DEF NewEvent, Publish, PublishLock, PublishSend
<1>6. ASSUME NEW s, Subscribe(s) \/ Serve(s) \/ Disconnect(s) PROVE UNCHANGED closed
  BY <1>6 DEF Subscribe, Serve, Receive, ReceiveClosed, Write, CloseSubscription, Disconnect
<1>7. CASE Accept \/ Exit \/ UNCHANGED vars
  BY <1>2, <1>7 DEF Accept, Exit, vars, busVars
<1>8. ASSUME NEW g, Emit(g) \/ Submit(g) \/ Return(g) \/ GoOn(g) PROVE Order'
  BY <1>2, <1>5, <1>8 DEF Emit, Submit, Return, GoOn, procVars, busVars
<1>9. ASSUME NEW g, Work(g) \/ Open(g) \/ Stream(g) \/ Leave(g) PROVE Order'
  BY <1>2, <1>6, <1>9 DEF Work, Open, Stream, Leave, procVars, busVars
<1> QED  BY <1>3, <1>4, <1>7, <1>8, <1>9 DEF Next

THEOREM OrderInvariant == Spec => []Order
<1>1. Init => Order
  BY DEF Init, BusInit, Order
<1> QED  BY <1>1, OrderSteps, PTL DEF Spec

(* No worker runs once the bus may be closed (main.go closes the bus after *)
(* queue.Stop has waited for the workers), so that none can be stuck on    *)
(* the mutex that a handler's second close of its channel takes away.      *)
THEOREM WorkersEnd == Spec => []WorkersEndFirst
<1>1. Order /\ BInv => WorkersEndFirst
  BY DEF Order, BInv, LostAfterClose, WorkersEndFirst
<1> QED  BY <1>1, OrderInvariant, RunsBusAndQueue, BusInvariant, PTL
-----------------------------------------------------------------------------
LEMMA QueueTypeInit == QueueInit => QueueTypeOK
<1> SUFFICES ASSUME QueueInit PROVE QueueTypeOK
  OBVIOUS
<1>1. jobs \in Seq(Nat) /\ Len(jobs) <= Buffer
  BY QueueAssumption DEF QueueAssumption, QueueInit
<1> QED  BY <1>1 DEF QueueInit, QueueTypeOK, Stages

LEMMA QueueTypeSteps == QueueTypeOK /\ [QueueNext]_queueVars => QueueTypeOK'
<1> SUFFICES ASSUME QueueTypeOK, [QueueNext]_queueVars PROVE QueueTypeOK'
  OBVIOUS
<1>1. ASSUME NEW g \in Submitters, SubmitCheck(g) PROVE QueueTypeOK'
  BY <1>1 DEF QueueTypeOK, SubmitCheck
<1>2. ASSUME NEW g \in Submitters, SubmitSend(g) PROVE QueueTypeOK'
  <2>1. submitting[g] \in Nat /\ Buffer \in Nat
    BY <1>2, QueueAssumption DEF QueueTypeOK, SubmitSend, QueueAssumption
  <2>2. jobs' \in Seq(Nat) /\ Len(jobs') <= Buffer
    BY <1>2, <2>1 DEF QueueTypeOK, SubmitSend
  <2>3. submitting' \in [Submitters -> Nat \cup {NoJob}]
    BY <1>2 DEF QueueTypeOK, SubmitSend
  <2> QED  BY <1>2, <2>2, <2>3 DEF QueueTypeOK, SubmitSend
<1>3. ASSUME NEW w \in Workers, WorkerExit(w) \/ HandlerReturns(w) PROVE QueueTypeOK'
  BY <1>3 DEF QueueTypeOK, WorkerExit, HandlerReturns, Stages
<1>4. ASSUME NEW w \in Workers, TakeJob(w) PROVE QueueTypeOK'
  <2>1. jobs' \in Seq(Nat) /\ Len(jobs') <= Buffer
    BY <1>4, QueueAssumption DEF QueueTypeOK, TakeJob, QueueAssumption
  <2>2. worker' \in [Workers -> Stages]
    BY <1>4 DEF QueueTypeOK, TakeJob, Stages
  <2> QED  BY <1>4, <2>1, <2>2 DEF QueueTypeOK, TakeJob
<1>5. CASE StopRunning \/ StopCancel \/ UNCHANGED queueVars
  BY <1>5 DEF QueueTypeOK, StopRunning, StopCancel, queueVars
<1> QED  BY <1>1, <1>2, <1>3, <1>4, <1>5 DEF QueueNext

ProcTypeOK ==
  /\ stage \in {"serve", "server", "running", "cancel", "wait", "bus", "done"}
  /\ accepted \subseteq Requests \cup Streams
  /\ returned \subseteq Requests
  /\ exited \in BOOLEAN

LEMMA ProcTypeSteps == ProcTypeOK /\ [Next]_vars => ProcTypeOK'
<1> SUFFICES ASSUME ProcTypeOK, [Next]_vars PROVE ProcTypeOK'
  OBVIOUS
<1>1. CASE Accept \/ Exit
  BY <1>1 DEF ProcTypeOK, Accept, Exit
<1>2. ASSUME NEW g \in Handlers, Emit(g) \/ Submit(g) \/ Return(g) \/ GoOn(g) PROVE ProcTypeOK'
  BY <1>2 DEF ProcTypeOK, Emit, Submit, Return, GoOn, procVars
<1>3. ASSUME NEW g, Work(g) \/ Open(g) \/ Stream(g) \/ Leave(g) PROVE ProcTypeOK'
  BY <1>3 DEF ProcTypeOK, Work, Open, Stream, Leave, procVars
<1>4. CASE Signal \/ ServerShutdown \/ Stop \/ BusClose
  BY <1>4 DEF ProcTypeOK, Signal, ServerShutdown, Stop, BusClose, Proceed, After
<1>5. CASE UNCHANGED vars
  BY <1>5 DEF ProcTypeOK, vars
<1> QED  BY <1>1, <1>2, <1>3, <1>4, <1>5 DEF Next

(* The bus, the queue (whose channel never holds more than its capacity)   *)
(* and the shutdown goroutine keep their types.                            *)
THEOREM TypeCorrect == Spec => []TypeOK
<1>1. Init => ProcTypeOK
  BY DEF Init, ProcTypeOK
<1>2. Spec => []ProcTypeOK
  BY <1>1, ProcTypeSteps, PTL DEF Spec
<1>3. QueueSpec => []QueueTypeOK
  BY QueueTypeInit, QueueTypeSteps, PTL DEF QueueSpec
<1>4. BusTypeOK /\ QueueTypeOK /\ ProcTypeOK => TypeOK
  BY DEF ProcTypeOK, TypeOK
<1> QED  BY <1>2, <1>3, <1>4, RunsBusAndQueue, BusTypeCorrect, PTL
=============================================================================
