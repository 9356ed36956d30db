------------------------------ MODULE EventBus ------------------------------
(***************************************************************************)
(* The event bus (internal/events/bus.go): goroutines publish events, and  *)
(* the handlers of GET /v1/events (internal/httpapi/server.go) subscribe,  *)
(* receive and unsubscribe.                                                *)
(*                                                                         *)
(* The bus has a read-write mutex.  Publish holds it for reading while it  *)
(* sends to one subscriber after another; Subscribe and the two Close      *)
(* methods hold it for writing and never wait for anything else meanwhile: *)
(* each of them is one step, taken when nobody holds the mutex.  A writer  *)
(* that waits also keeps new readers out; the model lets them in.          *)
(***************************************************************************)
EXTENDS Integers, Sequences

CONSTANTS
  Publishers,    \* goroutines that publish
  Streams,       \* handlers of GET /v1/events
  Topics,        \* types of events
  TopicOf,       \* per handler: the topic its client asks for, None for all
  Capacity,      \* capacity of a subscription's channel
  DropWhenFull,  \* the bus's configuration
  MaxID,         \* bound: no event gets a greater id
  None           \* no event, every topic

Event == [id: Nat, from: Publishers, topic: Topics]

Emission == [event: Event, todo: SUBSET Streams]

ASSUME BusAssumption ==
  /\ Capacity \in Nat \ {0} /\ MaxID \in Nat
  /\ DropWhenFull \in BOOLEAN
  /\ TopicOf \in [Streams -> Topics \cup {None}]
  /\ None \notin Topics \cup Emission

VARIABLES
  nextID,    \* Bus.nextID, for the ids of events and of subscriptions
  closed,    \* Bus.closed
  subs,      \* Bus.subs: the subscribed handlers
  lost,      \* the mutex is held for writing by a goroutine that panicked
  channel,   \* per handler: its subscription's channel
  shut,      \* handlers whose channel is closed
  handler,   \* per handler: where it is
  emitting,  \* per publisher: the event it publishes and whom it has yet to
             \*   send it to (nobody as long as it waits for the mutex), None
             \*   when it publishes nothing
  last       \* history: per handler and publisher, the last id received

busVars == <<nextID, closed, subs, lost, channel, shut, handler, emitting, last>>

Labels == {"begin", "receive", "write", "close", "end"}
-----------------------------------------------------------------------------
FaultCanWrite == ~lost

CanRead  == ~lost
CanWrite == ~lost /\ \A p \in Publishers : emitting[p] # None => emitting[p].todo = {}

Wants(s, e) == TopicOf[s] \in {None, e.topic}

FaultEnqueue(events, e) == <<e>> \o events

Enqueue(events, e) == Append(events, e)

FaultRoom(s) == Len(channel[s]) <= Capacity

Room(s) == Len(channel[s]) < Capacity

FaultDropped(s) == FALSE

(* A full channel loses the event, or holds the publisher up.              *)
Dropped(s) == ~Room(s) /\ DropWhenFull
-----------------------------------------------------------------------------
(* App.emit: the event gets its id before Publish takes the mutex.         *)
NewEvent(p) ==
  /\ emitting[p] = None
  /\ nextID < MaxID
  /\ nextID' = nextID + 1
  /\ \E t \in Topics :
       emitting' = [emitting EXCEPT ![p] =
         [event |-> [id |-> nextID + 1, from |-> p, topic |-> t], todo |-> {}]]
  /\ UNCHANGED <<closed, subs, lost, channel, shut, handler, last>>

(* Publish holds the mutex until it has sent to the last.                  *)
SendTo(p, targets) ==
  emitting' = [emitting EXCEPT ![p] =
    IF targets = {} THEN None ELSE [event |-> emitting[p].event, todo |-> targets]]

PublishLock(p) ==
  /\ emitting[p] # None
  /\ emitting[p].todo = {}
  /\ CanRead
  /\ SendTo(p, IF closed THEN {} ELSE {s \in subs : Wants(s, emitting[p].event)})
  /\ UNCHANGED <<nextID, closed, subs, lost, channel, shut, handler, last>>

(* Bus.subs is a map: Publish goes through it in any order.                *)
PublishSend(p) ==
  /\ emitting[p] # None
  /\ \E s \in emitting[p].todo :
       /\ \/ /\ Room(s)
             /\ channel' = [channel EXCEPT ![s] = Enqueue(channel[s], emitting[p].event)]
          \/ /\ Dropped(s)
             /\ UNCHANGED channel
       /\ SendTo(p, emitting[p].todo \ {s})
  /\ UNCHANGED <<nextID, closed, subs, lost, shut, handler, last>>
-----------------------------------------------------------------------------
(* After the bus is closed Subscribe returns a closed channel and no bus:  *)
(* the handler ends, its deferred Close panics without the mutex and the   *)
(* middleware recovers.                                                    *)
Subscribe(s) ==
  /\ handler[s] = "begin"
  /\ CanWrite
  /\ \/ /\ closed
        /\ handler' = [handler EXCEPT ![s] = "end"]
        /\ UNCHANGED <<nextID, subs>>
     \/ /\ ~closed
        /\ nextID' = nextID + 1
        /\ subs' = subs \cup {s}
        /\ handler' = [handler EXCEPT ![s] = "receive"]
  /\ UNCHANGED <<closed, lost, channel, shut, emitting, last>>

(* A closed channel still delivers what it holds.                          *)
Receive(s) ==
  LET e == Head(channel[s]) IN
  /\ handler[s] = "receive"
  /\ channel[s] # <<>>
  /\ channel' = [channel EXCEPT ![s] = Tail(channel[s])]
  /\ last' = [last EXCEPT ![s] = [last[s] EXCEPT ![e.from] = e.id]]
  /\ handler' = [handler EXCEPT ![s] = "write"]
  /\ UNCHANGED <<nextID, closed, subs, lost, shut, emitting>>

(* The handler returns when its channel is closed, when the request is     *)
(* cancelled, and when the event cannot be written; the server's write     *)
(* timeout ends every write.                                               *)
ReceiveClosed(s) ==
  /\ handler[s] = "receive"
  /\ channel[s] = <<>> /\ s \in shut
  /\ handler' = [handler EXCEPT ![s] = "close"]
  /\ UNCHANGED <<nextID, closed, subs, lost, channel, shut, emitting, last>>

Disconnect(s) ==
  /\ handler[s] = "receive"
  /\ handler' = [handler EXCEPT ![s] = "close"]
  /\ UNCHANGED <<nextID, closed, subs, lost, channel, shut, emitting, last>>

Write(s) ==
  /\ handler[s] = "write"
  /\ \E label \in {"receive", "close"} : handler' = [handler EXCEPT ![s] = label]
  /\ UNCHANGED <<nextID, closed, subs, lost, channel, shut, emitting, last>>

(* Subscription.Close.  When Bus.Close has closed the channel this close   *)
(* panics: the middleware recovers, and nobody unlocks the mutex.          *)
CloseSubscription(s) ==
  /\ handler[s] = "close"
  /\ CanWrite
  /\ subs' = subs \ {s}
  /\ shut' = shut \cup {s}
  /\ lost' = (s \in shut)
  /\ handler' = [handler EXCEPT ![s] = "end"]
  /\ UNCHANGED <<nextID, closed, channel, emitting, last>>

(* Bus.Close; a second call does nothing.                                  *)
CloseBus ==
  /\ CanWrite
  /\ closed' = TRUE
  /\ shut' = shut \cup subs
  /\ subs' = {}
  /\ UNCHANGED <<nextID, lost, channel, handler, emitting, last>>
-----------------------------------------------------------------------------
BusInit ==
  /\ nextID = 0
  /\ closed = FALSE
  /\ subs = {}
  /\ lost = FALSE
  /\ channel = [s \in Streams |-> <<>>]
  /\ shut = {}
  /\ handler = [s \in Streams |-> "begin"]
  /\ emitting = [p \in Publishers |-> None]
  /\ last = [s \in Streams |-> [p \in Publishers |-> 0]]

Publish(p) == PublishLock(p) \/ PublishSend(p)

(* What a handler goes on to do; a client may also disconnect.             *)
Serve(s) == Receive(s) \/ ReceiveClosed(s) \/ Write(s) \/ CloseSubscription(s)

BusNext ==
  \/ \E p \in Publishers : NewEvent(p) \/ Publish(p)
  \/ \E s \in Streams : Subscribe(s) \/ Serve(s) \/ Disconnect(s)
  \/ CloseBus

BusSpec == BusInit /\ [][BusNext]_busVars
-----------------------------------------------------------------------------
(***************************************************************************)
(* Properties                                                              *)
(***************************************************************************)
(* Every variable keeps its type and no channel exceeds its capacity.      *)
BusTypeOK ==
  /\ nextID \in Nat
  /\ closed \in BOOLEAN /\ lost \in BOOLEAN
  /\ subs \subseteq Streams /\ shut \subseteq Streams
  /\ channel \in [Streams -> Seq(Event)]
  /\ \A s \in Streams : Len(channel[s]) <= Capacity
  /\ handler \in [Streams -> Labels]
  /\ emitting \in [Publishers -> Emission \cup {None}]
  /\ last \in [Streams -> [Publishers -> Nat]]

(* A publisher never sends to a closed channel, which would panic: whoever *)
(* it has yet to send to is subscribed, and the channels of the subscribed *)
(* are open, although handlers and the bus close them at any time.         *)
NoSendOnClosed ==
  /\ \A p \in Publishers : emitting[p] # None => emitting[p].todo \subseteq subs
  /\ subs \cap shut = {}

(* A handler receives the events of one publisher in the order in which    *)
(* they were published, though it may miss some, and never one twice.      *)
InOrder ==
  \A s \in Streams : \A i \in DOMAIN channel[s] :
    /\ last[s][channel[s][i].from] < channel[s][i].id
    /\ \A j \in DOMAIN channel[s] :
         i < j /\ channel[s][i].from = channel[s][j].from =>
           channel[s][i].id < channel[s][j].id
=============================================================================
