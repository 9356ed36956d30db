------------------------------ MODULE Requests ------------------------------
(***************************************************************************)
(* The way of a request (internal/httpapi/middleware.go rateHandler and    *)
(* internal/service/app.go record): its goroutine reads the clock and asks *)
(* the limiter; if it is admitted its handler runs, and one that changed   *)
(* something reads the clock again and records it.  Workers of the job     *)
(* queue record too.  What the handlers do is in the other modules.        *)
(*                                                                         *)
(* Both readings are of the wall clock: UTC() strips the monotonic reading *)
(* from a time.  The wall clock runs with the time that passes, but may be *)
(* set, forward or back, at any moment.  Time passes, too, between reading *)
(* it and the mutex that orders the requests, and goroutines reach the     *)
(* mutex in another order.                                                 *)
(***************************************************************************)
EXTENDS RateLimiter, AuditLog

CONSTANTS
  Clients,      \* goroutines that serve requests
  Workers,      \* goroutines of the job queue
  MaxCalls,     \* bound: number of calls of the limiter and the log
  MaxTime,      \* bound: time stops there
  Offsets       \* bound: what the wall clock may be set ahead of time by

Goroutines == Clients \cup Workers

ASSUME RequestsAssumption ==
  Clients \cap Workers = {} /\ MaxCalls \in Nat /\ MaxTime \in Nat
  /\ Offsets \subseteq Nat

VARIABLES
  now,       \* the time that has passed; no code reads it
  offset,    \* the wall clock is ahead of `now` by this
  routine,   \* per goroutine: where it is, its key, the reading it
             \* took of the wall clock, and (history) when it took it
  calls,     \* number of calls of the limiter and the log begun
  admitted,  \* history: per key, when requests were admitted, in which window
  lag,       \* history: longest delay from the clock to the limiter so far
  least,     \* history: least offset so far
  most       \* history: greatest offset so far

clock == <<now, offset, least, most>>

vars == <<buckets, number, entries, clock, routine, calls, admitted, lag>>
-----------------------------------------------------------------------------
Idle == [at |-> "idle"]

Routine ==
  [at: {"idle", "serve"}] \cup [at: {"allow"}, key: Keys, time: Nat, read: Nat]
    \cup [at: {"record"}, time: Nat, read: Nat]

At(g, place) == routine[g].at = place
Move(g, to)  == routine' = [routine EXCEPT ![g] = to]

Wall == now + offset

Begin == calls < MaxCalls /\ calls' = calls + 1

(* rateHandler reads the wall clock.                                       *)
Arrive(c) ==
  /\ At(c, "idle")
  /\ Begin
  /\ \E k \in Keys : Move(c, [at |-> "allow", key |-> k, time |-> Wall, read |-> now])
  /\ UNCHANGED <<buckets, log, clock, admitted, lag>>

Admitted(k, time) ==
  IF Admits(k, time) THEN Append(admitted[k], [at |-> now, start |-> Current(k, time).start])
  ELSE admitted[k]

(* Allow; a refused request is answered at once.                           *)
Ask(c) ==
  LET k     == routine[c].key
      time  == routine[c].time
      delay == now - routine[c].read
  IN
  /\ At(c, "allow")
  /\ Allow(k, time)
  /\ Move(c, IF Admits(k, time) THEN [at |-> "serve"] ELSE Idle)
  /\ admitted' = [admitted EXCEPT ![k] = Admitted(k, time)]
  /\ lag' = IF delay > lag THEN delay ELSE lag
  /\ UNCHANGED <<log, clock, calls>>

(* A handler that fails or only reads records nothing.                     *)
Answer(c) ==
  /\ At(c, "serve")
  /\ Move(c, Idle)
  /\ UNCHANGED <<buckets, log, clock, calls, admitted, lag>>

(* record reads the wall clock, for a request or for a job.                     *)
Audit(g) ==
  /\ At(g, "serve") \/ (g \in Workers /\ At(g, "idle"))
  /\ Begin
  /\ Move(g, [at |-> "record", time |-> Wall, read |-> now])
  /\ UNCHANGED <<buckets, log, clock, admitted, lag>>

RecordEntry(g) ==
  /\ At(g, "record")
  /\ \E l \in Labels : Record(l, routine[g].time, routine[g].read)
  /\ Move(g, Idle)
  /\ UNCHANGED <<buckets, clock, calls, admitted, lag>>

Tick ==
  /\ now < MaxTime
  /\ now' = now + 1
  /\ UNCHANGED <<offset, least, most>>
  /\ UNCHANGED <<buckets, log, routine, calls, admitted, lag>>

(* An operator or a time daemon sets the wall clock.                       *)
SetClock ==
  /\ offset' \in Offsets
  /\ least' = IF offset' < least THEN offset' ELSE least
  /\ most' = IF offset' > most THEN offset' ELSE most
  /\ UNCHANGED <<buckets, log, now, routine, calls, admitted, lag>>

Init ==
  /\ buckets = NoBuckets
  /\ number = 0
  /\ entries = <<>>
  /\ now = 0
  /\ offset \in Offsets /\ least = offset /\ most = offset
  /\ routine = [g \in Goroutines |-> Idle]
  /\ calls = 0
  /\ admitted = [k \in Keys |-> <<>>]
  /\ lag = 0

Next ==
  \/ \E c \in Clients : Arrive(c) \/ Ask(c) \/ Answer(c)
  \/ \E g \in Goroutines : Audit(g) \/ RecordEntry(g)
  \/ Tick
  \/ SetClock

Spec == Init /\ [][Next]_vars
-----------------------------------------------------------------------------
(***************************************************************************)
(* Properties                                                              *)
(***************************************************************************)
Admission == [at: Nat, start: Nat]

(* Every variable keeps its type, a bucket never exceeds the limit and the *)
(* log its bound.                                                          *)
TypeOK ==
  /\ buckets \in [Keys -> Bucket]
  /\ \A k \in Keys : buckets[k].count <= Limit
  /\ number \in Nat
  /\ entries \in Seq(Entry) /\ Len(entries) <= Keep
  /\ now \in Nat /\ offset \in Nat /\ least \in Nat /\ most \in Nat
  /\ calls \in Nat /\ lag \in Nat
  /\ routine \in [Goroutines -> Routine]
  /\ admitted \in [Keys -> Seq(Admission)]

(* How far the readings of the wall clock have been apart from each other, *)
(* beside the time that passed between them: 0 as long as nobody sets it.  *)
Spread == most - least

(* Twice the limit may pass around the end of a window, and no more: any   *)
(* 2 * Limit + 1 admitted requests of a key span a window, but for the     *)
(* longest time that a request took from the clock to the limiter and for  *)
(* what the wall clock was set by.                                         *)
BurstBounded ==
  \A k \in Keys : \A i \in DOMAIN admitted[k] :
    i + 2 * Limit \in DOMAIN admitted[k] =>
      admitted[k][i + 2 * Limit].at >= admitted[k][i].at + Window - lag - Spread

(* A request is refused only if Limit requests of its key were admitted in *)
(* the window before it read the clock, a window that grows by what the    *)
(* wall clock was set by: a client that waits for the retry-after, one     *)
(* window, is refused again only for requests admitted since, or because   *)
(* the clock was set back, however the requests of others overtake.        *)
Refused(c) == At(c, "allow") /\ At(c, "idle")'

RefusalsEarned ==
  [][\A c \in Clients : Refused(c) =>
       LET past == admitted[routine[c].key] IN
       /\ Len(past) >= Limit
       /\ past[Len(past) - Limit + 1].at > routine[c].read - Window - Spread]_vars

(* The log holds the entries recorded last, without a gap.                 *)
NewestKept ==
  /\ Len(entries) = IF number < Keep THEN number ELSE Keep
  /\ \A i \in DOMAIN entries : entries[i].number = number - Len(entries) + i

(* A listing shows what happened later first: an entry whose clock was     *)
(* read later than another one's, by no less than the wall clock was set   *)
(* by, stands before it, in whatever order the two were recorded, and a    *)
(* limit cuts it off only together with that one.  Where this leaves two   *)
(* entries with equal readings, the one recorded later stands first unless *)
(* their numbers differ in length: then the strings decide.                *)
Later(f, e) ==
  /\ f.read >= e.read + Spread
  /\ f.at = e.at => e.number < f.number /\ Digits(e.number) = Digits(f.number)

ListingFollows ==
  \A labels \in SUBSET Labels : \A limit \in 0..Keep :
    LET list == List(labels, limit) IN
    \A i \in DOMAIN list :
      LET e == list[i] IN
      \A f \in Found(labels) : Later(f, e) => \E h \in 1..(i - 1) : list[h] = f
=============================================================================
