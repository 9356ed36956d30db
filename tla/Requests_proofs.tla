-------------------------- MODULE Requests_proofs --------------------------
(***************************************************************************)
(* Proofs about Requests, for any clients, workers, keys, limit, window    *)
(* and size of the log: bursts are bounded, refusals are earned, the log   *)
(* keeps the newest entries, and a listing shows later ones first.         *)
(*                                                                         *)
(* Neither fact about the limiter is inductive over the admission times:   *)
(* what a bucket lets through depends on which admissions it counts.       *)
(***************************************************************************)
EXTENDS Requests, Induction, FiniteSetTheorems

(* The later window y starts a window after that of x, which was admitted  *)
(* before y was opened, by a request that came l late at most: with the    *)
(* delay from the clock to the limiter, and by what the clock was behind.  *)
Apart(x, y, l) == y.start >= x.start + Window /\ x.at <= y.start + l

(* What the admissions a of a key and its bucket b tell of each other at   *)
(* time t, with a clock that was m ahead of time at most: the last b.count *)
(* ones are those of the bucket.                                           *)
Told(a, b, t, l, m) ==
  /\ a \in Seq(Admission) /\ b \in Bucket
  /\ b.start = NoStart => a = <<>> /\ b.count = 0
  /\ b.start # NoStart => b.start <= t + m
  /\ b.count <= Limit /\ b.count <= Len(a)
  /\ \A i \in DOMAIN a : a[i].start <= a[i].at + m /\ a[i].at <= t
  /\ \A i \in DOMAIN a : a[i].start = b.start <=> i > Len(a) - b.count
  /\ \A i \in DOMAIN a : a[i].start # b.start => Apart(a[i], b, l)
  /\ \A i \in DOMAIN a : i + Limit \in DOMAIN a => a[i].start # a[i + Limit].start
  /\ \A i, j \in DOMAIN a : i < j => a[i].start = a[j].start \/ Apart(a[i], a[j], l)

Late == lag - least

(* The clock showed this time at a moment when it was between lo and hi    *)
(* ahead of the time that had passed.                                      *)
Shown(time, read, lo, hi) == read + lo <= time /\ time <= read + hi

(* What a goroutine read of the clock, it read before t.                   *)
Past(r, t, lo, hi) ==
  r.at \in {"allow", "record"} => r.read <= t /\ Shown(r.time, r.read, lo, hi)

ClockInv ==
  /\ now \in Nat /\ offset \in Nat /\ least \in Nat /\ most \in Nat
  /\ least <= offset /\ offset <= most

LimiterInv ==
  /\ ClockInv
  /\ lag \in Nat /\ calls \in Nat
  /\ routine \in [Goroutines -> Routine]
  /\ buckets \in [Keys -> Bucket]
  /\ admitted \in [Keys -> Seq(Admission)]
  /\ \A g \in Goroutines : Past(routine[g], now, least, most)
  /\ \A k \in Keys : Told(admitted[k], buckets[k], now, Late, most)

LogInv ==
  /\ number \in Nat /\ entries \in Seq(Entry)
  /\ NewestKept
-----------------------------------------------------------------------------
(***************************************************************************)
(* The limiter.                                                            *)
(***************************************************************************)
(* What was told stays true as time passes and longer delays are seen.     *)
LEMMA ToldStays ==
  ASSUME NEW a, NEW b, NEW t \in Nat, NEW l \in Int, NEW m \in Nat, Told(a, b, t, l, m),
         NEW u \in Nat, t <= u, NEW k \in Int, l <= k, NEW n \in Nat, m <= n
  PROVE  Told(a, b, u, k, n)
<1>1. \A i \in DOMAIN a : a[i] \in Admission
  BY DEF Told
<1>2. \A i \in DOMAIN a : a[i].start \in Nat /\ a[i].at \in Nat
  BY <1>1 DEF Admission
<1>3. b.start # NoStart => b.start \in Nat
  BY DEF Told, Bucket
<1>4. DOMAIN a # {} => b.start # NoStart
  BY DEF Told
<1>5. ASSUME NEW i \in DOMAIN a, a[i].start # b.start PROVE Apart(a[i], b, k)
  BY <1>2, <1>3, <1>4, <1>5 DEF Told, Apart
<1>6. ASSUME NEW i \in DOMAIN a, NEW j \in DOMAIN a, i < j
      PROVE  a[i].start = a[j].start \/ Apart(a[i], a[j], k)
  BY <1>2, <1>6 DEF Told, Apart
<1>7. \A i \in DOMAIN a : a[i].start <= a[i].at + n /\ a[i].at <= u
  BY <1>2 DEF Told
<1>8. b.start # NoStart => b.start <= u + n
  BY <1>3 DEF Told
<1> QED  BY <1>5, <1>6, <1>7, <1>8 DEF Told

(* A request counted in the bucket that is open.                           *)
LEMMA ToldCounted ==
  ASSUME NEW a, NEW b, NEW t \in Nat, NEW l \in Int, NEW m \in Nat, Told(a, b, t, l, m),
         b.start # NoStart, b.count < Limit
  PROVE  Told(Append(a, [at |-> t, start |-> b.start]),
              [start |-> b.start, count |-> b.count + 1], t, l, m)
<1> DEFINE x == [at |-> t, start |-> b.start]
           c == Append(a, x)
           d == [start |-> b.start, count |-> b.count + 1]
<1>1. /\ a \in Seq(Admission) /\ b.start \in Nat /\ b.count \in Nat /\ b.start <= t + m
      /\ Limit \in Nat \ {0} /\ b.count <= Len(a)
  BY LimiterAssumption DEF LimiterAssumption, Told, Bucket
<1>2. x \in Admission /\ x.at = t /\ x.start = b.start
  BY <1>1 DEF Admission
<1>3. d \in Bucket /\ d.start = b.start /\ d.count = b.count + 1
  BY <1>1 DEF Bucket
<1> HIDE DEF x, d
<1>4. /\ c \in Seq(Admission) /\ Len(c) = Len(a) + 1 /\ c[Len(c)] = x
      /\ \A i \in DOMAIN a : i \in DOMAIN c /\ c[i] = a[i]
      /\ \A i \in DOMAIN c : i \in DOMAIN a \/ i = Len(c)
      /\ \A i \in DOMAIN a : i \in Nat /\ i >= 1 /\ i <= Len(a)
      /\ \A i \in DOMAIN c : i \in Nat /\ i >= 1 /\ i <= Len(c)
      /\ DOMAIN a = 1..Len(a) /\ Len(a) \in Nat
  BY <1>1, <1>2
<1> HIDE DEF c
<1>5. \A i \in DOMAIN c : c[i].start <= c[i].at + m /\ c[i].at <= t
  BY <1>1, <1>2, <1>4 DEF Told
<1>6. \A i \in DOMAIN c : c[i].start = d.start <=> i > Len(c) - d.count
  <2>1. ASSUME NEW i \in DOMAIN a PROVE a[i].start = d.start <=> i > Len(c) - d.count
    BY <1>1, <1>3, <1>4 DEF Told
  <2>2. Len(c) > Len(c) - d.count
    BY <1>1, <1>3, <1>4
  <2> QED  BY <1>2, <1>3, <1>4, <2>1, <2>2
<1>7. \A i \in DOMAIN c : c[i].start # d.start => Apart(c[i], d, l)
  BY <1>2, <1>3, <1>4 DEF Told, Apart
<1>8. ASSUME NEW i \in DOMAIN c, i + Limit \in DOMAIN c PROVE c[i].start # c[i + Limit].start
  <2>1. i \in DOMAIN a
    BY <1>1, <1>4, <1>8
  <2>2. CASE i + Limit \in DOMAIN a
    BY <1>4, <2>1, <2>2 DEF Told
  <2>3. CASE i + Limit = Len(c)
    <3>1. ~(i > Len(a) - b.count)
      BY <1>1, <1>4, <2>1, <2>3
    <3> QED  BY <1>2, <1>4, <2>1, <2>3, <3>1 DEF Told
  <2> QED  BY <1>4, <1>8, <2>2, <2>3
<1>9. ASSUME NEW i \in DOMAIN c, NEW j \in DOMAIN c, i < j
      PROVE  c[i].start = c[j].start \/ Apart(c[i], c[j], l)
  <2>1. i \in DOMAIN a
    BY <1>4, <1>9
  <2>2. CASE j \in DOMAIN a
    BY <1>4, <1>9, <2>1, <2>2 DEF Told
  <2>3. CASE j = Len(c)
    BY <1>2, <1>4, <2>1, <2>3 DEF Told, Apart
  <2> QED  BY <1>4, <2>2, <2>3
<1>10. d.count <= Limit /\ d.count <= Len(c) /\ d.start # NoStart /\ d.start <= t + m
  BY <1>1, <1>3, <1>4
<1>11. Told(c, d, t, l, m)
  BY <1>3, <1>4, <1>5, <1>6, <1>7, <1>8, <1>9, <1>10 DEF Told
<1> QED  BY <1>11 DEF c, d, x

(* A request that opens a window: the bucket was never used or has ended.  *)
LEMMA ToldOpened ==
  ASSUME NEW a, NEW b, NEW t \in Nat, NEW l \in Int, NEW m \in Nat, Told(a, b, t, l, m),
         NEW s \in Nat, s <= t + m, t <= s + l,
         b.start # NoStart => s >= b.start + Window
  PROVE  Told(a, [start |-> s, count |-> 0], t, l, m)
<1> DEFINE d == [start |-> s, count |-> 0]
<1>1. d \in Bucket /\ d.start = s /\ d.count = 0 /\ d.start # NoStart
  BY LimiterAssumption DEF LimiterAssumption, Bucket
<1>2. /\ a \in Seq(Admission) /\ Window \in Nat \ {0} /\ Limit \in Nat \ {0}
      /\ b.start # NoStart => b.start \in Nat
      /\ DOMAIN a # {} => b.start # NoStart
  BY LimiterAssumption DEF LimiterAssumption, Told, Bucket
<1>3. \A i \in DOMAIN a : a[i] \in Admission
  BY <1>2
<1>4. \A i \in DOMAIN a : a[i].start \in Nat /\ a[i].at \in Nat
  BY <1>3 DEF Admission
<1> HIDE DEF d
<1>5. ASSUME NEW i \in DOMAIN a PROVE a[i].start + Window <= s /\ a[i].at <= s + l
  <2>1. a[i].start = b.start \/ Apart(a[i], b, l)
    BY DEF Told
  <2>2. a[i].at <= t
    BY DEF Told
  <2>3. a[i].start <= b.start
    BY <1>2, <1>4, <2>1 DEF Apart
  <2> QED  BY <1>2, <1>4, <2>2, <2>3
<1>6. \A i \in DOMAIN a : a[i].start # d.start /\ Apart(a[i], d, l) /\ ~(i > Len(a) - d.count)
  BY <1>1, <1>2, <1>4, <1>5 DEF Apart
<1>7. d.count <= Limit /\ d.count <= Len(a)
  BY <1>1, <1>2
<1>8. Told(a, d, t, l, m)
  BY <1>1, <1>6, <1>7 DEF Told
<1> QED  BY <1>8 DEF d

(* Allow keeps what bucket and admissions tell of each other.              *)
LEMMA ToldAllow ==
  ASSUME NEW k \in Keys, NEW time \in Nat, now \in Nat, most \in Nat, time <= now + most,
         NEW l \in Int, NEW m \in Int, l <= m, now <= time + m,
         buckets \in [Keys -> Bucket], Told(admitted[k], buckets[k], now, l, most), Allow(k, time)
  PROVE  /\ buckets' \in [Keys -> Bucket]
         /\ \A j \in Keys \ {k} : buckets'[j] = buckets[j]
         /\ Admitted(k, time) \in Seq(Admission)
         /\ Told(Admitted(k, time), buckets'[k], now, m, most)
<1> DEFINE b == buckets[k]
           cur == Current(k, time)
           new == [start |-> cur.start, count |-> cur.count + IF Admits(k, time) THEN 1 ELSE 0]
<1>a. Limit \in Nat \ {0} /\ Window \in Nat \ {0} /\ NoStart \notin Nat
  BY LimiterAssumption DEF LimiterAssumption
<1>b. b \in Bucket /\ b.count \in Nat /\ (b.start # NoStart => b.start \in Nat)
  BY DEF Bucket
<1>1. Told(admitted[k], cur, now, m, most) /\ cur \in Bucket /\ cur.start # NoStart
  <2>1. CASE b.start = NoStart \/ time >= b.start + Window
    <3>1. cur = [start |-> time, count |-> 0]
      BY <2>1 DEF Current
    <3>2. b.start # NoStart => time >= b.start + Window
      BY <2>1
    <3>3. Told(admitted[k], b, now, m, most)
      BY ToldStays
    <3>4. Told(admitted[k], [start |-> time, count |-> 0], now, m, most)
      BY <3>2, <3>3, ToldOpened
    <3> QED  BY <1>a, <3>1, <3>4 DEF Bucket
  <2>2. CASE ~(b.start = NoStart \/ time >= b.start + Window)
    <3>1. cur = b
      BY <2>2 DEF Current
    <3>2. Told(admitted[k], b, now, m, most)
      BY ToldStays
    <3> HIDE DEF cur
    <3> QED  BY <1>b, <2>2, <3>1, <3>2
  <2> QED  BY <2>1, <2>2
<1>2. buckets' = [buckets EXCEPT ![k] = new]
  BY DEF Allow
<1>3. cur.count \in Nat /\ cur.start \in Nat
  BY <1>1 DEF Bucket
<1>4. Admits(k, time) <=> cur.count < Limit
  BY DEF Admits
<1>5. new \in Bucket
  BY <1>3 DEF Bucket
<1>6. buckets'[k] = new
  BY <1>2
<1>7. Admitted(k, time) = IF Admits(k, time) THEN Append(admitted[k], [at |-> now, start |-> cur.start])
                          ELSE admitted[k]
  BY DEF Admitted
<1>8. Told(Admitted(k, time), new, now, m, most)
  <2>1. CASE Admits(k, time)
    <3>1. new = [start |-> cur.start, count |-> cur.count + 1]
      BY <2>1
    <3> HIDE DEF cur, new
    <3> QED  BY <1>1, <1>4, <1>7, <2>1, <3>1, ToldCounted
  <2>2. CASE ~Admits(k, time)
    <3>1. new = cur
      BY <1>1, <1>3, <2>2 DEF Bucket
    <3> HIDE DEF cur, new
    <3> QED  BY <1>1, <1>7, <2>2, <3>1
  <2> QED  BY <2>1, <2>2
<1>9. Admitted(k, time) \in Seq(Admission)
  BY <1>8 DEF Told
<1> HIDE DEF new, cur
<1> QED  BY <1>2, <1>5, <1>6, <1>8, <1>9

(* Nothing was asked at the start.                                         *)
LEMMA LimiterInit == Init => LimiterInv
<1> SUFFICES ASSUME Init PROVE LimiterInv
  OBVIOUS
<1>a. Limit \in Nat \ {0} /\ ClockInv
  BY LimiterAssumption, RequestsAssumption DEF LimiterAssumption, RequestsAssumption, Init, ClockInv
<1>1. [start |-> NoStart, count |-> 0] \in Bucket
  BY DEF Bucket
<1>2. buckets \in [Keys -> Bucket] /\ admitted \in [Keys -> Seq(Admission)]
  BY <1>1 DEF Init, NoBuckets
<1>3. ASSUME NEW k \in Keys PROVE Told(admitted[k], buckets[k], now, Late, most)
  <2>1. admitted[k] = <<>> /\ buckets[k] = [start |-> NoStart, count |-> 0]
    BY DEF Init, NoBuckets
  <2>2. Told(<<>>, [start |-> NoStart, count |-> 0], now, Late, most)
    BY <1>a, <1>1 DEF Told
  <2> QED  BY <2>1, <2>2
<1>4. routine \in [Goroutines -> Routine] /\ \A g \in Goroutines : Past(routine[g], now, least, most)
  BY DEF Init, Idle, Routine, Past
<1> QED  BY <1>a, <1>2, <1>3, <1>4 DEF Init, LimiterInv

(* A goroutine that moves to a place leaves the others where they are.     *)
LEMMA MoveRoutine ==
  ASSUME routine \in [Goroutines -> Routine], NEW g \in Goroutines, NEW r \in Routine, Move(g, r)
  PROVE  /\ routine' \in [Goroutines -> Routine] /\ routine'[g] = r
         /\ \A f \in Goroutines \ {g} : routine'[f] = routine[f]
BY DEF Move

(* What was read stays read as time passes and the clock is set.           *)
LEMMA PastStays ==
  ASSUME ClockInv, ClockInv', now <= now', least' <= least, most <= most',
         NEW r \in Routine, Past(r, now, least, most)
  PROVE  Past(r, now', least', most')
<1> SUFFICES ASSUME r.at \in {"allow", "record"}
             PROVE  r.read <= now' /\ Shown(r.time, r.read, least', most')
  BY DEF Past
<1>1. r.time \in Nat /\ r.read \in Nat
  BY DEF Routine
<1>2. r.read <= now /\ r.read + least <= r.time /\ r.time <= r.read + most
  BY DEF Past, Shown
<1>3. /\ now \in Nat /\ least \in Nat /\ most \in Nat
      /\ now' \in Nat /\ least' \in Nat /\ most' \in Nat
  BY DEF ClockInv
<1> QED  BY <1>1, <1>2, <1>3 DEF Shown

(* Time and the clock move on.                                             *)
LEMMA ClockNext ==
  ASSUME ClockInv, Tick \/ SetClock
  PROVE  ClockInv' /\ now <= now' /\ least' <= least /\ most <= most'
<1>1. CASE Tick
  BY <1>1 DEF Tick, ClockInv
<1>2. CASE SetClock
  <2>1. offset' \in Nat
    BY <1>2, RequestsAssumption DEF RequestsAssumption, SetClock
  <2> QED  BY <1>2, <2>1 DEF SetClock, ClockInv
<1> QED  BY <1>1, <1>2

(* What a step does to the limiter, at each place.                         *)
LEMMA LimiterNext == LimiterInv /\ [Next]_vars => LimiterInv'
<1> SUFFICES ASSUME LimiterInv, [Next]_vars PROVE LimiterInv'
  OBVIOUS
<1>a. /\ now \in Nat /\ offset \in Nat /\ least \in Nat /\ most \in Nat
      /\ least <= offset /\ offset <= most
      /\ lag \in Nat /\ calls \in Nat
      /\ routine \in [Goroutines -> Routine]
      /\ buckets \in [Keys -> Bucket]
      /\ admitted \in [Keys -> Seq(Admission)]
      /\ \A g \in Goroutines : Past(routine[g], now, least, most)
      /\ \A k \in Keys : Told(admitted[k], buckets[k], now, Late, most)
  BY DEF LimiterInv, ClockInv
<1>b. Clients \subseteq Goroutines /\ Workers \subseteq Goroutines
  BY DEF Goroutines
(* Steps of a goroutine beside the limiter.                                *)
<1>1. ASSUME NEW g \in Goroutines, NEW r \in Routine, Move(g, r), Past(r, now, least, most),
             UNCHANGED <<buckets, clock, admitted, lag>>, calls' \in Nat
      PROVE  LimiterInv'
  <2>1. /\ routine' \in [Goroutines -> Routine] /\ routine'[g] = r
        /\ \A f \in Goroutines \ {g} : routine'[f] = routine[f]
    BY <1>a, <1>1, MoveRoutine
  <2>2. now' = now /\ offset' = offset /\ least' = least /\ most' = most
    BY <1>1 DEF clock
  <2>3. \A f \in Goroutines : Past(routine'[f], now, least, most)
    BY <1>a, <1>1, <2>1
  <2>4. /\ now' \in Nat /\ offset' \in Nat /\ least' \in Nat /\ most' \in Nat
        /\ least' <= offset' /\ offset' <= most'
    BY <1>a, <2>2
  <2>5. /\ \A f \in Goroutines : Past(routine'[f], now', least', most')
        /\ \A k \in Keys : Told(admitted'[k], buckets'[k], now', Late', most')
    BY <1>a, <1>1, <2>2, <2>3 DEF Late
  <2> QED  BY <1>a, <1>1, <2>1, <2>4, <2>5 DEF LimiterInv, ClockInv
<1>2. /\ Idle \in Routine /\ [at |-> "serve"] \in Routine
      /\ Past(Idle, now, least, most) /\ Past([at |-> "serve"], now, least, most)
  BY DEF Idle, Routine, Past
<1>r. Wall \in Nat /\ Shown(Wall, now, least, most)
  BY <1>a DEF Wall, Shown
<1>3. ASSUME NEW c \in Clients, Arrive(c) PROVE LimiterInv'
  <2>1. PICK k \in Keys : Move(c, [at |-> "allow", key |-> k, time |-> Wall, read |-> now])
    BY <1>3 DEF Arrive
  <2> DEFINE r == [at |-> "allow", key |-> k, time |-> Wall, read |-> now]
  <2>2. r \in Routine /\ Past(r, now, least, most)
    BY <1>a, <1>r DEF Routine, Past
  <2>3. UNCHANGED <<buckets, clock, admitted, lag>> /\ calls' \in Nat
    BY <1>a, <1>3 DEF Arrive, Begin
  <2> HIDE DEF r
  <2> QED  BY <1>1, <1>b, <2>1, <2>2, <2>3 DEF r
<1>4. ASSUME NEW c \in Clients, Ask(c) PROVE LimiterInv'
  <2> DEFINE k     == routine[c].key
             time  == routine[c].time
             read  == routine[c].read
             delay == now - read
             r     == IF Admits(k, time) THEN [at |-> "serve"] ELSE Idle
  <2>1. /\ routine[c].at = "allow" /\ Allow(k, time) /\ Move(c, r)
        /\ admitted' = [admitted EXCEPT ![k] = Admitted(k, time)]
        /\ lag' = IF delay > lag THEN delay ELSE lag
        /\ UNCHANGED <<log, clock, calls>>
    BY <1>4 DEF Ask, At
  <2>2. routine[c] \in Routine /\ Past(routine[c], now, least, most)
    BY <1>a, <1>b
  <2>3. /\ k \in Keys /\ time \in Nat /\ read \in Nat /\ read <= now
        /\ read + least <= time /\ time <= read + most
    BY <2>1, <2>2 DEF Routine, Past, Shown
  <2>4. r \in Routine /\ Past(r, now, least, most)
    BY <1>2
  <2>u. /\ now' = now /\ offset' = offset /\ least' = least /\ most' = most
        /\ calls' = calls
    BY <2>1 DEF clock
  <2> HIDE DEF k, time, r, read
  <2>5. lag' \in Nat /\ lag <= lag' /\ now - read <= lag'
    BY <1>a, <2>1, <2>3
  <2>l. /\ Late \in Int /\ Late' \in Int /\ Late <= Late' /\ now <= time + Late'
        /\ time <= now + most
    <3>1. Late = lag - least /\ Late' = lag' - least
      BY <2>u DEF Late
    <3>2. \A n, x, lo, d, t \in Nat : n - x <= d /\ x + lo <= t => n <= t + (d - lo)
      OBVIOUS
    <3>3. \A d, e, lo \in Nat : d <= e => d - lo <= e - lo /\ d - lo \in Int /\ e - lo \in Int
      OBVIOUS
    <3>4. \A t, x, n, hi \in Nat : t <= x + hi /\ x <= n => t <= n + hi
      OBVIOUS
    <3> QED  BY <1>a, <2>3, <2>5, <3>1, <3>2, <3>3, <3>4
  <2>6. /\ buckets' \in [Keys -> Bucket] /\ \A j \in Keys \ {k} : buckets'[j] = buckets[j]
        /\ Admitted(k, time) \in Seq(Admission)
        /\ Told(Admitted(k, time), buckets'[k], now, Late', most)
    BY <1>a, <2>1, <2>3, <2>l, ToldAllow
  <2>7. /\ admitted' \in [Keys -> Seq(Admission)] /\ admitted'[k] = Admitted(k, time)
        /\ \A j \in Keys \ {k} : admitted'[j] = admitted[j]
    BY <1>a, <2>1, <2>3, <2>6
  <2>8. ASSUME NEW j \in Keys PROVE Told(admitted'[j], buckets'[j], now, Late', most)
    <3>1. Told(admitted[j], buckets[j], now, Late', most)
      BY <1>a, <2>l, ToldStays
    <3>2. CASE j = k
      BY <2>6, <2>7, <3>2
    <3>3. CASE j # k
      <4>1. admitted'[j] = admitted[j] /\ buckets'[j] = buckets[j]
        BY <2>6, <2>7, <3>3
      <4> QED  BY <3>1, <4>1
    <3> QED  BY <3>2, <3>3
  <2>9. /\ routine' \in [Goroutines -> Routine]
        /\ \A f \in Goroutines : Past(routine'[f], now, least, most)
    BY <1>a, <1>b, <2>1, <2>4, MoveRoutine
  <2>10. /\ now' \in Nat /\ offset' \in Nat /\ least' \in Nat /\ most' \in Nat
         /\ least' <= offset' /\ offset' <= most' /\ calls' \in Nat
    BY <1>a, <2>u
  <2>11. /\ \A f \in Goroutines : Past(routine'[f], now', least', most')
         /\ \A j \in Keys : Told(admitted'[j], buckets'[j], now', Late', most')
    BY <2>8, <2>9, <2>u
  <2> QED  BY <2>5, <2>6, <2>7, <2>9, <2>10, <2>11 DEF LimiterInv, ClockInv
<1>5. ASSUME NEW g \in Goroutines, (g \in Clients /\ Answer(g)) \/ RecordEntry(g) PROVE LimiterInv'
  <2>1. Move(g, Idle) /\ UNCHANGED <<buckets, clock, calls, admitted, lag>>
    BY <1>5 DEF Answer, RecordEntry
  <2> QED  BY <1>1, <1>2, <1>a, <2>1
<1>6. ASSUME NEW g \in Goroutines, Audit(g) PROVE LimiterInv'
  <2> DEFINE r == [at |-> "record", time |-> Wall, read |-> now]
  <2>1. Move(g, r)
    BY <1>6 DEF Audit
  <2>2. r \in Routine /\ Past(r, now, least, most)
    BY <1>a, <1>r DEF Routine, Past
  <2>3. UNCHANGED <<buckets, clock, admitted, lag>> /\ calls' \in Nat
    BY <1>a, <1>6 DEF Audit, Begin
  <2> HIDE DEF r
  <2> QED  BY <1>1, <2>1, <2>2, <2>3
<1>7. CASE Tick \/ SetClock
  <2>1. UNCHANGED <<buckets, routine, calls, admitted, lag>>
    BY <1>7 DEF Tick, SetClock
  <2>2. ClockInv /\ ClockInv' /\ now <= now' /\ least' <= least /\ most <= most'
    BY <1>7, ClockNext DEF LimiterInv
  <2>3. /\ now' \in Nat /\ most' \in Nat /\ least' \in Nat
        /\ Late \in Int /\ Late' \in Int /\ Late <= Late'
    <3>1. now' \in Nat /\ most' \in Nat /\ least' \in Nat
      BY <2>2 DEF ClockInv
    <3>2. Late = lag - least /\ Late' = lag - least'
      BY <2>1 DEF Late
    <3>3. \A d, lo, mo \in Nat : mo <= lo => d - lo <= d - mo /\ d - lo \in Int /\ d - mo \in Int
      OBVIOUS
    <3> QED  BY <1>a, <2>2, <3>1, <3>2, <3>3
  <2>4. \A k \in Keys : Told(admitted[k], buckets[k], now', Late', most')
    BY <1>a, <2>2, <2>3, ToldStays
  <2>5. \A g \in Goroutines : Past(routine[g], now', least', most')
    BY <1>a, <2>2, PastStays
  <2> QED  BY <1>a, <2>1, <2>2, <2>4, <2>5 DEF LimiterInv
<1>8. CASE UNCHANGED vars
  <2>1. UNCHANGED <<now, offset, least, most, lag, calls, routine, buckets, admitted>>
    BY <1>8 DEF vars, clock
  <2> QED  BY <1>a, <2>1 DEF LimiterInv, ClockInv, Late
<1> QED  BY <1>b, <1>3, <1>4, <1>5, <1>6, <1>7, <1>8 DEF Next
-----------------------------------------------------------------------------
(***************************************************************************)
(* The audit log.                                                          *)
(***************************************************************************)
(* Recording the next number keeps the numbers consecutive and the newest  *)
(* Keep of them.                                                           *)
LEMMA RecordNewest ==
  ASSUME LogInv, NEW l \in Labels, NEW at \in Nat, NEW read \in Nat, Record(l, at, read)
  PROVE  LogInv'
<1> DEFINE e == [number |-> number + 1, label |-> l, at |-> at, read |-> read]
           all == Append(entries, e)
<1>a. Keep \in Nat \ {0} /\ number \in Nat /\ entries \in Seq(Entry)
  BY LogAssumption DEF LogAssumption, LogInv
<1>b. /\ Len(entries) = IF number < Keep THEN number ELSE Keep
      /\ \A i \in DOMAIN entries : entries[i].number = number - Len(entries) + i
  BY DEF LogInv, NewestKept
<1>1. number' = number + 1 /\ entries' = Newest(all)
  BY DEF Record
<1>2. e \in Entry /\ e.number = number + 1
  BY <1>a DEF Entry
<1> HIDE DEF e
<1>3. /\ all \in Seq(Entry) /\ Len(all) = Len(entries) + 1 /\ all[Len(all)] = e
      /\ \A i \in DOMAIN entries : i \in DOMAIN all /\ all[i] = entries[i]
      /\ \A i \in DOMAIN all : i \in DOMAIN entries \/ i = Len(all)
  BY <1>a, <1>2
<1> HIDE DEF all
<1>4. \A i \in DOMAIN all : i \in 1..Len(all) /\ all[i].number = number' - Len(all) + i
  <2>1. ASSUME NEW i \in DOMAIN entries PROVE all[i].number = number' - Len(all) + i
    <3>1. all[i].number = number - Len(entries) + i
      BY <1>b, <1>3
    <3>2. i \in Nat /\ Len(entries) \in Nat /\ Len(all) = Len(entries) + 1
      BY <1>a, <1>3
    <3>3. \A n, m, j \in Nat : n - m + j = n + 1 - (m + 1) + j
      OBVIOUS
    <3> QED  BY <1>a, <1>1, <3>1, <3>2, <3>3
  <2>2. all[Len(all)].number = number' - Len(all) + Len(all)
    BY <1>a, <1>1, <1>2, <1>3
  <2> QED  BY <1>3, <2>1, <2>2
<1>5. CASE Len(all) > Keep
  <2> DEFINE m == Len(all) - Keep + 1
             list == SubSeq(all, m, Len(all))
  <2>1. Len(all) = Keep + 1 /\ m = 2 /\ ~(number' < Keep)
    BY <1>a, <1>b, <1>1, <1>3, <1>5
  <2>2. entries' = list
    BY <1>1, <1>5 DEF Newest
  <2> HIDE DEF m
  <2>3. /\ list \in Seq(Entry) /\ Len(list) = Keep
        /\ \A i \in DOMAIN list : i \in Nat /\ i + 1 \in DOMAIN all /\ list[i] = all[i + 1]
    BY <1>a, <1>3, <2>1
  <2> HIDE DEF list
  <2>4. \A i \in DOMAIN list : list[i].number = number' - Keep + i
    <3>1. \A j \in DOMAIN all : all[j].number = number' - Len(all) + j
      BY <1>a, <1>1, <1>4
    <3>2. number' \in Nat /\ Keep \in Nat
      BY <1>a, <1>1
    <3>3. ASSUME NEW i \in DOMAIN list PROVE list[i].number = number' - Keep + i
      <4>1. i \in Nat /\ list[i].number = number' - Len(all) + (i + 1)
        BY <2>3, <3>1, <3>3
      <4> QED  BY <2>1, <3>2, <4>1
    <3> QED  BY <3>3
  <2> QED  BY <1>a, <1>1, <2>1, <2>2, <2>3, <2>4 DEF LogInv, NewestKept
<1>6. CASE ~(Len(all) > Keep)
  <2>1. entries' = all
    BY <1>1, <1>6 DEF Newest
  <2>2. Len(all) = IF number' < Keep THEN number' ELSE Keep
    BY <1>a, <1>b, <1>1, <1>3, <1>6
  <2> QED  BY <1>a, <1>1, <1>3, <1>4, <2>1, <2>2 DEF LogInv, NewestKept
<1> QED  BY <1>5, <1>6

(* Every step keeps the log: only RecordEntry writes it.                   *)
LEMMA LogNext == LimiterInv /\ LogInv /\ [Next]_vars => LogInv'
<1> SUFFICES ASSUME LimiterInv, LogInv, [Next]_vars PROVE LogInv'
  OBVIOUS
<1>1. CASE UNCHANGED log
  BY <1>1 DEF log, LogInv, NewestKept
<1>2. ASSUME NEW g \in Goroutines, RecordEntry(g) PROVE LogInv'
  <2>1. routine[g].at = "record"
    BY <1>2 DEF RecordEntry, At
  <2>2. PICK l \in Labels : Record(l, routine[g].time, routine[g].read)
    BY <1>2 DEF RecordEntry
  <2>3. routine[g] \in Routine
    BY DEF LimiterInv
  <2>4. routine[g].time \in Nat /\ routine[g].read \in Nat
    BY <2>1, <2>3 DEF Routine
  <2> QED  BY <2>2, <2>4, RecordNewest
<1> QED  BY <1>1, <1>2 DEF Next, Arrive, Ask, Answer, Audit, Tick, SetClock, vars, log
-----------------------------------------------------------------------------
(***************************************************************************)
(* Theorems.                                                               *)
(***************************************************************************)
(* Buckets tell what was admitted and the log is consecutive in every      *)
(* reachable state.                                                        *)
THEOREM RequestsInvariant == Spec => [](LimiterInv /\ LogInv)
<1>1. Init => LogInv
  BY LogAssumption DEF LogAssumption, Init, LogInv, NewestKept
<1> QED  BY <1>1, LimiterInit, LimiterNext, LogNext, PTL DEF Spec

(* A bucket never counts more than the limit and the log never holds more  *)
(* than its bound (ratelimit/limiter.go, audit/log.go).                    *)
THEOREM TypeCorrect == Spec => []TypeOK
<1>1. LimiterInv /\ LogInv => TypeOK
  BY LogAssumption DEF LogAssumption, LimiterInv, ClockInv, LogInv, NewestKept, Told, TypeOK
<1> QED  BY <1>1, RequestsInvariant, PTL

(* Any 2 * Limit + 1 admitted requests of a key span a window, but for the *)
(* longest delay between clock and mutex and for what the wall clock was   *)
(* set by (ratelimit/limiter.go:34).                                       *)
THEOREM BurstsBounded == Spec => []BurstBounded
<1>1. LimiterInv => BurstBounded
  <2> SUFFICES ASSUME LimiterInv, NEW k \in Keys, NEW i \in DOMAIN admitted[k],
                      i + 2 * Limit \in DOMAIN admitted[k]
               PROVE  admitted[k][i + 2 * Limit].at >= admitted[k][i].at + Window - lag - Spread
    BY DEF BurstBounded
  <2> DEFINE a == admitted[k]
             j == i + Limit
             h == i + 2 * Limit
  <2>1. /\ Told(a, buckets[k], now, Late, most) /\ a \in Seq(Admission)
        /\ lag \in Nat /\ least \in Nat /\ most \in Nat
    BY DEF LimiterInv, ClockInv
  <2>2. Limit \in Nat \ {0} /\ Window \in Nat \ {0}
    BY LimiterAssumption DEF LimiterAssumption
  <2>3. i \in DOMAIN a /\ j \in DOMAIN a /\ h \in DOMAIN a /\ i < j /\ j < h /\ h = j + Limit
    BY <2>1, <2>2
  <2> HIDE DEF a, j, h
  <2>4. a[i] \in Admission /\ a[j] \in Admission /\ a[h] \in Admission
    BY <2>1, <2>3
  <2>5. /\ a[i].at \in Nat /\ a[i].start \in Nat /\ a[j].start \in Nat
        /\ a[h].at \in Nat /\ a[h].start \in Nat
    BY <2>4 DEF Admission
  <2>6. Apart(a[i], a[j], Late)
    BY <2>1, <2>3 DEF Told, j
  <2>7. Apart(a[j], a[h], Late)
    BY <2>1, <2>3 DEF Told
  <2>8. a[h].start <= a[h].at + most
    BY <2>1, <2>3 DEF Told
  <2>9. a[h].at >= a[i].at + Window - lag - Spread
    <3>1. a[i].at <= a[j].start + (lag - least) /\ a[h].start >= a[j].start + Window
      BY <2>6, <2>7 DEF Apart, Late
    <3>2. \A u, v, x, y, w, d, lo, hi \in Nat :
            u <= v + (d - lo) /\ x >= v + w /\ x <= y + hi => y >= u + w - d - (hi - lo)
      OBVIOUS
    <3> QED  BY <2>1, <2>2, <2>5, <2>8, <3>1, <3>2 DEF Spread
  <2> QED  BY <2>9 DEF a, h
<1> QED  BY <1>1, RequestsInvariant, PTL

(* A refused request has read the clock within a window after Limit        *)
(* admissions of its key, but for what the wall clock was set by           *)
(* (ratelimit/limiter.go:37).                                              *)
THEOREM RefusalsAreEarned == Spec => RefusalsEarned
<1> DEFINE Earned == \A c \in Clients : Refused(c) =>
             LET past == admitted[routine[c].key] IN
             /\ Len(past) >= Limit
             /\ past[Len(past) - Limit + 1].at > routine[c].read - Window - Spread
<1>1. ASSUME LimiterInv, [Next]_vars PROVE Earned
  <2> SUFFICES ASSUME NEW c \in Clients, Refused(c)
               PROVE  LET past == admitted[routine[c].key] IN
                      /\ Len(past) >= Limit
                      /\ past[Len(past) - Limit + 1].at > routine[c].read - Window - Spread
    OBVIOUS
  <2>a. c \in Goroutines /\ routine \in [Goroutines -> Routine] /\ routine[c].at = "allow" /\ routine'[c].at = "idle"
    BY <1>1 DEF Goroutines, LimiterInv, Refused, At
  <2>1. Ask(c)
    <3>1. ASSUME NEW b \in Clients, Ask(b) PROVE b = c
      BY <2>a, <3>1 DEF Ask, Move
    <3>2. ASSUME NEW b \in Clients, Arrive(b) \/ Answer(b) PROVE FALSE
      BY <2>a, <3>2 DEF Arrive, Answer, Move, At
    <3>3. ASSUME NEW g \in Goroutines, Audit(g) \/ RecordEntry(g) PROVE FALSE
      BY <2>a, <3>3 DEF Audit, RecordEntry, Move, At
    <3>4. routine' # routine
      BY <2>a
    <3> QED  BY <1>1, <3>1, <3>2, <3>3, <3>4 DEF Next, Tick, SetClock, vars
  <2> DEFINE k    == routine[c].key
             time == routine[c].time
             read == routine[c].read
             a    == admitted[k]
             b    == buckets[k]
  <2>2. k \in Keys /\ time \in Nat /\ read \in Nat /\ read + least <= time
    <3>1. routine[c] \in Routine /\ Past(routine[c], now, least, most)
      BY <1>1, <2>a DEF LimiterInv
    <3> QED  BY <2>a, <3>1 DEF Routine, Past, Shown
  <2>3. ~Admits(k, time)
    <3>1. Move(c, IF Admits(k, time) THEN [at |-> "serve"] ELSE Idle)
      BY <2>1 DEF Ask
    <3> HIDE DEF k, time
    <3> QED  BY <2>a, <3>1 DEF Move
  <2>4. /\ Told(a, b, now, Late, most) /\ a \in Seq(Admission) /\ b \in Bucket
        /\ least \in Nat /\ most \in Nat
    BY <1>1, <2>2 DEF LimiterInv, ClockInv
  <2>5. Limit \in Nat \ {0} /\ Window \in Nat \ {0}
    BY LimiterAssumption DEF LimiterAssumption
  <2>6. b.start # NoStart /\ ~(time >= b.start + Window) /\ b.count >= Limit
    <3>1. Current(k, time) = IF b.start = NoStart \/ time >= b.start + Window
                             THEN [start |-> time, count |-> 0] ELSE b
      BY DEF Current
    <3>2. ~(Current(k, time).count < Limit)
      BY <2>3 DEF Admits
    <3>3. b.count \in Nat
      BY <2>4 DEF Bucket
    <3> HIDE DEF b, k, time
    <3> QED  BY <2>5, <3>1, <3>2, <3>3
  <2>7. b.start \in Nat /\ b.count = Limit /\ Limit <= Len(a)
    BY <2>4, <2>5, <2>6 DEF Told, Bucket
  <2> HIDE DEF a, b, k, time, read
  <2> DEFINE h == Len(a) - Limit + 1
  <2>8. h \in DOMAIN a /\ h > Len(a) - b.count
    BY <2>4, <2>5, <2>7
  <2> HIDE DEF h
  <2>9. a[h].start = b.start /\ a[h].start <= a[h].at + most
    BY <2>4, <2>8 DEF Told
  <2>10. a[h] \in Admission
    BY <2>4, <2>8
  <2>11. a[h].at > read - Window - Spread
    <3>1. a[h].at \in Nat /\ a[h].start \in Nat
      BY <2>10 DEF Admission
    <3>2. /\ time < b.start + Window /\ b.start <= a[h].at + most /\ read + least <= time
      BY <2>2, <2>5, <2>6, <2>7, <2>9
    <3>3. \A x, t, s, w, y, lo, hi \in Nat :
            t < s + w /\ s <= y + hi /\ x + lo <= t => y > x - w - (hi - lo)
      OBVIOUS
    <3> QED  BY <2>2, <2>4, <2>5, <2>7, <3>1, <3>2, <3>3 DEF Spread
  <2> QED  BY <2>7, <2>11 DEF a, h, k, read
<1> QED  BY <1>1, RequestsInvariant, PTL DEF Spec, RefusalsEarned

(* The log holds the entries recorded last, without a gap                  *)
(* (audit/log.go:52).                                                      *)
THEOREM NewestAreKept == Spec => []NewestKept
<1>1. LogInv => NewestKept
  BY DEF LogInv
<1> QED  BY <1>1, RequestsInvariant, PTL
-----------------------------------------------------------------------------
(***************************************************************************)
(* Numbers as they are written out.                                        *)
(***************************************************************************)
(* Power is defined on every number: the powers of Base.                   *)
LEMMA PowerValues ==
  /\ Power \in [Nat -> Nat \ {0}]
  /\ Power[0] = 1
  /\ \A k \in Nat \ {0} : Power[k] = Base * Power[k - 1]
<1> DEFINE S == Nat \ {0}
           one == 1
           times(v) == Base * v
           step == [v \in S |-> times(v)]
           round(f) == [k \in Nat |-> IF k = 0 THEN 1 ELSE Base * f[k - 1]]
<1>1. one \in S /\ step \in [S -> S]
  <2>1. \A b, v \in Nat \ {0} : b * v \in Nat \ {0}
    OBVIOUS
  <2>2. \A v \in S : times(v) \in S
    BY <2>1, LogAssumption DEF LogAssumption
  <2>3. one \in S
    OBVIOUS
  <2> HIDE DEF S, one, times
  <2> QED  BY <2>2, <2>3
<1>2. PICK f : Continues(f, S, one, step)
  <2> HIDE DEF S, one, step
  <2> QED  BY <1>1, SequenceContinues
<1>3. f \in [Nat -> S] /\ f[0] = 1 /\ \A k \in Nat \ {0} : f[k] = Base * f[k - 1]
  <2>1. \A k \in Nat \ {0} : k - 1 \in Nat
    OBVIOUS
  <2>2. \A v \in S : step[v] = times(v)
    OBVIOUS
  <2>3. f \in [Nat -> S] /\ f[0] = 1 /\ \A k \in Nat \ {0} : f[k] = step[f[k - 1]]
    BY <1>2 DEF Continues
  <2>4. \A k \in Nat \ {0} : f[k] = times(f[k - 1])
    <3> HIDE DEF S, step, times
    <3> QED  BY <2>1, <2>2, <2>3
  <2> QED  BY <2>3, <2>4
<1>4. f = round(f)
  BY <1>3
<1>5. Power = CHOOSE g : g = round(g)
  BY Zenon DEF Power
<1>6. Power = round(Power)
  <2> HIDE DEF round
  <2> QED  BY <1>4, <1>5, Zenon
<1>7. DOMAIN Power = Nat /\ Power[0] = 1 /\ \A k \in Nat \ {0} : Power[k] = Base * Power[k - 1]
  BY <1>6
<1>8. \A k \in Nat : Power[k] \in S
  <2> DEFINE T == {k \in Nat : Power[k] \in S}
  <2>1. 0 \in T
    BY <1>7
  <2>2. ASSUME NEW k \in Nat, k \in T PROVE k + 1 \in T
    <3>1. k + 1 \in Nat \ {0} /\ (k + 1) - 1 = k /\ Power[k] \in S
      BY <2>2
    <3>2. Power[k + 1] = Base * Power[k]
      BY <1>7, <3>1
    <3>3. Base * Power[k] \in S
      BY <1>1, <3>1
    <3> QED  BY <3>1, <3>2, <3>3
  <2>3. Nat \subseteq T
    <3> HIDE DEF T
    <3> QED  BY <2>1, <2>2, SetInduction
  <2> QED  BY <2>3
<1> QED
  <2>1. Power \in [Nat -> S]
    BY <1>6, <1>8
  <2> QED  BY <1>7, <2>1

(* Every number has its digits.                                            *)
LEMMA DigitsExist ==
  ASSUME NEW n \in Nat \ {0}
  PROVE  /\ Digits(n) \in 1..n
         /\ Power[Digits(n) - 1] <= n /\ n < Power[Digits(n)]
<1> DEFINE T == {k \in Nat : k < Power[k]}
           U == {k \in 0..n : Power[k] <= n}
<1>1. 0 \in T
  BY PowerValues
<1>2. ASSUME NEW k \in Nat, k \in T PROVE k + 1 \in T
  <2>1. Power[k] \in Nat /\ Power[k + 1] = Base * Power[k] /\ k < Power[k]
    <3>1. k + 1 \in Nat \ {0} /\ (k + 1) - 1 = k
      OBVIOUS
    <3> QED  BY <1>2, <3>1, PowerValues
  <2>2. \A b, p \in Nat : b \notin {0, 1} /\ k < p => k + 1 < b * p
    OBVIOUS
  <2> QED  BY <2>1, <2>2, LogAssumption DEF LogAssumption
<1>3. n < Power[n]
  <2>1. Nat \subseteq T
    <3> HIDE DEF T
    <3> QED  BY <1>1, <1>2, SetInduction
  <2> QED  BY <2>1
<1>4. \E k \in 1..n : k - 1 \in U /\ k \notin U
  <2>1. 0 \in U /\ n \in 0..n /\ n \notin U
    BY <1>3, PowerValues
  <2> HIDE DEF U
  <2> QED  BY <2>1, RoundInduction
<1>5. \E k \in 1..n : Power[k - 1] <= n /\ n < Power[k]
  <2>1. PICK k \in 1..n : k - 1 \in U /\ k \notin U
    BY <1>4
  <2>2. k \in 0..n /\ Power[k] \in Nat
    BY PowerValues
  <2> QED  BY <2>1, <2>2
<1> QED  BY <1>5 DEF Digits

(* The numbers are written differently, so one of two comes first.         *)
LEMMA WrittenOrders ==
  ASSUME NEW m \in Nat \ {0}, NEW n \in Nat \ {0}, NEW o \in Nat \ {0}
  PROVE  /\ m # n => Written(m, n) \/ Written(n, m)
         /\ ~Written(m, m)
         /\ Written(m, n) /\ Written(n, o) => Written(m, o)
         /\ m < n /\ Digits(m) = Digits(n) => Written(m, n)
<1> DEFINE P(k) == Power[Digits(k)]
<1>1. /\ Digits(m) \in Nat /\ Digits(n) \in Nat /\ Digits(o) \in Nat
      /\ P(m) \in Nat \ {0} /\ P(n) \in Nat \ {0} /\ P(o) \in Nat \ {0}
  BY DigitsExist, PowerValues
<1> DEFINE Less(a, b) == a * P(b) < b * P(a)
           Same(a, b) == a * P(b) = b * P(a)
<1>2. \A a, b : Written(a, b) <=> Less(a, b) \/ (Same(a, b) /\ Digits(a) < Digits(b))
  BY Zenon DEF Written
<1>3. \A a, b, p, q \in Nat \ {0} : a * q \in Nat /\ b * p \in Nat
  OBVIOUS
<1>4. m # n => Written(m, n) \/ Written(n, m)
  <2>1. CASE Digits(m) = Digits(n)
    <3>1. \A a, b, p \in Nat \ {0} : a < b => a * p < b * p
      OBVIOUS
    <3>2. m # n => Less(m, n) \/ Less(n, m)
      BY <1>1, <2>1, <3>1
    <3> QED  BY <1>2, <3>2
  <2>2. CASE Digits(m) # Digits(n)
    <3>1. Less(m, n) \/ Less(n, m) \/ (Same(m, n) /\ Same(n, m))
      BY <1>1, <1>3
    <3>2. Digits(m) < Digits(n) \/ Digits(n) < Digits(m)
      BY <1>1, <2>2
    <3> QED  BY <1>2, <3>1, <3>2, Zenon
  <2> QED  BY <2>1, <2>2
<1>5. ~Written(m, m)
  BY <1>1, <1>2, <1>3
<1>6. m < n /\ Digits(m) = Digits(n) => Written(m, n)
  <2>1. \A a, b, p \in Nat \ {0} : a < b => a * p < b * p
    OBVIOUS
  <2> QED  BY <1>1, <1>2, <2>1
<1>7. Written(m, n) /\ Written(n, o) => Written(m, o)
  <2>1. ASSUME NEW a \in Nat, NEW b \in Nat, NEW c \in Nat,
               NEW p \in Nat \ {0}, NEW q \in Nat \ {0}, NEW r \in Nat \ {0},
               a * q <= b * p, b * r <= c * q
        PROVE  /\ a * r <= c * p
               /\ a * q < b * p \/ b * r < c * q => a * r < c * p
    <3>1. /\ a * q \in Nat /\ b * p \in Nat /\ b * r \in Nat
          /\ c * q \in Nat /\ a * r \in Nat /\ c * p \in Nat
      OBVIOUS
    <3>2. \A x, y \in Nat : \A z \in Nat \ {0} :
            (x <= y <=> x * z <= y * z) /\ (x < y <=> x * z < y * z)
      OBVIOUS
    <3>3. /\ (a * q) * r \in Nat /\ (b * p) * r \in Nat /\ (c * q) * p \in Nat
          /\ (a * q) * r = (a * r) * q
          /\ (b * p) * r = (b * r) * p
          /\ (c * q) * p = (c * p) * q
      OBVIOUS
    <3>4. /\ (a * q) * r <= (b * p) * r
          /\ a * q < b * p => (a * q) * r < (b * p) * r
          /\ (b * r) * p <= (c * q) * p
          /\ b * r < c * q => (b * r) * p < (c * q) * p
      BY <2>1, <3>1, <3>2
    <3>5. /\ (a * r) * q <= (c * p) * q
          /\ a * q < b * p \/ b * r < c * q => (a * r) * q < (c * p) * q
      <4>1. \A x, y, z \in Nat : x <= y /\ y <= z =>
              /\ x <= z
              /\ x < y \/ y < z => x < z
        OBVIOUS
      <4> QED  BY <3>3, <3>4, <4>1
    <3> QED  BY <3>1, <3>2, <3>5
  <2>2. ASSUME Less(m, n) \/ Same(m, n), Less(n, o) \/ Same(n, o)
        PROVE  /\ Less(m, o) \/ Same(m, o)
               /\ Less(m, n) \/ Less(n, o) => Less(m, o)
    <3>1. /\ m * P(n) \in Nat /\ n * P(m) \in Nat /\ n * P(o) \in Nat
          /\ o * P(n) \in Nat /\ m * P(o) \in Nat /\ o * P(m) \in Nat
      BY <1>1, <1>3
    <3>2. m * P(n) <= n * P(m) /\ n * P(o) <= o * P(n)
      BY <2>2, <3>1
    <3>3. m \in Nat /\ n \in Nat /\ o \in Nat
      OBVIOUS
    <3>4. /\ m * P(o) <= o * P(m)
          /\ Less(m, n) \/ Less(n, o) => Less(m, o)
      BY <1>1, <2>1, <3>2, <3>3
    <3> QED  BY <3>1, <3>4
  <2>3. Digits(m) < Digits(n) /\ Digits(n) < Digits(o) => Digits(m) < Digits(o)
    BY <1>1
  <2> HIDE DEF Less, Same
  <2> QED  BY <1>2, <2>2, <2>3, Zenon
<1> QED  BY <1>4, <1>5, <1>6, <1>7
-----------------------------------------------------------------------------
(***************************************************************************)
(* The order of a listing.                                                 *)
(***************************************************************************)
(* A set of entries that Newer orders: of two entries one is newer.        *)
Ordered(F) ==
  /\ \A e, f \in F : e # f => Newer(e, f) \/ Newer(f, e)
  /\ \A e \in F : ~Newer(e, e)
  /\ \A e, f, g \in F : Newer(e, f) /\ Newer(f, g) => Newer(e, g)

(* Entries with numbers of their own are ordered.                          *)
LEMMA NewerOrders ==
  ASSUME NEW F \in SUBSET Entry,
         \A e \in F : e.number # 0,
         \A e, f \in F : e.number = f.number => e = f
  PROVE  Ordered(F)
<1>1. \A e \in F : e.number \in Nat \ {0} /\ e.at \in Nat
  BY DEF Entry
<1>2. ASSUME NEW e \in F, NEW f \in F, e # f PROVE Newer(e, f) \/ Newer(f, e)
  <2>1. Written(e.number, f.number) \/ Written(f.number, e.number)
    BY <1>1, <1>2, WrittenOrders
  <2>2. e.at > f.at \/ f.at > e.at \/ (e.at = f.at /\ f.at = e.at)
    BY <1>1
  <2> QED  BY <2>1, <2>2, Zenon DEF Newer
<1>3. ASSUME NEW e \in F PROVE ~Newer(e, e)
  <2>1. ~(e.at > e.at) /\ ~Written(e.number, e.number)
    BY <1>1, WrittenOrders
  <2> QED  BY <2>1, Zenon DEF Newer
<1>4. ASSUME NEW e \in F, NEW f \in F, NEW g \in F, Newer(e, f), Newer(f, g) PROVE Newer(e, g)
  <2>1. Written(f.number, e.number) /\ Written(g.number, f.number) => Written(g.number, e.number)
    BY <1>1, WrittenOrders
  <2>2. /\ e.at > f.at /\ (f.at > g.at \/ f.at = g.at) => e.at > g.at
        /\ e.at = f.at /\ f.at > g.at => e.at > g.at
        /\ e.at = f.at /\ f.at = g.at => e.at = g.at
    BY <1>1
  <2> QED  BY <1>4, <2>1, <2>2, Zenon DEF Newer
<1> QED  BY <1>2, <1>3, <1>4 DEF Ordered

(* Then their ranks count them, the newest first.                          *)
LEMMA RanksCount ==
  ASSUME NEW F, IsFiniteSet(F), Ordered(F)
  PROVE  /\ Cardinality(F) \in Nat
         /\ \A e \in F : Rank(e, F) \in Nat /\ Rank(e, F) + 1 \in 1..Cardinality(F)
         /\ \A e, f \in F : Newer(f, e) => Rank(f, F) < Rank(e, F)
         /\ \A e, f \in F : Rank(e, F) = Rank(f, F) => e = f
         /\ \A i \in 1..Cardinality(F) : \E e \in F : Rank(e, F) = i - 1
<1> DEFINE n == Cardinality(F)
           before(e) == {f \in F \ {e} : Newer(f, e)}
           place == [e \in F |-> Rank(e, F) + 1]
<1>1. n \in Nat
  BY FS_CardinalityType
<1>2. ASSUME NEW e \in F
      PROVE  IsFiniteSet(before(e)) /\ Rank(e, F) = Cardinality(before(e))
  <2>1. before(e) \in SUBSET F /\ Rank(e, F) = Cardinality(before(e))
    BY DEF Rank
  <2> HIDE DEF before
  <2>2. IsFiniteSet(before(e))
    BY <2>1, FS_Subset
  <2> QED  BY <2>1, <2>2
<1>r. \A e \in F : Rank(e, F) \in Nat
  <2> HIDE DEF before
  <2> QED  BY <1>2, FS_CardinalityType
<1>3. ASSUME NEW e \in F PROVE Rank(e, F) + 1 \in 1..n
  <2>1. before(e) \in SUBSET F /\ before(e) # F
    OBVIOUS
  <2>2. Cardinality(before(e)) <= n /\ Cardinality(before(e)) # n
    <3> HIDE DEF before
    <3> QED  BY <2>1, FS_Subset
  <2> HIDE DEF before
  <2> QED  BY <1>1, <1>2, <1>r, <2>2
<1>4. ASSUME NEW e \in F, NEW f \in F, Newer(f, e) PROVE Rank(f, F) < Rank(e, F)
  <2>1. f \in before(e) /\ f \notin before(f)
    BY <1>4 DEF Ordered
  <2>2. before(f) \in SUBSET before(e)
    BY <1>4 DEF Ordered
  <2>3. Cardinality(before(f)) <= Cardinality(before(e)) /\ Cardinality(before(f)) # Cardinality(before(e))
    <3>1. IsFiniteSet(before(e)) /\ before(e) # before(f)
      BY <1>2, <2>1
    <3> HIDE DEF before
    <3> QED  BY <2>2, <3>1, FS_Subset
  <2> HIDE DEF before
  <2> QED  BY <1>2, <1>r, <2>3
<1>5. ASSUME NEW e \in F, NEW f \in F, Rank(e, F) = Rank(f, F) PROVE e = f
  <2>1. ~(Rank(e, F) < Rank(f, F)) /\ ~(Rank(f, F) < Rank(e, F))
    BY <1>r, <1>5
  <2> QED  BY <1>4, <2>1 DEF Ordered
<1>6. ASSUME NEW i \in 1..n PROVE \E e \in F : Rank(e, F) = i - 1
  <2>1. place \in [F -> 1..n]
    BY <1>3
  <2>2. \A e, f \in F : place[e] = place[f] => e = f
    <3>1. \A e \in F : Rank(e, F) + 1 \in Nat /\ (Rank(e, F) + 1) - 1 = Rank(e, F)
      BY <1>r
    <3>2. \A e, f \in F : Rank(e, F) + 1 = Rank(f, F) + 1 => Rank(e, F) = Rank(f, F)
      BY <1>r
    <3> QED  BY <1>5, <3>2
  <2>3. place \in Injection(F, 1..n)
    <3> HIDE DEF place, n
    <3> QED  BY <2>1, <2>2 DEF Injection, IsInjective
  <2>4. IsFiniteSet(1..n) /\ Cardinality(1..n) = n
    BY <1>1, FS_Interval
  <2>5. place \in Surjection(F, 1..n)
    <3> HIDE DEF place
    <3> QED  BY <2>3, <2>4, FS_Injection
  <2>6. PICK e \in F : place[e] = i
    BY <2>5 DEF Surjection
  <2>7. Rank(e, F) + 1 = i
    BY <2>6
  <2> QED  BY <1>r, <2>7
<1> QED  BY <1>1, <1>r, <1>3, <1>4, <1>5, <1>6

(* A listing shows every entry that was found and is newer than one that it *)
(* shows, before that one.                                                 *)
LEMMA ListShows ==
  ASSUME NEW labels, NEW limit \in Nat, IsFiniteSet(Found(labels)), Ordered(Found(labels)),
         NEW i \in DOMAIN List(labels, limit)
  PROVE  LET list == List(labels, limit) IN
         /\ list[i] \in Found(labels)
         /\ \A f \in Found(labels) : Newer(f, list[i]) => \E h \in 1..(i - 1) : list[h] = f
<1> DEFINE F == Found(labels)
           n == Cardinality(F)
           m == IF limit > 0 /\ n > limit THEN limit ELSE n
           at(k) == CHOOSE e \in F : Rank(e, F) = k - 1
           list == List(labels, limit)
<1>1. list = [k \in 1..m |-> at(k)]
  BY DEF List
<1>2. /\ n \in Nat
      /\ \A e \in F : Rank(e, F) \in Nat /\ Rank(e, F) + 1 \in 1..n
      /\ \A e, f \in F : Newer(f, e) => Rank(f, F) < Rank(e, F)
      /\ \A e, f \in F : Rank(e, F) = Rank(f, F) => e = f
      /\ \A k \in 1..n : \E e \in F : Rank(e, F) = k - 1
  BY RanksCount
<1>3. m \in Nat /\ m <= n /\ DOMAIN list = 1..m /\ i \in 1..m
  BY <1>1, <1>2
<1> HIDE DEF F, n, m
<1>4. ASSUME NEW k \in 1..m PROVE list[k] \in F /\ Rank(list[k], F) = k - 1
  <2>1. k \in 1..n
    BY <1>2, <1>3
  <2>2. at(k) \in F /\ Rank(at(k), F) = k - 1
    BY <1>2, <2>1
  <2>3. list[k] = at(k)
    BY <1>1
  <2> HIDE DEF at
  <2> QED  BY <2>2, <2>3
<1> HIDE DEF at, list
<1>5. ASSUME NEW f \in F, Newer(f, list[i]) PROVE \E h \in 1..(i - 1) : list[h] = f
  <2> DEFINE r == Rank(f, F)
             h == r + 1
  <2>1. list[i] \in F /\ Rank(list[i], F) = i - 1
    BY <1>3, <1>4
  <2>2. r < i - 1 /\ h \in 1..n
    BY <1>2, <1>5, <2>1
  <2>3. r \in Nat
    BY <1>2
  <2> HIDE DEF r
  <2>5. h \in 1..(i - 1) /\ h \in 1..m /\ h - 1 = r
    BY <1>3, <2>2, <2>3
  <2>6. list[h] \in F /\ Rank(list[h], F) = r
    BY <1>4, <2>5
  <2>7. list[h] = f
    BY <1>2, <2>6 DEF r
  <2> QED  BY <2>5, <2>7
<1> QED  BY <1>3, <1>4, <1>5 DEF F, list

(* The kept entries show readings of the clock.                            *)
Kept == {entries[i] : i \in DOMAIN entries}

Timed == \A e \in Kept : Shown(e.at, e.read, least, most)

(* What Record keeps was kept before or is the new entry.                  *)
LEMMA RecordKeeps ==
  ASSUME entries \in Seq(Entry), number \in Nat,
         NEW l \in Labels, NEW at \in Nat, NEW read \in Nat, Record(l, at, read)
  PROVE  Kept' \subseteq
           Kept \cup {[number |-> number + 1, label |-> l, at |-> at, read |-> read]}
<1> DEFINE e == [number |-> number + 1, label |-> l, at |-> at, read |-> read]
           all == Append(entries, e)
<1>1. entries' = Newest(all)
  BY DEF Record
<1>2. e \in Entry
  BY DEF Entry
<1> HIDE DEF e
<1>3. /\ all \in Seq(Entry)
      /\ \A i \in DOMAIN all : all[i] = e \/ (i \in DOMAIN entries /\ all[i] = entries[i])
  BY <1>2
<1> HIDE DEF all
<1>a. Keep \in Nat \ {0}
  BY LogAssumption DEF LogAssumption
<1>4. \A i \in DOMAIN Newest(all) : \E j \in DOMAIN all : Newest(all)[i] = all[j]
  <2>1. CASE Len(all) > Keep
    <3> DEFINE m == Len(all) - Keep + 1
               list == SubSeq(all, m, Len(all))
    <3>1. Newest(all) = list
      BY <2>1 DEF Newest
    <3>2. m \in 1..Len(all) /\ Len(all) \in Nat
      BY <1>3, <1>a, <2>1
    <3> HIDE DEF m
    <3>3. \A i \in DOMAIN list : m + i - 1 \in DOMAIN all /\ list[i] = all[m + i - 1]
      BY <1>3, <3>2
    <3> HIDE DEF list
    <3> QED  BY <3>1, <3>3
  <2>2. CASE ~(Len(all) > Keep)
    BY <2>2 DEF Newest
  <2> QED  BY <2>1, <2>2
<1>5. ASSUME NEW i \in DOMAIN entries' PROVE entries'[i] \in Kept \cup {e}
  <2>1. PICK j \in DOMAIN all : entries'[i] = all[j]
    BY <1>1, <1>4, <1>5
  <2> QED  BY <1>3, <2>1 DEF Kept
<1> QED  BY <1>5 DEF Kept, e

(* Every step keeps the readings: what is recorded was read.               *)
LEMMA TimedNext == LimiterInv /\ LogInv /\ Timed /\ [Next]_vars => Timed'
<1> SUFFICES ASSUME LimiterInv, LogInv, Timed, [Next]_vars PROVE Timed'
  OBVIOUS
<1>a. /\ number \in Nat /\ entries \in Seq(Entry)
      /\ routine \in [Goroutines -> Routine]
      /\ \A g \in Goroutines : Past(routine[g], now, least, most)
  BY DEF LimiterInv, LogInv
<1>b. \A e \in Kept : e.at \in Nat /\ e.read \in Nat
  <2>1. \A e \in Kept : e \in Entry
    BY <1>a DEF Kept
  <2> QED  BY <2>1 DEF Entry
<1>1. ASSUME UNCHANGED log, UNCHANGED clock PROVE Timed'
  <2>1. entries' = entries /\ least' = least /\ most' = most
    BY <1>1 DEF log, clock
  <2> QED  BY <2>1 DEF Timed, Kept
<1>2. ASSUME NEW g \in Goroutines, RecordEntry(g) PROVE Timed'
  <2> DEFINE r == routine[g]
  <2>1. r.at = "record" /\ r \in Routine /\ Past(r, now, least, most)
    BY <1>2, <1>a DEF RecordEntry, At
  <2>2. r.time \in Nat /\ r.read \in Nat /\ Shown(r.time, r.read, least, most)
    BY <2>1 DEF Routine, Past
  <2>3. PICK l \in Labels : Record(l, r.time, r.read)
    BY <1>2 DEF RecordEntry
  <2> DEFINE n == [number |-> number + 1, label |-> l, at |-> r.time, read |-> r.read]
  <2>4. n.at = r.time /\ n.read = r.read /\ least' = least /\ most' = most
    BY <1>2 DEF RecordEntry, clock
  <2> HIDE DEF r
  <2>5. Kept' \subseteq Kept \cup {n}
    BY <1>a, <2>2, <2>3, RecordKeeps
  <2> HIDE DEF n
  <2> QED  BY <2>2, <2>4, <2>5 DEF Timed
<1>3. CASE Tick \/ SetClock
  <2>1. ClockInv /\ ClockInv' /\ least' <= least /\ most <= most'
    BY <1>3, ClockNext DEF LimiterInv
  <2>2. entries' = entries
    BY <1>3 DEF Tick, SetClock, log
  <2>3. ASSUME NEW e \in Kept PROVE Shown(e.at, e.read, least', most')
    BY <1>b, <2>1, <2>3 DEF Timed, Shown, ClockInv
  <2> QED  BY <2>2, <2>3 DEF Timed, Kept
<1> QED  BY <1>1, <1>2, <1>3 DEF Next, Arrive, Ask, Answer, Audit, vars, log, clock

(* So a listing follows the times and the numbers.                         *)
LEMMA ListingInOrder == LimiterInv /\ LogInv /\ Timed => ListingFollows
<1> SUFFICES ASSUME LimiterInv, LogInv, Timed PROVE ListingFollows
  OBVIOUS
<1>1. /\ entries \in Seq(Entry) /\ number \in Nat /\ Kept \in SUBSET Entry
      /\ \A i \in DOMAIN entries : entries[i].number = number - Len(entries) + i
      /\ Len(entries) <= number
  BY LogAssumption DEF LogAssumption, LogInv, NewestKept, Kept
<1>2. ASSUME NEW labels PROVE Found(labels) \in SUBSET Kept
  BY DEF Found, Kept
<1>3. IsFiniteSet(Kept)
  <2> DEFINE n == Len(entries)
             f == [i \in 1..n |-> entries[i]]
  <2>1. n \in Nat /\ Kept = {entries[i] : i \in 1..n}
    <3>1. DOMAIN entries = 1..n /\ n \in Nat
      BY <1>1
    <3> HIDE DEF n
    <3> QED  BY <3>1 DEF Kept
  <2>2. IsFiniteSet(1..n)
    <3>1. 1 \in Int /\ n \in Int
      BY <2>1
    <3> HIDE DEF n
    <3> QED  BY <3>1, FS_Interval
  <2>3. f \in Surjection(1..n, Kept)
    BY <2>1 DEF Surjection
  <2> HIDE DEF n, f
  <2> QED  BY <2>2, <2>3, FS_Surjection
<1>4. /\ \A e \in Kept : e.number \in Nat \ {0} /\ e.at \in Nat /\ e.read \in Nat
      /\ \A e, f \in Kept : e.number = f.number => e = f
  <2>1. \A i \in DOMAIN entries : i \in Nat \ {0} /\ Len(entries) \in Nat
    BY <1>1
  <2>2. \A e \in Kept : \E i \in DOMAIN entries : e = entries[i] /\ e.number = number - Len(entries) + i
    BY <1>1 DEF Kept
  <2>3. \A i, j \in DOMAIN entries : number - Len(entries) + i = number - Len(entries) + j => i = j
    BY <1>1, <2>1
  <2>4. \A i \in DOMAIN entries : number - Len(entries) + i # 0
    BY <1>1, <2>1
  <2>5. \A e \in Kept : e.number \in Nat /\ e.at \in Nat /\ e.read \in Nat
    BY <1>1 DEF Entry
  <2>6. \A e \in Kept : e.number # 0
    BY <2>2, <2>4
  <2>7. ASSUME NEW e \in Kept, NEW f \in Kept, e.number = f.number PROVE e = f
    <3>1. PICK i \in DOMAIN entries : e = entries[i] /\ e.number = number - Len(entries) + i
      BY <2>2
    <3>2. PICK j \in DOMAIN entries : f = entries[j] /\ f.number = number - Len(entries) + j
      BY <2>2
    <3> QED  BY <2>3, <2>7, <3>1, <3>2
  <2> QED  BY <2>5, <2>6, <2>7
<1>5. ASSUME NEW labels \in SUBSET Labels, NEW limit \in 0..Keep,
             NEW i \in DOMAIN List(labels, limit), NEW f \in Found(labels),
             Later(f, List(labels, limit)[i])
      PROVE  \E h \in 1..(i - 1) : List(labels, limit)[h] = f
  <2> DEFINE list == List(labels, limit)
             e == list[i]
  <2>1. IsFiniteSet(Found(labels))
    BY <1>2, <1>3, FS_Subset
  <2>2. Ordered(Found(labels))
    <3>1. Found(labels) \in SUBSET Entry
      BY <1>1, <1>2
    <3> QED  BY <1>2, <1>4, <3>1, NewerOrders
  <2>3. limit \in Nat
    BY LogAssumption DEF LogAssumption
  <2>4. /\ e \in Found(labels)
        /\ Newer(f, e) => \E h \in 1..(i - 1) : list[h] = f
    BY <2>1, <2>2, <2>3, ListShows
  <2>5. Later(f, e)
    BY <1>5
  <2> HIDE DEF list, e
  <2>6. e \in Kept /\ f \in Kept
    BY <1>2, <2>4
  <2>7. e.at <= f.at
    <3>1. /\ e.at <= e.read + most /\ f.read + least <= f.at /\ f.read >= e.read + (most - least)
      BY <2>5, <2>6 DEF Later, Timed, Shown, Spread
    <3>2. e.at \in Nat /\ e.read \in Nat /\ f.at \in Nat /\ f.read \in Nat
      BY <1>4, <2>6
    <3>3. least \in Nat /\ most \in Nat
      BY DEF LimiterInv, ClockInv
    <3> QED  BY <3>1, <3>2, <3>3
  <2>8. e.at = f.at => Written(e.number, f.number)
    <3>1. e.at = f.at => e.number < f.number /\ Digits(e.number) = Digits(f.number)
      BY <2>5 DEF Later
    <3> QED  BY <1>4, <2>6, <3>1, WrittenOrders
  <2>9. f.at > e.at \/ (f.at = e.at /\ e.at = f.at)
    BY <1>4, <2>6, <2>7
  <2>10. Newer(f, e)
    BY <2>8, <2>9, Zenon DEF Newer
  <2> QED  BY <2>4, <2>10 DEF list
<1> QED  BY <1>5 DEF ListingFollows

(* What a handler or a job recorded with a later reading of the clock, by  *)
(* no less than the wall clock was set by, is listed first (audit/log.go   *)
(* List): whatever the filter, and a limit cuts off the end.               *)
THEOREM ListingsFollow == Spec => []ListingFollows
<1>1. Init => Timed
  BY DEF Init, Timed, Kept
<1> QED  BY <1>1, RequestsInvariant, TimedNext, ListingInOrder, PTL DEF Spec
=============================================================================
