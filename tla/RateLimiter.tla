---------------------------- MODULE RateLimiter ----------------------------
(***************************************************************************)
(* The limiter of requests (internal/ratelimit/limiter.go): a bucket per   *)
(* key counts the requests of a window that starts with the first request  *)
(* after the last window ended.  Allow runs under the limiter's mutex,     *)
(* with a time that its caller read before.                                *)
(***************************************************************************)
EXTENDS Integers

CONSTANTS
  Keys,    \* what requests are counted by: a header, or the remote address
  Limit,   \* requests of a key that a window admits
  Window,  \* length of a window, the retry-after of a refusal
  NoStart  \* the zero time of a key that was never seen

Bucket == [start: Nat \cup {NoStart}, count: Nat]

(* New replaces other values by a limit of 1 and a window of a minute.     *)
ASSUME LimiterAssumption ==
  /\ Limit \in Nat \ {0} /\ Window \in Nat \ {0}
  /\ NoStart \notin Nat

VARIABLE buckets  \* the map `values`

NoBuckets == [k \in Keys |-> [start |-> NoStart, count |-> 0]]

FaultCurrent(k, time) ==
  LET b == buckets[k] IN
  IF b.start = NoStart \/ time > b.start + Window THEN [start |-> time, count |-> 0] ELSE b

(* The bucket that a request of this time counts in.                       *)
Current(k, time) ==
  LET b == buckets[k] IN
  IF b.start = NoStart \/ time >= b.start + Window THEN [start |-> time, count |-> 0] ELSE b

FaultAdmits(k, time) == Current(k, time).count <= Limit

Admits(k, time) == Current(k, time).count < Limit

(* Both outcomes store the bucket, which a request alone does not count in.*)
Allow(k, time) ==
  buckets' = [buckets EXCEPT ![k] =
    [start |-> Current(k, time).start,
     count |-> Current(k, time).count + IF Admits(k, time) THEN 1 ELSE 0]]
=============================================================================
