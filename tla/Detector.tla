------------------------------ MODULE Detector ------------------------------
(***************************************************************************)
(* What an evaluation computes from the stored samples and the rules of a  *)
(* policy (internal/store/memory.go ListSamples, internal/domain/          *)
(* telemetry.go BuildWindow, internal/aggregate/detector.go), over integer *)
(* values: comparisons and sums are all that is done with them.  A loop is *)
(* a recursive function: its value at k is what k rounds have computed.    *)
(***************************************************************************)
EXTENDS Integers, Sequences

CONSTANTS
  Width,     \* width of a window
  ListLimit  \* ListSamples returns no more than this

Comparators == {"above", "below", "outside", "rate"}

Least(a, b)    == IF a < b THEN a ELSE b
Greatest(a, b) == IF a > b THEN a ELSE b
-----------------------------------------------------------------------------
(* WindowBounds: [start, end) ends at the time of the evaluation.          *)
Start(time) == time - Width

InWindow(x, time) == Start(time) <= x.observed /\ x.observed < time

(* One round of the loop of ListSamples: a full list ends it.              *)
List(list, x, s, time) ==
  IF x.stream = s /\ InWindow(x, time) /\ Len(list) < ListLimit THEN Append(list, x) ELSE list

FaultListSamples(samples, s, time) ==
  LET list[k \in 0..Len(samples)] ==
        IF k = 0 THEN <<>> ELSE List(list[k - 1], samples[k], s, time)
  IN list[Len(samples)]

(* The samples of a stream in the window, the last inserted first.         *)
ListSamples(samples, s, time) ==
  LET list[k \in 0..Len(samples)] ==
        IF k = 0 THEN <<>> ELSE List(list[k - 1], samples[Len(samples) - k + 1], s, time)
  IN list[Len(samples)]

FaultEmptyWindow(x) ==
  [device |-> x.device, stream |-> x.stream, count |-> 0, min |-> 0, max |-> 0,
   total |-> 0, last |-> 0, bad |-> 0]

(* Minimum and maximum start at the first sample of the list.              *)
EmptyWindow(x) ==
  [device |-> x.device, stream |-> x.stream, count |-> 0, min |-> x.value, max |-> x.value,
   total |-> 0, last |-> 0, bad |-> 0]

(* One round of the loop of BuildWindow.  The average is total / count.    *)
AddToWindow(win, x) ==
  [device |-> win.device, stream |-> win.stream, count |-> win.count + 1,
   min |-> Least(win.min, x.value), max |-> Greatest(win.max, x.value),
   total |-> win.total + x.value, last |-> x.value,
   bad |-> win.bad + IF x.good THEN 0 ELSE 1]

(* BuildWindow returns an error: no samples, or samples of two streams.    *)
BuildFails(list, time) ==
  \/ \A i \in DOMAIN list : ~InWindow(list[i], time)
  \/ \E i \in DOMAIN list :
       list[i].device # list[1].device \/ list[i].stream # list[1].stream

BuildWindow(list, time) ==
  LET window[k \in 0..Len(list)] ==
        IF k = 0 THEN EmptyWindow(list[1])
        ELSE IF InWindow(list[k], time) THEN AddToWindow(window[k - 1], list[k])
        ELSE window[k - 1]
  IN window[Len(list)]
-----------------------------------------------------------------------------
(* Rule.Validate: what a stored policy's rules satisfy.                    *)
Valid(rule) ==
  /\ rule.comparator \in {"above", "below"} => rule.lower # 0 \/ rule.upper # 0
  /\ rule.comparator = "outside" => rule.lower < rule.upper
  /\ rule.comparator = "rate" => rule.upper > 0

Distance(a, b) == IF a < b THEN b - a ELSE a - b

Triggered(win, rule) ==
  CASE rule.comparator = "above"   -> win.last > rule.upper \/ win.last > rule.lower
    [] rule.comparator = "below"   -> win.last < rule.lower \/ win.last < rule.upper
    [] rule.comparator = "outside" -> win.last < rule.lower \/ win.last > rule.upper
    [] rule.comparator = "rate"    ->
         win.count > 1 /\ Distance(win.last, win.min) > rule.upper * (win.count - 1)

(* The detections by the index of their rule.                              *)
Detect(win, signal, rules) ==
  LET found[k \in 0..Len(rules)] ==
        IF k = 0 THEN <<>>
        ELSE IF rules[k].signal = signal /\ Triggered(win, rules[k]) THEN Append(found[k - 1], k)
        ELSE found[k - 1]
  IN found[Len(rules)]
=============================================================================
