---------------------------- MODULE MCIngestion ----------------------------
(* Instances of Ingestion for TLC.                                         *)
EXTENDS Ingestion

CONSTANTS c1, c2, w1, d1, d2, s1, s2, g1

MCSignalOf == [s \in StreamIDs |-> g1]

In(s, v, time, good) ==
  [stream |-> s, value |-> v, good |-> good, observed |-> time, valid |-> TRUE]

(* One sample, two streams in a batch, a fall with a bad sample and a       *)
(* sample beyond the window, and a batch that is refused at its end.        *)
MCBatches ==
  {<<In(s1, 2, 0, TRUE)>>,
   <<In(s2, 1, 0, TRUE), In(s1, 0, 0, FALSE)>>,
   <<In(s1, 3, 0, TRUE), In(s1, 1, 0, FALSE), In(s1, 0, 1, TRUE)>>,
   <<In(s1, 2, 0, TRUE), [In(s1, 2, 0, TRUE) EXCEPT !.valid = FALSE]>>}

(* A policy of rules of every kind, one threshold left out.                 *)
MCRule(comparator, lower, upper) ==
  [signal |-> g1, comparator |-> comparator, lower |-> lower, upper |-> upper]

MCRules == {<<MCRule("above", 0, 2), MCRule("below", 1, 0), MCRule("outside", 1, 2),
              MCRule("rate", 0, 1)>>}
=============================================================================
