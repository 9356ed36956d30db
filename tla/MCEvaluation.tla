---------------------------- MODULE MCEvaluation ----------------------------
(* Instances of Evaluation for TLC: goroutines of one kind and devices are *)
(* interchangeable.                                                        *)
EXTENDS Evaluation, TLC

CONSTANTS c1, c2, w1, w2, d1, d2, g1, g2

(* An evaluation of g1 detects a mild anomaly and then a severe one, one of*)
(* another signal a mild one.                                              *)
MCDetections == [g \in Signals |-> IF g = g1 THEN {<<1, 2>>} ELSE {<<1>>}]

Symmetry ==
  Permutations(Clients) \cup Permutations(Workers) \cup Permutations(Devices)
=============================================================================
