----------------------------- MODULE MCRequests -----------------------------
(* Instances of Requests for TLC.                                          *)
EXTENDS Requests, TLC

CONSTANTS c1, c2, w1, k1, l1

(* Properties and actions treat clients alike.                             *)
Alike == Permutations(Clients)
=============================================================================
