----------------------------- MODULE MCPolicies -----------------------------
(* Instances of Policies for TLC: clients, devices and policy ids are      *)
(* interchangeable.                                                        *)
EXTENDS Policies, TLC

CONSTANTS c1, c2, p1, p2, d1, d2

Symmetry == Permutations(Clients) \cup Permutations(PolicyIDs) \cup Permutations(Devices)
=============================================================================
