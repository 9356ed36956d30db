----------------------------- MODULE MCResponse -----------------------------
(***************************************************************************)
(* Small instances of Response for TLC.                                    *)
(***************************************************************************)
EXTENDS Response, TLC

CONSTANTS c1, c2, w1, w2, i1, i2, a1, a2, k1, k2

(* Goroutines of one kind are interchangeable, and so are ids that callers *)
(* choose: nothing orders them.  Used only by runs without liveness        *)
(* properties.                                                             *)
Symmetry == Permutations(Clients) \cup Permutations(Workers) \cup
            Permutations(ActionIDs) \cup Permutations(Keys) \cup Permutations(IncidentIDs)
=============================================================================
