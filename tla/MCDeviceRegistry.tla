-------------------------- MODULE MCDeviceRegistry --------------------------
(* Instances of DeviceRegistry for TLC: which ids are interchangeable.     *)
EXTENDS DeviceRegistry, TLC

CONSTANTS c1, c2, c3, d1, d2, s1, s2

(* Clients and stream ids are interchangeable, and so are the devices that *)
(* are not seeded.                                                         *)
Symmetry ==
  Permutations(Clients) \cup Permutations(StreamIDs) \cup Permutations(DeviceIDs \ Seeded)
=============================================================================
