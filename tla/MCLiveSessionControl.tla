------------------------ MODULE MCLiveSessionControl ------------------------
(* Instances of LiveSessionControl for TLC. *)
EXTENDS LiveSessionControl, TLC

CONSTANTS c1, c2, e1

Symmetry == Permutations(Clients)
=============================================================================
