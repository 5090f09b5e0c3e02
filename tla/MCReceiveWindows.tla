---------------------------- MODULE MCReceiveWindows ----------------------------
(* Instances of ReceiveWindows for TLC. *)
EXTENDS ReceiveWindows, TLC

CONSTANTS d1, d2, g1, g2, m1, m2, here, there, f1, f2

\* A gateway covers the place it stands at.
SamePlace == {<<p, p>> : p \in Place}

Symmetry == Permutations(Msg) \cup Permutations(Gw) \cup Permutations(Place)
              \cup Permutations(Freq) \cup Permutations(Dev)
=================================================================================
