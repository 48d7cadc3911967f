----------------------------- MODULE MCHadConfig -----------------------------
(***************************************************************************)
(* HadConfig on small tables: two or three interfaces on two positions of  *)
(* each link.                                                              *)
(***************************************************************************)
EXTENDS HadConfig

CONSTANTS i1, i2, i3, a1, a2, x1, x2

\* The name of i2 begins with that of i1 (eth10, eth1).
OneTwo == {<<i1, i2>>}

\* Virtual addresses play the same part.
Symmetry == Permutations(Vip) \cup Permutations(V6)
=============================================================================
