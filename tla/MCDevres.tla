------------------------------ MODULE MCDevres ------------------------------
(***************************************************************************)
(* Instances of the managed resources: as many nodes as it takes to have    *)
(* one of each phase on the list and to lose or give back one of them.      *)
(***************************************************************************)
EXTENDS Devres, TLC

CONSTANTS r1, r2, r3, r4

FourNodes == {r1, r2, r3, r4}
NodeSymmetry == Permutations(FourNodes)
=============================================================================
