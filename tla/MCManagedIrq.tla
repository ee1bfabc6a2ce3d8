---------------------------- MODULE MCManagedIrq ----------------------------
(***************************************************************************)
(* Instances of the managed interrupts: two nodes, so that one can be freed *)
(* while another is requested.                                              *)
(***************************************************************************)
EXTENDS ManagedIrq, TLC

CONSTANTS r1, r2

TwoNodes == {r1, r2}
=============================================================================
