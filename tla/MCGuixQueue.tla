----------------------------- MODULE MCGuixQueue ----------------------------
(***************************************************************************)
(* A queue of two events, two widgets with a timer each, two observers.    *)
(***************************************************************************)
EXTENDS GuixQueue

MCPriority == [screen |-> 1, power |-> 2]
=============================================================================
