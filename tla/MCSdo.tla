------------------------------- MODULE MCSdo --------------------------------
(***************************************************************************)
(* A dictionary with a variable of one byte, one of three bytes and a      *)
(* domain.  Segments have two bytes, so that three bytes need two segments *)
(* and five bytes two sub-blocks of the four-byte buffer of the server.    *)
(***************************************************************************)
EXTENDS Sdo

MCObjLen   == [v |-> 1, w |-> 3, d |-> 0]
MCOdStart  == [v |-> <<1>>, w |-> <<2, 3, 4>>, d |-> <<5, 6, 7, 8, 9>>]
MCPayloads == {<<11>>, <<21, 22, 23>>, <<31, 32, 33, 34, 35>>}
=============================================================================
