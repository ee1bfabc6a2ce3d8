------------------------------- MODULE Lists --------------------------------
(***************************************************************************)
(* The linked lists of the program as sequences, oldest or first element   *)
(* first.  Only what the models use is defined, on top of Sequences alone, *)
(* so that the proofs about them carry few definitions.                    *)
(***************************************************************************)
EXTENDS Integers, Sequences

(* Who is on the list.                                                     *)
ToSet(list) == {list[k] : k \in DOMAIN list}

(* The element at the tail, and the list without it.                       *)
Last(list) == list[Len(list)]
Front(list) == SubSeq(list, 1, Len(list) - 1)

(* An element is taken out, or put in at a place.                          *)
RemoveAt(list, k) == SubSeq(list, 1, k - 1) \o SubSeq(list, k + 1, Len(list))
InsertAt(list, k, e) == SubSeq(list, 1, k - 1) \o <<e>> \o SubSeq(list, k, Len(list))
=============================================================================
