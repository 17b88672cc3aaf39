-------------------------------- MODULE MCBst --------------------------------
(***************************************************************************)
(* Insertions into the search tree in an order in which the rotations take *)
(* enough out of one side of a node to leave it two lower than the other.  *)
(***************************************************************************)
EXTENDS Bst

Order == <<9, 4, 17, 3, 6, 12, 20, 2, 5, 7, 11, 14, 19, 22, 8, 10, 13, 15, 18, 21,
           23, 16, 24, 1>>

OrderedIds == 1 .. Len(Order)

InsertInOrder ==
    /\ Len(heap) < Len(Order)
    /\ \E d \in Data : bst_insert(Order[Len(heap) + 1], d)

InOrderSpec == BstInit /\ [][InsertInOrder]_bstVars
=============================================================================
