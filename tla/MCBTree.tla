------------------------------ MODULE MCBTree ------------------------------
(* Key sets for the runs of BTree.                                         *)
EXTENDS BTree

Keys4 == 1..4
Keys5 == 1..5
Keys6 == 1..6
=============================================================================
