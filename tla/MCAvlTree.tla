----------------------------- MODULE MCAvlTree -----------------------------
(* Instances of AvlTree for TLC: it takes six nodes to rotate a subtree    *)
(* from one parent to another.                                             *)
EXTENDS AvlTree

=============================================================================
