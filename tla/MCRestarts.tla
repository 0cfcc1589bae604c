------------------------------ MODULE MCRestarts ------------------------------
(* Instances of Restarts for TLC. *)
EXTENDS Restarts, TLC

CONSTANTS f1, f2

TwoFiles == {f1, f2}

FileSymmetry == Permutations(Files)

Deleter == {"/stopanddelete"}
=============================================================================
