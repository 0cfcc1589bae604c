------------------------------ MODULE MCShutdown ------------------------------
(* Instances of Shutdown for TLC. *)
EXTENDS Shutdown

CONSTANT f1

OneFile == {f1}

Everybody == AllHandlers
=============================================================================
