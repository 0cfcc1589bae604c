---------------------------- MODULE MCLifecycle ----------------------------
(* Instances of Lifecycle for TLC. *)
EXTENDS Lifecycle

CONSTANTS r1, r2

TwoRequests == {r1, r2}

\* The routes of each question.
EveryKind == {"/shutdown", "/priority", "/files"}
StopOnly  == {"/shutdown", "/stopanddelete"}
=============================================================================
