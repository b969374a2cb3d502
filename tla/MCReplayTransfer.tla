-------------------------- MODULE MCReplayTransfer ---------------------------
(* An instance of ReplayTransfer for TLC. *)
EXTENDS ReplayTransfer

SomeLimits == {0, 1, 2}
=============================================================================
