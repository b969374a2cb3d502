---------------------------- MODULE MCLiveLogger ----------------------------
(* Instances of LiveLogger for TLC. *)
EXTENDS LiveLogger, TLC

CONSTANTS main, warm

TwoThreads == {main, warm}
=============================================================================
