---------------------------- MODULE MCCommandLoop ----------------------------
(* Instances of CommandLoop for TLC. *)
EXTENDS CommandLoop, TLC

CONSTANTS c1, c2

TwoCommands == {c1, c2}

(* c1 is a batch that asks before every unit; c2 (an update) does not. *)
OneCancellable == {c1}
=============================================================================
