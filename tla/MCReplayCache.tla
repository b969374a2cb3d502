---------------------------- MODULE MCReplayCache ----------------------------
(* An instance of ReplayCache for TLC. *)
EXTENDS ReplayCache, TLC

CONSTANTS a, b, r

TwoNames == {a, b}
OneRefresher == {r}
=============================================================================
