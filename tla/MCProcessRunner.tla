--------------------------- MODULE MCProcessRunner ---------------------------
(* An instance of ProcessRunner for TLC. *)
EXTENDS ProcessRunner, TLC

BothStreams == {"stdout", "stderr"}

OrdinaryLines == {"blank", "long", "near", "far", "unknown", "marker"}

PlainLines == {"far", "long"}
=============================================================================
