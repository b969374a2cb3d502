------------------------------ MODULE MCMonitor ------------------------------
(* An instance of Monitor for TLC. *)
EXTENDS Monitor, TLC

CONSTANTS m, a

TwoServers == {m, a}

(* The first profile starts its own monitor and another server; the second *)
(* one monitors what the first has started.                                *)
TwoProfiles == <<[monitor |-> m, starts |-> <<m, a>>], [monitor |-> a, starts |-> <<>>]>>
=============================================================================
