--------------------------- MODULE CommandContract ---------------------------
(***************************************************************************)
(* What the agent promises the control plane about a command, without the  *)
(* messages, the polling and the failures: one command runs at a time, a   *)
(* command runs at most once, and at most one verdict is ever reported for *)
(* it, after its run has ended and as the outcome of that run.  A run, or  *)
(* its outcome, may be lost; it is never repeated.                         *)
(***************************************************************************)
CONSTANT Commands    \* the commands the control plane may queue

VARIABLES phase,     \* how far the agent is with each command
          outcome,   \* what the handler of each command returned
          verdict    \* what the control plane was told about each command

cvars == <<phase, outcome, verdict>>

(* What a handler may return (internal/agent/app.go): a result with ok      *)
(* true or false, an error, or a CancelledError.                           *)
Results == {"ok", "notok", "error", "cancelled"}

(* The success and cancelled arguments of FinishCommand for each result.   *)
Verdict(r) == CASE r = "ok"        -> "success"
                [] r = "cancelled" -> "cancelled"
                [] OTHER           -> "failure"

Verdicts == {"success", "failure", "cancelled"}

Init == /\ phase   = [c \in Commands |-> "offered"]
        /\ outcome = [c \in Commands |-> "none"]
        /\ verdict = [c \in Commands |-> "none"]

Begin(c) == /\ \A d \in Commands : phase[d] \notin {"running", "ended"}
            /\ phase[c] = "offered"
            /\ phase' = [phase EXCEPT ![c] = "running"]
            /\ UNCHANGED <<outcome, verdict>>

End(c, r) == /\ phase[c] = "running"
             /\ phase'   = [phase EXCEPT ![c] = "ended"]
             /\ outcome' = [outcome EXCEPT ![c] = r]
             /\ UNCHANGED verdict

Report(c) == /\ phase[c] = "ended"
             /\ phase'   = [phase EXCEPT ![c] = "over"]
             /\ verdict' = [verdict EXCEPT ![c] = Verdict(outcome[c])]
             /\ UNCHANGED outcome

(* The run, or its report, is lost with the process or the message.        *)
Lose(c) == /\ phase[c] \in {"running", "ended"}
           /\ phase' = [phase EXCEPT ![c] = "over"]
           /\ UNCHANGED <<outcome, verdict>>

Next == \E c \in Commands : \/ Begin(c)
                            \/ \E r \in Results : End(c, r)
                            \/ Report(c)
                            \/ Lose(c)

Spec == Init /\ [][Next]_cvars
=============================================================================
