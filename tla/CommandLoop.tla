----------------------------- MODULE CommandLoop -----------------------------
(***************************************************************************)
(* The agent's main loop (internal/agent/app.go): poll the control plane,  *)
(* claim one command, start it, run its handler, report, finish.  Every    *)
(* HTTP call (internal/api/client.go) is one step that may lose its        *)
(* request or its reply; the process may crash or be stopped between any   *)
(* two steps and is restarted by systemd (deploy/kepagent.service).        *)
(*                                                                         *)
(* The handlers are seen from the loop: units of work (one server's docker *)
(* action, one RCON exchange, one update step), the cancellation checks    *)
(* and runtime state reports between them, and the returned result.        *)
(***************************************************************************)
EXTENDS Naturals

CONSTANTS
  Commands,      \* ids of the commands operators may submit
  NoCommand,     \* "no command": a nil hook, an empty claim
  Cancellable,   \* commands whose handler calls checkCancelled before every
                 \* unit of work; the others (update, single restart, replay
                 \* transfers) also work without asking
  MaxWork,       \* bound: units of work of one run
  MaxFaults      \* bound: lost messages, crashes and stops of a behaviour

ASSUME LoopAssumption == /\ NoCommand \notin Commands
                         /\ Cancellable \subseteq Commands
                         /\ MaxWork \in Nat
                         /\ MaxFaults \in Nat

VARIABLES
  \* control plane (external)
  status,     \* command state the control plane answers with
  report,     \* verdict it received by /finish
  lastBeat,   \* server list of the last heartbeat it received
  \* agent process
  pc,         \* where Run and processOneCommand are
  cmd,        \* the command in hand
  hooks,      \* the command the runtime's cancelReader, logEmitter and
              \* stateReporter closures are bound to
  cleared,    \* checkCancelled passed and its unit of work is still to do
  due,        \* timers that have fired and were not served
  stopping,   \* the context of main is cancelled (SIGTERM)
  \* history
  answered,   \* status /start was handled with for each command
  handedAs,   \* status of each command when its handler was called
  runs,       \* times each command was handed to its handler
  work,       \* units of work of each command
  late,       \* units of work done although the control plane said CANCELLED
  missed,     \* checks whose FetchCommand failed while it said CANCELLED
  result,     \* what each handler returned
  faults      \* faults so far

control == <<status, report, lastBeat>>
agent   == <<pc, cmd, hooks, cleared, due, stopping>>
handing == <<answered, handedAs, runs>>
effects == <<work, late, missed, result>>
history == <<handing, effects>>
vars    == <<control, agent, history, faults>>

Status   == {"NEW", "PENDING", "CLAIMED", "RUNNING", "CANCELLED", "FINISHED"}
Timers   == {"heartbeat", "poll"}
Results  == {"ok", "notok", "error", "cancelled"}
Verdicts == {"success", "failure", "cancelled"}

ControlTypeOK ==
  /\ status   \in [Commands -> Status]
  /\ report   \in [Commands -> Verdicts \cup {"none"}]
  /\ lastBeat \in {"none", "full", "empty"}

AgentTypeOK ==
  /\ pc       \in {"down", "idle", "claimed", "started", "exec", "executed",
                  "finishing"}
  /\ cmd      \in Commands \cup {NoCommand}
  /\ hooks    \in Commands \cup {NoCommand}
  /\ cleared  \in BOOLEAN
  /\ due      \in SUBSET Timers
  /\ stopping \in BOOLEAN

HistoryTypeOK ==
  /\ answered \in [Commands -> Status \cup {"none"}]
  /\ handedAs \in [Commands -> Status \cup {"none"}]
  /\ runs     \in [Commands -> Nat]
  /\ work     \in [Commands -> Nat]
  /\ late     \in [Commands -> Nat]
  /\ missed   \in [Commands -> Nat]
  /\ result   \in [Commands -> Results \cup {"none"}]
  /\ faults   \in Nat

(* Every variable has its type: in particular only a Verdict is ever       *)
(* reported to the control plane and only a Result is ever returned.       *)
TypeOK == ControlTypeOK /\ AgentTypeOK /\ HistoryTypeOK

Init ==
  /\ status   = [c \in Commands |-> "NEW"]
  /\ report   = [c \in Commands |-> "none"]
  /\ lastBeat = "none"
  /\ pc       = "down"
  /\ cmd      = NoCommand
  /\ hooks    = NoCommand
  /\ cleared  = FALSE
  /\ due      = {}
  /\ stopping = FALSE
  /\ answered = [c \in Commands |-> "none"]
  /\ handedAs = [c \in Commands |-> "none"]
  /\ runs     = [c \in Commands |-> 0]
  /\ work     = [c \in Commands |-> 0]
  /\ late     = [c \in Commands |-> 0]
  /\ missed   = [c \in Commands |-> 0]
  /\ result   = [c \in Commands |-> "none"]
  /\ faults   = 0
-----------------------------------------------------------------------------
(***************************************************************************)
(* Client.request: the call succeeds, or fails before the server saw it,   *)
(* or fails after the server acted on it.  Under a cancelled context no    *)
(* call succeeds, and its failure is not a fault of its own.               *)
(***************************************************************************)
Delivery == {"ok", "noRequest", "noReply"}

Cost(d) == IF d = "ok" \/ stopping THEN 0 ELSE 1

Calls(f, d) == /\ stopping => d # "ok"
               /\ faults' = faults + Cost(f) + Cost(d)
               /\ faults' <= MaxFaults

Call(d) == Calls("ok", d)

Reaches(d) == d # "noRequest"

(* What the control plane has to offer and what an operator may ask of it. *)
Submit(c) == /\ status[c] = "NEW"
             /\ status' = [status EXCEPT ![c] = "PENDING"]
             /\ UNCHANGED <<report, lastBeat, agent, history, faults>>

Cancel(c) == /\ status[c] \in {"PENDING", "CLAIMED", "RUNNING"}
             /\ status' = [status EXCEPT ![c] = "CANCELLED"]
             /\ UNCHANGED <<report, lastBeat, agent, history, faults>>
-----------------------------------------------------------------------------
(* main and Run up to the loop: a failed FetchMe ends the process. *)
Boot(d) ==
  /\ pc = "down"
  /\ Call(d)
  /\ IF d = "ok" THEN pc' = "idle" /\ due' = Timers
                 ELSE UNCHANGED <<pc, due>>
  /\ UNCHANGED <<control, cmd, hooks, cleared, stopping, history>>

(* The poll timer is re-armed only when processOneCommand has returned;    *)
(* the heartbeat timer runs on while a command is executed.                *)
TimerFires(t) ==
  /\ pc # "down"
  /\ t \notin due
  /\ t = "poll" => pc = "idle"
  /\ due' = due \cup {t}
  /\ UNCHANGED <<control, pc, cmd, hooks, cleared, stopping, history, faults>>

(***************************************************************************)
(* buildHeartbeatPayload and SendHeartbeat.  ListServers runs              *)
(* checkCancelled for every server: while the hooks are bound to a command *)
(* the control plane has cancelled it fails, and the list is sent empty.   *)
(***************************************************************************)
SaysCancelled == hooks # NoCommand /\ status[hooks] = "CANCELLED"

ServerList(f) == IF f = "ok" /\ SaysCancelled THEN "empty" ELSE "full"

SendBeat(f, d) ==
  /\ Calls(f, d)
  /\ lastBeat' = IF Reaches(d) THEN ServerList(f) ELSE lastBeat

Heartbeat(d) ==
  /\ pc = "idle"
  /\ "heartbeat" \in due
  /\ SendBeat("ok", d)
  /\ due' = due \ {"heartbeat"}
  /\ UNCHANGED <<status, report, pc, cmd, hooks, cleared, stopping, history>>

(* ClaimCommand finds nothing to do. *)
PollNothing(d) ==
  /\ pc = "idle"
  /\ "poll" \in due
  /\ Call(d)
  /\ d # "ok" \/ \A c \in Commands : status[c] # "PENDING"
  /\ due' = due \ {"poll"}
  /\ UNCHANGED <<control, pc, cmd, hooks, cleared, stopping, history>>

(* ClaimCommand is given c; if the reply is lost the agent never knows.    *)
PollClaims(c, d) ==
  /\ pc = "idle"
  /\ "poll" \in due
  /\ status[c] = "PENDING"
  /\ Reaches(d)
  /\ Call(d)
  /\ status' = [status EXCEPT ![c] = "CLAIMED"]
  /\ due' = due \ {"poll"}
  /\ IF d = "ok" THEN pc' = "claimed" /\ cmd' = c
                 ELSE UNCHANGED <<pc, cmd>>
  /\ UNCHANGED <<report, lastBeat, hooks, cleared, stopping, history>>

HooksKept == /\ pc' = "idle"
             /\ cmd' = NoCommand
             /\ UNCHANGED hooks

(* Every return from processOneCommand: the deferred reset of the hooks.   *)
BackToLoop == /\ pc' = "idle"
              /\ cmd' = NoCommand
              /\ hooks' = NoCommand

(* MarkCommandStarted as the control plane handles it. *)
StartedStatus(c) == IF status[c] = "CLAIMED" THEN "RUNNING" ELSE status[c]

NeverRefused == FALSE

(* responseStatus(started) == "CANCELLED" *)
Refused == StartedStatus(cmd) = "CANCELLED"

(* /start reaches the control plane: what it makes of it, and answers. *)
StartHandled ==
  /\ status'   = [status EXCEPT ![cmd] = StartedStatus(cmd)]
  /\ answered' = [answered EXCEPT ![cmd] = StartedStatus(cmd)]

(* MarkCommandStarted fails: the command is given up. *)
StartFails(d) ==
  /\ pc = "claimed"
  /\ d # "ok"
  /\ Call(d)
  /\ IF Reaches(d) THEN StartHandled ELSE UNCHANGED <<status, answered>>
  /\ BackToLoop
  /\ UNCHANGED <<report, lastBeat, cleared, due, stopping, handedAs, runs,
                 effects>>

(* The reply says CANCELLED: the command is not executed. *)
StartRefused ==
  /\ pc = "claimed"
  /\ Call("ok")
  /\ Refused
  /\ StartHandled
  /\ BackToLoop
  /\ UNCHANGED <<report, lastBeat, cleared, due, stopping, handedAs, runs,
                 effects>>

(* The reply says go on: the runtime's hooks are bound to the command. *)
Start ==
  /\ pc = "claimed"
  /\ Call("ok")
  /\ ~Refused
  /\ StartHandled
  /\ pc' = "started"
  /\ hooks' = cmd
  /\ UNCHANGED <<report, lastBeat, cmd, cleared, due, stopping, handedAs, runs,
                 effects>>

(* The first flush, its failure only logged, and the call of the handler:   *)
(* the command's status is not looked at again.                            *)
HandOver(d) ==
  /\ pc = "started"
  /\ Call(d)
  /\ pc' = "exec"
  /\ runs' = [runs EXCEPT ![cmd] = @ + 1]
  /\ handedAs' = [handedAs EXCEPT ![cmd] = status[cmd]]
  /\ UNCHANGED <<control, cmd, hooks, cleared, due, stopping, answered,
                 effects>>
-----------------------------------------------------------------------------
LeavesOnError(r) == /\ result' = [result EXCEPT ![cmd] = r]
                    /\ pc' = IF r = "error" THEN "idle" ELSE "executed"
                    /\ cleared' = FALSE

(* executeCommand returns. *)
Returns(r) == /\ result' = [result EXCEPT ![cmd] = r]
              /\ pc' = "executed"
              /\ cleared' = FALSE

(* Runtime.checkCancelled between two units of work. *)
CheckPasses ==
  /\ pc = "exec"
  /\ ~cleared
  /\ Call("ok")
  /\ ~SaysCancelled
  /\ cleared' = TRUE
  /\ UNCHANGED <<control, pc, cmd, hooks, due, stopping, history>>

(* FetchCommand fails: treated as "not cancelled". *)
CheckBlind ==
  /\ pc = "exec"
  /\ ~cleared
  /\ ~stopping
  /\ Call("noReply")
  /\ cleared' = TRUE
  /\ missed' = IF SaysCancelled
               THEN [missed EXCEPT ![cmd] = @ + 1] ELSE missed
  /\ UNCHANGED <<control, pc, cmd, hooks, due, stopping, handing, work, late,
                 result>>

CheckStops ==
  /\ pc = "exec"
  /\ ~cleared
  /\ Call("ok")
  /\ SaysCancelled
  /\ Returns("cancelled")
  /\ UNCHANGED <<control, cmd, hooks, due, stopping, handing, work, late, missed>>

WorksUnchecked == TRUE

(* A handler of a cancellable command has asked before each unit of work.  *)
MayWork == cleared \/ cmd \notin Cancellable

Work ==
  /\ pc = "exec"
  /\ MayWork
  /\ work[cmd] < MaxWork
  /\ work' = [work EXCEPT ![cmd] = @ + 1]
  /\ late' = IF status[cmd] = "CANCELLED"
             THEN [late EXCEPT ![cmd] = @ + 1] ELSE late
  /\ cleared' = FALSE
  /\ UNCHANGED <<control, pc, cmd, hooks, due, stopping, handing, missed, result,
                 faults>>

(* reportState inside the handler. *)
ReportState(f, d) ==
  /\ pc = "exec"
  /\ SendBeat(f, d)
  /\ UNCHANGED <<status, report, agent, history>>

(* The handler returns a result, or an error (a cancelled context too). *)
HandlerReturns(r) ==
  /\ pc = "exec"
  /\ r # "cancelled"
  /\ Returns(r)
  /\ UNCHANGED <<control, cmd, hooks, due, stopping, handing, work, late, missed,
                 faults>>

(* The runtime state report after the handler, its failure ignored. *)
FinalReport(f, d) ==
  /\ pc = "executed"
  /\ SendBeat(f, d)
  /\ pc' = "finishing"
  /\ UNCHANGED <<status, report, cmd, hooks, cleared, due, stopping, history>>

VerdictIgnoresOk(r) == CASE r \in {"ok", "notok"} -> "success"
                         [] r = "cancelled" -> "cancelled"
                         [] OTHER -> "failure"

(* The arguments of FinishCommand for what the handler returned. *)
Verdict(r) == CASE r = "ok"        -> "success"
                [] r = "cancelled" -> "cancelled"
                [] OTHER           -> "failure"

(* FinishCommand is called once; its failure is only logged. *)
Finish(d) ==
  /\ pc = "finishing"
  /\ Call(d)
  /\ IF Reaches(d)
     THEN /\ report' = [report EXCEPT ![cmd] = Verdict(result[cmd])]
          /\ status' = [status EXCEPT ![cmd] =
                          IF @ = "CANCELLED" THEN @ ELSE "FINISHED"]
     ELSE UNCHANGED <<report, status>>
  /\ BackToLoop
  /\ UNCHANGED <<lastBeat, cleared, due, stopping, history>>
-----------------------------------------------------------------------------
(* The process ends and takes its state with it; systemd starts another. *)
ProcessEnds == /\ pc' = "down"
               /\ cmd' = NoCommand
               /\ hooks' = NoCommand
               /\ cleared' = FALSE
               /\ due' = {}
               /\ stopping' = FALSE
               /\ UNCHANGED <<control, history>>

Crash == /\ pc # "down"
         /\ faults < MaxFaults
         /\ faults' = faults + 1
         /\ ProcessEnds

(* SIGTERM or interrupt: main's context is cancelled. *)
Stop == /\ pc # "down"
        /\ ~stopping
        /\ faults < MaxFaults
        /\ faults' = faults + 1
        /\ stopping' = TRUE
        /\ UNCHANGED <<control, pc, cmd, hooks, cleared, due, history>>

(* The select of Run sees the cancelled context. *)
Exit == /\ pc = "idle"
        /\ stopping
        /\ ProcessEnds
        /\ UNCHANGED faults
-----------------------------------------------------------------------------
Poll(d) == PollNothing(d) \/ \E c \in Commands : PollClaims(c, d)

Handler == \/ CheckPasses \/ CheckBlind \/ CheckStops \/ Work
           \/ \E f, d \in Delivery : ReportState(f, d)
           \/ \E r \in Results : HandlerReturns(r)

Command == \/ \E d \in Delivery : StartFails(d) \/ HandOver(d) \/ Finish(d)
           \/ StartRefused \/ Start
           \/ \E f, d \in Delivery : FinalReport(f, d)

Loop == \/ \E d \in Delivery : Boot(d) \/ Heartbeat(d) \/ Poll(d)
        \/ \E t \in Timers : TimerFires(t)
        \/ Exit

Environment == Crash \/ Stop \/ \E c \in Commands : Submit(c) \/ Cancel(c)

Next == Loop \/ Command \/ Handler \/ Environment

Spec == Init /\ [][Next]_vars

(***************************************************************************)
(* Go's select picks at random among the ready cases, so neither timer is  *)
(* starved (strong fairness); handlers loop over finite lists and their    *)
(* calls have timeouts, so they return, the runner of steamcmd excepted    *)
(* (ProcessRunner shows how it may hang); systemd restarts the agent.      *)
(***************************************************************************)
Fairness ==
  /\ WF_vars(\E d \in Delivery : Boot(d))
  /\ \A t \in Timers : WF_vars(TimerFires(t))
  /\ SF_vars(\E d \in Delivery : Heartbeat(d))
  /\ SF_vars(\E d \in Delivery : Poll(d))
  /\ WF_vars(\E r \in Results : HandlerReturns(r))
  /\ WF_vars(Command)
  /\ WF_vars(Exit)

FairSpec == Spec /\ Fairness
-----------------------------------------------------------------------------
(* A command is handed to a handler at most once, whatever messages are     *)
(* lost and however often the agent crashes: processOneCommand never       *)
(* retries.                                                                *)
AtMostOnce == \A c \in Commands : runs[c] <= 1

(* A cancellation that comes before the handler.  Did /start find it, the  *)
(* command is not run, reports nothing and gets no hook, whatever became   *)
(* of the reply.  Did it land after /start was handled, in the first flush *)
(* or before the reply, the handler is called all the same: if it is one   *)
(* that asks, it does no unit of work but those that failed checks let by. *)
EarlyCancelBinds ==
  \A c \in Commands :
    /\ answered[c] # "RUNNING" => /\ runs[c] = 0 /\ work[c] = 0
                                  /\ report[c] = "none" /\ hooks # c
    /\ c \in Cancellable /\ handedAs[c] = "CANCELLED" => work[c] <= missed[c]

(* Latency of a cancellation: once the control plane says CANCELLED, a     *)
(* cancellable handler does at most the unit of work it had been cleared   *)
(* for, plus one for each FetchCommand that failed since.                  *)
CancelLatency ==
  \A c \in Cancellable : late[c] <= 1 + missed[c]

(* When the control plane has a verdict it is final: it never changes, and *)
(* the agent does no further work for that command.                        *)
VerdictIsFinal ==
  [][\A c \in Commands : report[c] # "none"
        => report'[c] = report[c] /\ work'[c] = work[c]]_vars

(* A command is left CLAIMED or RUNNING with nobody working on it only if  *)
(* a message was lost or the process was stopped: no path through          *)
(* processOneCommand forgets to finish what it has started.                *)
InHand(c) == cmd = c /\ pc \notin {"idle", "down"}

NoOrphanWithoutFault ==
  faults = 0 => \A c \in Commands :
                  status[c] \in {"CLAIMED", "RUNNING"} => InHand(c)

(* A cancelled command makes the heartbeats sent during it list no server; *)
(* the control plane's empty view of the node never lasts.                 *)
EmptyBeatIsTemporary == lastBeat = "empty" ~> lastBeat = "full"

(* As long as nothing fails, every queued command gets a verdict or is     *)
(* cancelled.                                                              *)
EveryCommandSettles ==
  \A c \in Commands :
    status[c] = "PENDING"
      ~> report[c] # "none" \/ status[c] = "CANCELLED" \/ faults > 0

(* The inductive invariant behind AtMostOnce, CancelLatency and the        *)
(* contract: what is true between any two steps of processOneCommand.      *)

(* The runtime's hooks are bound to the command in hand from its start to  *)
(* its finish and to nothing otherwise.                                    *)
HooksFollow ==
  /\ pc \in {"down", "idle"} <=> cmd = NoCommand
  /\ hooks = IF pc \in {"started", "exec", "executed", "finishing"}
             THEN cmd ELSE NoCommand
  /\ cleared => pc = "exec"

(* The control plane moves a command past CLAIMED only with its one run,   *)
(* and has no verdict on a command that is not over.                       *)
StatusBoundsRuns ==
  /\ \A c \in Commands :
       /\ runs[c] <= 1
       /\ status[c] \in {"NEW", "PENDING", "CLAIMED"} => runs[c] = 0
       /\ runs[c] = 0 => report[c] = "none"
  /\ pc = "claimed" => /\ status[cmd] \in {"CLAIMED", "CANCELLED"}
                       /\ runs[cmd] = 0
  /\ pc = "started" => /\ status[cmd] \in {"RUNNING", "CANCELLED"}
                       /\ answered[cmd] = "RUNNING"
                       /\ runs[cmd] = 0
  /\ pc \in {"exec", "executed", "finishing"} => /\ runs[cmd] = 1
                                                 /\ report[cmd] = "none"
  /\ pc \in {"executed", "finishing"} => result[cmd] \in Results

(* A check that passed is worth one unit of late work, no more.            *)
LateIsPaidFor ==
  \A c \in Cancellable :
    late[c] + (IF cleared /\ cmd = c /\ status[c] = "CANCELLED" THEN 1 ELSE 0)
      <= (IF status[c] = "CANCELLED" THEN 1 ELSE 0) + missed[c]

LoopInv == TypeOK /\ HooksFollow /\ StatusBoundsRuns /\ LateIsPaidFor

(* The loop keeps the contract of CommandContract.                         *)
Phase(c) == IF runs[c] = 0 THEN "offered"
            ELSE IF ~InHand(c) THEN "over"
            ELSE IF pc = "exec" THEN "running" ELSE "ended"

Contract == INSTANCE CommandContract
              WITH phase   <- [c \in Commands |-> Phase(c)],
                   outcome <- result,
                   verdict <- report

KeepsContract == Contract!Spec
=============================================================================
