-------------------------- MODULE CommandLoopProofs --------------------------
(***************************************************************************)
(* Proofs about CommandLoop, for every set of commands and every bound.    *)
(***************************************************************************)
EXTENDS CommandLoop, TLAPS

USE LoopAssumption

(***************************************************************************)
(* The one fact about faults the type proof needs: a call that may fail    *)
(* leaves the counter a number.                                            *)
(***************************************************************************)
LEMMA CallsType ==
  ASSUME faults \in Nat, NEW f \in Delivery, NEW d \in Delivery, Calls(f, d)
  PROVE  faults' \in Nat
BY DEF Calls, Cost

(* What the control plane knows keeps its type. *)
LEMMA ControlType == TypeOK /\ [Next]_vars => ControlTypeOK'
<1> SUFFICES ASSUME TypeOK, [Next]_vars PROVE ControlTypeOK'
  OBVIOUS
<1> USE DEF TypeOK, ControlTypeOK, AgentTypeOK, HistoryTypeOK, Status, control,
            agent
<1>1. ASSUME NEW f \in Delivery, NEW d \in Delivery, SendBeat(f, d)
      PROVE  lastBeat' \in {"none", "full", "empty"}
  BY <1>1 DEF SendBeat, ServerList
<1>2. CASE Loop
  BY <1>1, <1>2 DEF Loop, Boot, Heartbeat, Poll, PollNothing, PollClaims,
                    TimerFires, Exit, ProcessEnds, Delivery
<1>3. CASE Command
  <2>1. ASSUME NEW d \in Delivery, StartFails(d) PROVE ControlTypeOK'
    BY <2>1 DEF StartFails, StartHandled, StartedStatus
  <2>2. ASSUME NEW d \in Delivery, Finish(d) PROVE ControlTypeOK'
    <3>1. Verdict(result[cmd]) \in Verdicts
      BY DEF Verdict, Verdicts
    <3> QED BY <2>2, <3>1 DEF Finish
  <2>3. ASSUME Start PROVE ControlTypeOK'
    BY <2>3 DEF Start, StartHandled, HandOver, StartedStatus
  <2>4. ASSUME NEW f \in Delivery, NEW d \in Delivery, FinalReport(f, d)
        PROVE  ControlTypeOK'
    BY <1>1, <2>4 DEF FinalReport
  <2>5. ASSUME StartRefused PROVE ControlTypeOK'
    BY <2>5 DEF StartRefused, StartHandled, StartedStatus
  <2>6. ASSUME NEW d \in Delivery, HandOver(d) PROVE ControlTypeOK'
    BY <2>6 DEF HandOver
  <2> QED BY <1>3, <2>1, <2>2, <2>3, <2>4, <2>5, <2>6 DEF Command
<1>4. CASE Handler
  <2>1. ASSUME NEW f \in Delivery, NEW d \in Delivery, ReportState(f, d)
        PROVE  ControlTypeOK'
    BY <1>1, <2>1 DEF ReportState
  <2> QED BY <1>4, <2>1 DEF Handler, CheckPasses, CheckBlind, CheckStops, Work,
                            HandlerReturns
<1>5. CASE Environment
  BY <1>5 DEF Environment, Crash, Stop, ProcessEnds, Submit, Cancel
<1>6. CASE UNCHANGED vars
  BY <1>6 DEF vars
<1> QED BY <1>2, <1>3, <1>4, <1>5, <1>6 DEF Next

(* The process's own variables keep their types. *)
LEMMA AgentType == TypeOK /\ [Next]_vars => AgentTypeOK'
<1> SUFFICES ASSUME TypeOK, [Next]_vars PROVE AgentTypeOK'
  OBVIOUS
<1> USE DEF TypeOK, AgentTypeOK, agent
<1>1. CASE Loop
  BY <1>1 DEF Loop, Boot, Heartbeat, Poll, PollNothing, PollClaims, TimerFires,
              Exit, ProcessEnds, Timers
<1>2. CASE Command
  BY <1>2 DEF Command, StartFails, StartRefused, Start, StartHandled, HandOver, FinalReport,
              Finish,
              BackToLoop
<1>3. CASE Handler
  BY <1>3 DEF Handler, CheckPasses, CheckBlind, CheckStops, Work, ReportState,
              HandlerReturns, Returns
<1>4. CASE Environment
  BY <1>4 DEF Environment, Crash, Stop, ProcessEnds, Submit, Cancel, Timers
<1>5. CASE UNCHANGED vars
  BY <1>5 DEF vars
<1> QED BY <1>1, <1>2, <1>3, <1>4, <1>5 DEF Next

(* The history of the runs keeps its type. *)
LEMMA HistoryType == TypeOK /\ [Next]_vars => HistoryTypeOK'
<1> SUFFICES ASSUME TypeOK, [Next]_vars PROVE HistoryTypeOK'
  OBVIOUS
<1> USE CallsType DEF TypeOK, AgentTypeOK, HistoryTypeOK, history, handing, effects, Call,
                      SendBeat,
                      Delivery
<1>1. CASE Loop
  BY <1>1 DEF Loop, Boot, Heartbeat, Poll, PollNothing, PollClaims, TimerFires,
              Exit, ProcessEnds
<1>2. CASE Command
  <2>1. StartHandled => answered' \in [Commands -> Status \cup {"none"}]
    <3>1. \A c \in Commands : StartedStatus(c) \in Status
      BY DEF StartedStatus, ControlTypeOK, Status
    <3>2. CASE cmd \in Commands
      <4>1. StartedStatus(cmd) \in Status
        BY <3>1, <3>2
      <4> QED BY <3>2, <4>1 DEF StartHandled
    <3>3. CASE cmd \notin Commands
      BY <3>3 DEF StartHandled
    <3> QED BY <3>2, <3>3
  <2>2. ASSUME NEW d \in Delivery, StartFails(d) PROVE HistoryTypeOK'
    BY <2>1, <2>2 DEF StartFails, handing, effects
  <2>3. CASE StartRefused \/ Start
    BY <2>1, <2>3 DEF StartRefused, Start, handing, effects
  <2>4. ASSUME NEW d \in Delivery, HandOver(d) PROVE HistoryTypeOK'
    <3>1. handedAs' \in [Commands -> Status \cup {"none"}]
      BY <2>4 DEF HandOver, ControlTypeOK
    <3> QED BY <2>4, <3>1 DEF HandOver, effects
  <2>5. ASSUME NEW d \in Delivery, Finish(d) PROVE HistoryTypeOK'
    BY <2>5 DEF Finish
  <2>6. ASSUME NEW f \in Delivery, NEW d \in Delivery, FinalReport(f, d)
        PROVE  HistoryTypeOK'
    BY <2>6 DEF FinalReport
  <2> QED BY <1>2, <2>2, <2>3, <2>4, <2>5, <2>6 DEF Command
<1>3. CASE Handler
  BY <1>3 DEF Handler, CheckPasses, CheckBlind, CheckStops, Work, ReportState,
              HandlerReturns, Returns, Results
<1>4. CASE Environment
  BY <1>4 DEF Environment, Crash, Stop, ProcessEnds, Submit, Cancel
<1>5. CASE UNCHANGED vars
  BY <1>5 DEF vars
<1> QED BY <1>1, <1>2, <1>3, <1>4, <1>5 DEF Next

(***************************************************************************)
(* Every variable keeps its type; in particular nothing but a Verdict is   *)
(* ever reported to the control plane.                                     *)
(***************************************************************************)
THEOREM TypeCorrect == Spec => []TypeOK
<1>1. Init => TypeOK
  <2> SUFFICES ASSUME Init PROVE TypeOK
    OBVIOUS
  <2>1. ControlTypeOK
    BY DEF Init, ControlTypeOK, Status
  <2>2. AgentTypeOK
    BY DEF Init, AgentTypeOK, Timers
  <2>3. HistoryTypeOK
    BY DEF Init, HistoryTypeOK
  <2> QED BY <2>1, <2>2, <2>3 DEF TypeOK
<1>2. TypeOK /\ [Next]_vars => TypeOK'
  BY ControlType, AgentType, HistoryType DEF TypeOK
<1> QED BY <1>1, <1>2, PTL DEF Spec
-----------------------------------------------------------------------------
(***************************************************************************)
(* The inductive invariant, part by part.                                  *)
(***************************************************************************)
LEMMA HooksFollowStep ==
  TypeOK /\ HooksFollow /\ [Next]_vars => HooksFollow'
<1> SUFFICES ASSUME TypeOK, HooksFollow, [Next]_vars PROVE HooksFollow'
  OBVIOUS
<1> USE DEF TypeOK, AgentTypeOK, HooksFollow, agent
<1>1. CASE Loop
  BY <1>1 DEF Loop, Boot, Heartbeat, Poll, PollNothing, PollClaims, TimerFires,
              Exit, ProcessEnds
<1>2. CASE Command
  BY <1>2 DEF Command, StartFails, StartRefused, Start, StartHandled, HandOver, FinalReport,
              Finish,
              BackToLoop
<1>3. CASE Handler
  BY <1>3 DEF Handler, CheckPasses, CheckBlind, CheckStops, Work, ReportState,
              HandlerReturns, Returns
<1>4. CASE Environment
  BY <1>4 DEF Environment, Crash, Stop, ProcessEnds, Submit, Cancel
<1>5. CASE UNCHANGED vars
  BY <1>5 DEF vars
<1> QED BY <1>1, <1>2, <1>3, <1>4, <1>5 DEF Next

LEMMA StatusBoundsRunsStep ==
  TypeOK /\ HooksFollow /\ StatusBoundsRuns /\ [Next]_vars
    => StatusBoundsRuns'
<1> SUFFICES ASSUME TypeOK, HooksFollow, StatusBoundsRuns, [Next]_vars
             PROVE  StatusBoundsRuns'
  OBVIOUS
<1> USE DEF TypeOK, ControlTypeOK, AgentTypeOK, HistoryTypeOK, HooksFollow,
            StatusBoundsRuns, control, agent, history, handing, effects
<1>1. CASE Loop
  BY <1>1 DEF Loop, Boot, Heartbeat, SendBeat, Poll, PollNothing, PollClaims,
              TimerFires, Exit, ProcessEnds
<1>2. CASE Command
  <2>1. ASSUME NEW d \in Delivery, StartFails(d) PROVE StatusBoundsRuns'
    BY <2>1 DEF StartFails, StartHandled, StartedStatus, BackToLoop
  <2>2. ASSUME NEW d \in Delivery, Finish(d) PROVE StatusBoundsRuns'
    BY <2>2 DEF Finish, BackToLoop
  <2>3. ASSUME StartRefused PROVE StatusBoundsRuns'
    BY <2>3 DEF StartRefused, StartHandled, StartedStatus, BackToLoop
  <2>4. ASSUME Start PROVE StatusBoundsRuns'
    BY <2>4 DEF Start, StartHandled, HandOver, Refused, StartedStatus
  <2>5. ASSUME NEW f \in Delivery, NEW d \in Delivery, FinalReport(f, d)
        PROVE  StatusBoundsRuns'
    BY <2>5 DEF FinalReport
  <2>6. ASSUME NEW d \in Delivery, HandOver(d) PROVE StatusBoundsRuns'
    BY <2>6 DEF HandOver
  <2> QED BY <1>2, <2>1, <2>2, <2>3, <2>4, <2>5, <2>6 DEF Command
<1>3. CASE Handler
  <2>1. ASSUME NEW r \in Results, Returns(r), pc = "exec",
               UNCHANGED <<control, cmd, runs>>
        PROVE  StatusBoundsRuns'
    BY <2>1 DEF Returns
  <2>2. CASE CheckStops
    BY <2>1, <2>2 DEF CheckStops, Results
  <2>3. ASSUME NEW r \in Results, HandlerReturns(r) PROVE StatusBoundsRuns'
    BY <2>1, <2>3 DEF HandlerReturns
  <2> QED BY <1>3, <2>2, <2>3 DEF Handler, CheckPasses, CheckBlind, Work,
                                  ReportState
<1>4. CASE Environment
  BY <1>4 DEF Environment, Crash, Stop, ProcessEnds, Submit, Cancel
<1>5. CASE UNCHANGED vars
  BY <1>5 DEF vars
<1> QED BY <1>1, <1>2, <1>3, <1>4, <1>5 DEF Next

LEMMA LateIsPaidForStep ==
  TypeOK /\ HooksFollow /\ StatusBoundsRuns /\ LateIsPaidFor /\ [Next]_vars
    => LateIsPaidFor'
<1> SUFFICES ASSUME TypeOK, HooksFollow, StatusBoundsRuns, LateIsPaidFor,
                    [Next]_vars
             PROVE  LateIsPaidFor'
  OBVIOUS
<1> USE DEF TypeOK, ControlTypeOK, AgentTypeOK, HistoryTypeOK, HooksFollow,
            LateIsPaidFor, control, agent, history, handing, effects
<1>1. CASE Loop
  BY <1>1 DEF Loop, Boot, Heartbeat, SendBeat, Poll, PollNothing, PollClaims,
              TimerFires, Exit, ProcessEnds
<1>2. CASE Command
  BY <1>2 DEF Command, StartFails, StartRefused, Start, StartHandled, HandOver, StartedStatus,
              FinalReport, Finish, BackToLoop
<1>3. CASE Handler
  <2>1. CASE CheckPasses
    BY <2>1 DEF CheckPasses, SaysCancelled
  <2>2. CASE CheckBlind
    BY <2>2 DEF CheckBlind, SaysCancelled
  <2>3. CASE CheckStops
    BY <2>3 DEF CheckStops, Returns
  <2>4. CASE Work
    BY <2>4 DEF Work, MayWork
  <2> QED BY <1>3, <2>1, <2>2, <2>3, <2>4 DEF Handler, ReportState,
                                              HandlerReturns, Returns
<1>4. CASE Environment
  BY <1>4 DEF Environment, Crash, Stop, ProcessEnds, Submit, Cancel
<1>5. CASE UNCHANGED vars
  BY <1>5 DEF vars
<1> QED BY <1>1, <1>2, <1>3, <1>4, <1>5 DEF Next

(* Between any two steps the hooks follow the command in hand, the control *)
(* plane's status bounds its runs, and late work is paid for.              *)
THEOREM LoopInvariant == Spec => []LoopInv
<1>1. Init => HooksFollow /\ StatusBoundsRuns /\ LateIsPaidFor
  BY DEF Init, HooksFollow, StatusBoundsRuns, LateIsPaidFor
<1>2. TypeOK /\ HooksFollow /\ StatusBoundsRuns /\ LateIsPaidFor /\ [Next]_vars
        => HooksFollow' /\ StatusBoundsRuns' /\ LateIsPaidFor'
  BY HooksFollowStep, StatusBoundsRunsStep, LateIsPaidForStep
<1> QED BY <1>1, <1>2, TypeCorrect, PTL DEF Spec, LoopInv

(* No command is handed to its handler twice, in every number of crashes   *)
(* and lost messages.                                                      *)
THEOREM RunsAtMostOnce == Spec => []AtMostOnce
<1>1. LoopInv => AtMostOnce
  BY DEF LoopInv, StatusBoundsRuns, AtMostOnce
<1> QED BY <1>1, LoopInvariant, PTL

(* A cancelled batch does one more unit of work at most, plus one for each *)
(* check that could not reach the control plane.                           *)
THEOREM CancelIsTimely == Spec => []CancelLatency
<1>1. TypeOK /\ LoopInv => CancelLatency
  BY DEF TypeOK, HistoryTypeOK, LoopInv, LateIsPaidFor, CancelLatency
<1> QED BY <1>1, TypeCorrect, LoopInvariant, PTL

(* The inductive invariant of NoOrphan: without a fault there is no         *)
(* cancelled context either, under which every call would fail.             *)
Faultless == NoOrphanWithoutFault /\ (faults = 0 => ~stopping)

(* A call that costs no fault, outside a cancelled context, succeeds.       *)
LEMMA FreeCalls ==
  ASSUME faults \in Nat, NEW f \in Delivery, NEW d \in Delivery, Calls(f, d), faults' = 0
  PROVE  faults = 0 /\ (~stopping => f = "ok" /\ d = "ok")
BY DEF Calls, Cost, Delivery

(* The faults only grow, and every step that begins a stop is one.          *)
LEMMA FaultsGrow ==
  ASSUME TypeOK, [Next]_vars, faults' = 0
  PROVE  faults = 0 /\ (~stopping => ~stopping')
<1> USE DEF TypeOK, HistoryTypeOK, AgentTypeOK, Call, agent, history, handing, effects
<1>1. "ok" \in Delivery /\ "noReply" \in Delivery
  BY DEF Delivery
<1>2. CASE Loop
  BY <1>1, <1>2, FreeCalls DEF Loop, Boot, Heartbeat, SendBeat, Poll, PollNothing, PollClaims,
                               TimerFires, Exit, ProcessEnds
<1>3. CASE Command
  BY <1>1, <1>3, FreeCalls DEF Command, StartFails, StartRefused, Start, StartHandled,
                               HandOver, FinalReport, SendBeat,
                               Finish
<1>4. CASE Handler
  BY <1>1, <1>4, FreeCalls DEF Handler, CheckPasses, CheckBlind, CheckStops, Work, ReportState,
                               SendBeat, HandlerReturns
<1>5. CASE Environment
  BY <1>5 DEF Environment, Crash, Stop, Submit, Cancel
<1>6. CASE UNCHANGED vars
  BY <1>6 DEF vars
<1> QED BY <1>2, <1>3, <1>4, <1>5, <1>6 DEF Next

LEMMA FaultlessStep == TypeOK /\ LoopInv /\ Faultless /\ [Next]_vars => Faultless'
<1> SUFFICES ASSUME TypeOK, LoopInv, Faultless, [Next]_vars, faults' = 0
             PROVE  /\ ~stopping'
                    /\ \A c \in Commands : status'[c] \in {"CLAIMED", "RUNNING"} => InHand(c)'
  BY DEF Faultless, NoOrphanWithoutFault
<1>1. /\ faults = 0 /\ ~stopping /\ ~stopping'
      /\ \A c \in Commands : status[c] \in {"CLAIMED", "RUNNING"} => InHand(c)
  BY FaultsGrow DEF Faultless, NoOrphanWithoutFault
<1>2. /\ faults \in Nat /\ status \in [Commands -> Status]
      /\ pc \in {"down", "idle"} <=> cmd = NoCommand
  BY DEF TypeOK, HistoryTypeOK, ControlTypeOK, LoopInv, HooksFollow
<1>3. ASSUME NEW c \in Commands, status'[c] \in {"CLAIMED", "RUNNING"} PROVE InHand(c)'
  <2> USE DEF InHand, control, agent
  <2>1. ASSUME NEW d \in Delivery, Call(d) PROVE d = "ok"
    <3>1. "ok" \in Delivery
      BY DEF Delivery
    <3> QED BY <1>1, <1>2, <2>1, <3>1, FreeCalls DEF Call
  <2>2. CASE Loop
    BY <1>1, <1>2, <1>3, <2>1, <2>2 DEF Loop, Boot, Heartbeat, SendBeat, Poll, PollNothing,
                                        PollClaims, TimerFires, Exit, ProcessEnds
  <2>3. CASE Command
    <3>1. ASSUME NEW d \in Delivery, StartFails(d) PROVE FALSE
      BY <2>1, <3>1 DEF StartFails
    <3>2. ASSUME NEW d \in Delivery, Finish(d) PROVE InHand(c)'
      BY <1>1, <1>2, <1>3, <2>1, <3>2 DEF Finish, Reaches
    <3>3. CASE StartRefused
      BY <1>1, <1>2, <1>3, <3>3 DEF StartRefused, StartHandled, Refused, StartedStatus
    <3>4. CASE Start
      BY <1>1, <1>2, <1>3, <3>4 DEF Start, StartHandled
    <3>5. ASSUME NEW f \in Delivery, NEW d \in Delivery, FinalReport(f, d) PROVE InHand(c)'
      BY <1>1, <1>3, <3>5 DEF FinalReport
    <3>6. ASSUME NEW d \in Delivery, HandOver(d) PROVE InHand(c)'
      BY <1>1, <1>3, <3>6 DEF HandOver
    <3> QED BY <2>3, <3>1, <3>2, <3>3, <3>4, <3>5, <3>6 DEF Command
  <2>4. CASE Handler
    BY <1>1, <1>3, <2>4 DEF Handler, CheckPasses, CheckBlind, CheckStops, Work, ReportState,
                            HandlerReturns, Returns
  <2>5. CASE Environment
    BY <1>1, <1>2, <1>3, <2>5 DEF Environment, Crash, Stop, Submit, Cancel
  <2>6. CASE UNCHANGED vars
    BY <1>1, <1>3, <2>6 DEF vars
  <2> QED BY <2>2, <2>3, <2>4, <2>5, <2>6 DEF Next
<1> QED BY <1>1, <1>3

(* Only a lost message, a stop or a crash leaves a command CLAIMED or       *)
(* RUNNING with nobody working on it: every path through processOneCommand *)
(* finishes what it has started.                                           *)
THEOREM NoOrphan == Spec => []NoOrphanWithoutFault
<1>1. Init => Faultless
  BY DEF Init, Faultless, NoOrphanWithoutFault
<1>2. Faultless => NoOrphanWithoutFault
  BY DEF Faultless
<1> QED BY <1>1, <1>2, FaultlessStep, TypeCorrect, LoopInvariant, PTL DEF Spec

(***************************************************************************)
(* A cancellation before the handler.  Behind EarlyCancelBinds: a command  *)
(* that was not run did no work, its hooks wait for /start's answer, and a *)
(* cancelled status stays, so that a handler called after it meets it at   *)
(* its first check.                                                        *)
(***************************************************************************)
EarlyInv ==
  /\ \A c \in Commands :
       /\ runs[c] = 0 => work[c] = 0 /\ handedAs[c] = "none"
       /\ answered[c] # "RUNNING" => runs[c] = 0
       /\ handedAs[c] = "CANCELLED" => status[c] = "CANCELLED"
       /\ c \in Cancellable /\ handedAs[c] = "CANCELLED"
            => work[c] + (IF cleared /\ cmd = c THEN 1 ELSE 0) <= missed[c]
  /\ pc \in {"started", "exec", "executed", "finishing"} => answered[cmd] = "RUNNING"

LEMMA EarlyInvStep == TypeOK /\ LoopInv /\ EarlyInv /\ [Next]_vars => EarlyInv'
<1> SUFFICES ASSUME TypeOK, LoopInv, EarlyInv, [Next]_vars PROVE EarlyInv'
  OBVIOUS
<1> USE DEF TypeOK, ControlTypeOK, AgentTypeOK, HistoryTypeOK, LoopInv, HooksFollow,
            StatusBoundsRuns, EarlyInv, control, agent, history, handing, effects
<1>1. CASE Loop
  BY <1>1 DEF Loop, Boot, Heartbeat, SendBeat, Poll, PollNothing, PollClaims,
              TimerFires, Exit, ProcessEnds
<1>2. CASE Command
  <2>1. ASSUME NEW d \in Delivery, StartFails(d) PROVE EarlyInv'
    BY <2>1 DEF StartFails, StartHandled, StartedStatus, BackToLoop
  <2>2. CASE StartRefused
    BY <2>2 DEF StartRefused, StartHandled, StartedStatus, BackToLoop
  <2>3. CASE Start
    BY <2>3 DEF Start, StartHandled, Refused, StartedStatus
  <2>4. ASSUME NEW d \in Delivery, HandOver(d) PROVE EarlyInv'
    BY <2>4 DEF HandOver
  <2>5. ASSUME NEW d \in Delivery, Finish(d) PROVE EarlyInv'
    BY <2>5 DEF Finish, BackToLoop
  <2>6. ASSUME NEW f \in Delivery, NEW d \in Delivery, FinalReport(f, d) PROVE EarlyInv'
    BY <2>6 DEF FinalReport, SendBeat
  <2> QED BY <1>2, <2>1, <2>2, <2>3, <2>4, <2>5, <2>6 DEF Command
<1>3. CASE Handler
  <2>1. CASE CheckPasses
    BY <2>1 DEF CheckPasses, SaysCancelled
  <2>2. CASE CheckBlind
    BY <2>2 DEF CheckBlind, SaysCancelled
  <2>3. CASE CheckStops
    BY <2>3 DEF CheckStops, Returns
  <2>4. CASE Work
    BY <2>4 DEF Work, MayWork
  <2> QED BY <1>3, <2>1, <2>2, <2>3, <2>4 DEF Handler, ReportState, SendBeat, HandlerReturns,
                                              Returns
<1>4. CASE Environment
  BY <1>4 DEF Environment, Crash, Stop, ProcessEnds, Submit, Cancel
<1>5. CASE UNCHANGED vars
  BY <1>5 DEF vars
<1> QED BY <1>1, <1>2, <1>3, <1>4, <1>5 DEF Next

(* A command that /start found cancelled is never handed to its handler,   *)
(* reports nothing and gets no hook, whatever became of the reply; one     *)
(* cancelled between /start and its handler is handed over all the same,   *)
(* and does no unit of work that no failed check let by.                   *)
THEOREM EarlyCancelHolds == Spec => []EarlyCancelBinds
<1>1. Init => EarlyInv
  BY DEF Init, EarlyInv
<1>2. TypeOK /\ LoopInv /\ EarlyInv => EarlyCancelBinds
  <2> SUFFICES ASSUME TypeOK, LoopInv, EarlyInv, NEW c \in Commands
               PROVE  /\ answered[c] # "RUNNING" => /\ runs[c] = 0 /\ work[c] = 0
                                                    /\ report[c] = "none" /\ hooks # c
                      /\ c \in Cancellable /\ handedAs[c] = "CANCELLED"
                           => work[c] <= missed[c]
    BY DEF EarlyCancelBinds
  <2> USE DEF TypeOK, AgentTypeOK, HistoryTypeOK, LoopInv, HooksFollow, StatusBoundsRuns,
              EarlyInv
  <2>1. answered[c] # "RUNNING" => /\ runs[c] = 0 /\ work[c] = 0
                                   /\ report[c] = "none" /\ hooks # c
    OBVIOUS
  <2>2. c \in Cancellable /\ handedAs[c] = "CANCELLED" => work[c] <= missed[c]
    OBVIOUS
  <2> QED BY <2>1, <2>2
<1> QED BY <1>1, <1>2, EarlyInvStep, TypeCorrect, LoopInvariant, PTL DEF Spec

(* A verdict the control plane has received is never replaced, and the     *)
(* command it is about does no further work.                               *)
THEOREM VerdictStays == Spec => VerdictIsFinal
<1>1. TypeOK /\ LoopInv /\ [Next]_vars
        => [\A c \in Commands : report[c] # "none"
              => report'[c] = report[c] /\ work'[c] = work[c]]_vars
  <2> SUFFICES ASSUME TypeOK, LoopInv, Next, NEW c \in Commands,
                      report[c] # "none"
               PROVE  report'[c] = report[c] /\ work'[c] = work[c]
    OBVIOUS
  <2> USE DEF TypeOK, ControlTypeOK, HistoryTypeOK, LoopInv, StatusBoundsRuns,
              control, history, handing, effects
  <2>1. CASE Loop
    BY <2>1 DEF Loop, Boot, Heartbeat, Poll, PollNothing, PollClaims, TimerFires,
                Exit, ProcessEnds
  <2>2. CASE Command
    BY <2>2 DEF Command, StartFails, StartRefused, Start, StartHandled, HandOver, FinalReport,
                Finish
  <2>3. CASE Handler
    BY <2>3 DEF Handler, CheckPasses, CheckBlind, CheckStops, Work, ReportState,
                HandlerReturns
  <2>4. CASE Environment
    BY <2>4 DEF Environment, Crash, Stop, ProcessEnds, Submit, Cancel
  <2> QED BY <2>1, <2>2, <2>3, <2>4 DEF Next
<1> QED BY <1>1, TypeCorrect, LoopInvariant, PTL DEF Spec, VerdictIsFinal

(* A verdict is that of the command's own run, which is over.              *)
VerdictIsOwn ==
  \A c \in Commands : report[c] # "none"
    => runs[c] = 1 /\ result[c] \in Results /\ report[c] = Verdict(result[c]) /\ ~InHand(c)

LEMMA VerdictIsOwnStep ==
  TypeOK /\ TypeOK' /\ LoopInv /\ VerdictIsOwn /\ [Next]_vars => VerdictIsOwn'
<1> SUFFICES ASSUME TypeOK, TypeOK', LoopInv, VerdictIsOwn, [Next]_vars,
                    NEW c \in Commands, report'[c] # "none"
             PROVE  /\ runs'[c] = 1 /\ result'[c] \in Results
                    /\ report'[c] = Verdict(result'[c]) /\ ~InHand(c)'
  BY DEF VerdictIsOwn, Verdict
<1>1. /\ report \in [Commands -> Verdicts \cup {"none"}] /\ runs \in [Commands -> Nat]
      /\ result \in [Commands -> Results \cup {"none"}]
  BY DEF TypeOK, ControlTypeOK, HistoryTypeOK
<1>2. CASE report[c] # "none"
  <2>1. /\ runs[c] = 1 /\ result[c] \in Results /\ report[c] = Verdict(result[c]) /\ ~InHand(c)
        /\ status[c] \notin {"NEW", "PENDING", "CLAIMED"}
    BY <1>1, <1>2 DEF VerdictIsOwn, LoopInv, StatusBoundsRuns
  <2> USE DEF InHand, control, agent, history, handing, effects
  <2>2. UNCHANGED <<runs[c], result[c], report[c]>> /\ ~InHand(c)'
    <3>1. CASE Loop
      BY <1>1, <2>1, <3>1 DEF Loop, Boot, Heartbeat, SendBeat, Poll, PollNothing, PollClaims,
                              TimerFires, Exit, ProcessEnds
    <3>2. CASE Command
      <4>1. CASE pc \in {"claimed", "started", "executed", "finishing"}
        BY <1>1, <2>1, <3>2, <4>1 DEF Command, StartFails, StartRefused, Start, StartHandled,
                                      HandOver, FinalReport,
                                      SendBeat, Finish, BackToLoop
      <4>2. CASE pc \notin {"claimed", "started", "executed", "finishing"}
        BY <3>2, <4>2 DEF Command, StartFails, StartRefused, Start, StartHandled, HandOver,
                          FinalReport, Finish
      <4> QED BY <4>1, <4>2
    <3>3. CASE Handler
      BY <1>1, <2>1, <3>3 DEF Handler, CheckPasses, CheckBlind, CheckStops, Work, ReportState,
                              SendBeat, HandlerReturns, Returns
    <3>4. CASE Environment
      BY <1>1, <2>1, <3>4 DEF Environment, Crash, Stop, ProcessEnds, Submit, Cancel
    <3>5. CASE UNCHANGED vars
      BY <2>1, <3>5 DEF vars
    <3> QED BY <3>1, <3>2, <3>3, <3>4, <3>5 DEF Next
  <2> QED BY <2>1, <2>2 DEF Verdict
<1>3. CASE report[c] = "none"
  <2>1. PICK d \in Delivery : Finish(d)
    BY <1>1, <1>3 DEF Next, Loop, Command, Handler, Environment, Boot, Heartbeat, SendBeat,
                      Poll,
          PollNothing, PollClaims, TimerFires, Exit, ProcessEnds, StartFails, StartRefused,
          Start, StartHandled, HandOver,
          FinalReport, CheckPasses, CheckBlind, CheckStops, Work, ReportState, HandlerReturns,
          Crash, Stop, Submit, Cancel, control, vars
  <2>2. /\ pc = "finishing" /\ cmd = c /\ report'[c] = Verdict(result[c]) /\ pc' = "idle"
        /\ UNCHANGED <<runs, result>>
    BY <1>1, <1>3, <2>1 DEF Finish, BackToLoop, history, handing, effects
  <2>3. runs[c] = 1 /\ result[c] \in Results
    BY <2>2 DEF LoopInv, StatusBoundsRuns
  <2> QED BY <2>2, <2>3 DEF InHand, Verdict
<1> QED BY <1>2, <1>3

(* Every verdict the control plane has is that of the command's one run,    *)
(* reported after it ended: no verdict is mixed up with another command's. *)
THEOREM VerdictsAreOwn == Spec => []VerdictIsOwn
<1>1. Init => VerdictIsOwn
  BY DEF Init, VerdictIsOwn
<1> QED BY <1>1, VerdictIsOwnStep, TypeCorrect, LoopInvariant, PTL DEF Spec
-----------------------------------------------------------------------------
(***************************************************************************)
(* The refinement.  A step of the loop changes the phase of the command in *)
(* hand, and of that command only.                                         *)
(***************************************************************************)
Phases == [c \in Commands |-> Phase(c)]

(* A step that is none of those that move a run: the contract stutters.    *)
LEMMA PhaseStutters ==
  ASSUME TypeOK, TypeOK', LoopInv, LoopInv',
         UNCHANGED <<runs, result, report>>,
         pc \in {"exec", "executed", "finishing"}
           => /\ cmd' = cmd
              /\ pc' \in {"exec", "executed", "finishing"}
              /\ pc = "exec" <=> pc' = "exec",
         pc \notin {"exec", "executed", "finishing"}
           => pc' \notin {"exec", "executed", "finishing"}
  PROVE  UNCHANGED <<Phases, result, report>>
<1>1. ASSUME NEW c \in Commands PROVE Phase(c)' = Phase(c)
  BY DEF Phase, InHand, TypeOK, AgentTypeOK, HistoryTypeOK, LoopInv,
         StatusBoundsRuns, HooksFollow
<1> QED BY <1>1 DEF Phases
(* The command in hand after its start is the only one running or ended.   *)
LEMMA PhaseOfCmd ==
  ASSUME TypeOK, LoopInv, pc \in {"exec", "executed", "finishing"}
  PROVE  /\ cmd \in Commands /\ runs[cmd] # 0
         /\ Phase(cmd) = IF pc = "exec" THEN "running" ELSE "ended"
BY DEF TypeOK, AgentTypeOK, LoopInv, HooksFollow, StatusBoundsRuns, Phase, InHand

(* The hand-over to the handler is the contract's Begin. *)
LEMMA HandOverBegins ==
  ASSUME TypeOK, LoopInv, NEW d \in Delivery, HandOver(d)
  PROVE  Contract!Next
<1>1. /\ cmd \in Commands /\ runs[cmd] = 0 /\ runs'[cmd] # 0
      /\ cmd' = cmd /\ pc = "started" /\ pc' = "exec"
  BY DEF TypeOK, AgentTypeOK, HistoryTypeOK, LoopInv, HooksFollow,
         StatusBoundsRuns, HandOver
<1>2. \A c \in Commands : Phase(c) \notin {"running", "ended"}
  BY <1>1 DEF Phase, InHand
<1>3. Phase(cmd) = "offered" /\ Phase(cmd)' = "running"
  BY <1>1 DEF Phase, InHand
<1>4. ASSUME NEW c \in Commands, c # cmd PROVE Phase(c)' = Phase(c)
  <2>1. runs'[c] = runs[c]
    BY <1>4 DEF HandOver, TypeOK, HistoryTypeOK
  <2> QED BY <1>1, <1>4, <2>1 DEF Phase, InHand
<1>5. Contract!Begin(cmd)
  BY <1>1, <1>2, <1>3, <1>4 DEF Contract!Begin, HandOver, control, effects
<1> QED BY <1>1, <1>5 DEF Contract!Next

(* A handler that returns is the contract's End. *)
LEMMA ReturnEnds ==
  ASSUME TypeOK, LoopInv, NEW r \in Results, Returns(r), pc = "exec",
         UNCHANGED <<cmd, runs, report>>
  PROVE  Contract!Next
<1>1. cmd \in Commands /\ Phase(cmd) = "running" /\ runs[cmd] # 0
  BY PhaseOfCmd
<1>2. Phase(cmd)' = "ended"
  BY <1>1 DEF Phase, InHand, Returns
<1>3. ASSUME NEW d \in Commands, d # cmd PROVE Phase(d)' = Phase(d)
  BY <1>3 DEF Phase, InHand
<1>4. Contract!End(cmd, r)
  BY <1>1, <1>2, <1>3 DEF Contract!End, Returns
<1>5. r \in Contract!Results
  BY DEF Results, Contract!Results
<1> QED BY <1>1, <1>4, <1>5 DEF Contract!Next

(* A run that leaves the process's hands is over, the others are untouched. *)
LEMMA PhaseWhenDropped ==
  ASSUME TypeOK, LoopInv, pc \in {"exec", "executed", "finishing"},
         pc' \in {"idle", "down"}, UNCHANGED runs
  PROVE  [d \in Commands |-> Phase(d)]'
           = [[d \in Commands |-> Phase(d)] EXCEPT ![cmd] = "over"]
<1>1. runs[cmd] # 0
  BY PhaseOfCmd
<1>2. ASSUME NEW d \in Commands PROVE Phase(d)' = IF d = cmd THEN "over" ELSE Phase(d)
  BY <1>1 DEF Phase, InHand
<1> QED BY <1>2

(* A command dropped without a report is a lost run. *)
LEMMA DropLoses ==
  ASSUME TypeOK, LoopInv, pc \in {"exec", "executed", "finishing"},
         pc' \in {"idle", "down"}, UNCHANGED <<runs, result, report>>
  PROVE  Contract!Next
<1>1. cmd \in Commands /\ Phase(cmd) \in {"running", "ended"}
  BY PhaseOfCmd
<1>2. Contract!Lose(cmd)
  BY <1>1, PhaseWhenDropped DEF Contract!Lose
<1> QED BY <1>1, <1>2 DEF Contract!Next

(* A /finish that arrives is the contract's Report, one that does not      *)
(* arrive a lost run.                                                      *)
LEMMA FinishReports ==
  ASSUME TypeOK, LoopInv, NEW d \in Delivery, Finish(d)
  PROVE  Contract!Next
<1>1. pc = "finishing" /\ pc' = "idle" /\ UNCHANGED <<runs, result>>
  BY DEF Finish, BackToLoop, history, handing, effects
<1>2. CASE ~Reaches(d)
  BY <1>1, <1>2, DropLoses DEF Finish
<1>3. CASE Reaches(d)
  <2>1. cmd \in Commands /\ Phase(cmd) = "ended"
    BY <1>1, PhaseOfCmd
  <2>2. report' = [report EXCEPT ![cmd] = Contract!Verdict(result[cmd])]
    BY <1>3 DEF Finish, Verdict, Contract!Verdict
  <2>3. Contract!Report(cmd)
    BY <1>1, <2>1, <2>2, PhaseWhenDropped DEF Contract!Report
  <2> QED BY <2>1, <2>3 DEF Contract!Next
<1> QED BY <1>2, <1>3

(* Whatever messages are lost and whenever the process dies, what the loop *)
(* does to its commands is what CommandContract allows.                    *)
THEOREM LoopKeepsContract == Spec => KeepsContract
<1>1. Init => Contract!Init
  BY DEF Init, Contract!Init, Phase
<1>2. TypeOK /\ TypeOK' /\ LoopInv /\ LoopInv' /\ [Next]_vars
        => [Contract!Next]_(Contract!cvars)
  <2> SUFFICES ASSUME TypeOK, TypeOK', LoopInv, LoopInv', [Next]_vars
               PROVE  Contract!Next \/ UNCHANGED Contract!cvars
    OBVIOUS
  <2>1. ASSUME UNCHANGED <<Phases, result, report>>
        PROVE  UNCHANGED Contract!cvars
    BY <2>1 DEF Phases, Contract!cvars
  <2>2. CASE Loop
    <3>1. UNCHANGED <<runs, result, report>>
      BY <2>2 DEF Loop, Boot, Heartbeat, Poll, PollNothing, PollClaims,
                  TimerFires, Exit, ProcessEnds, control, history, handing, effects
    <3>2. /\ pc \notin {"exec", "executed", "finishing"}
               => pc' \notin {"exec", "executed", "finishing"}
          /\ pc \in {"exec", "executed", "finishing"} => pc' = pc /\ cmd' = cmd
      BY <2>2 DEF Loop, Boot, Heartbeat, Poll, PollNothing, PollClaims,
                  TimerFires, Exit, ProcessEnds
    <3> QED BY <2>1, <3>1, <3>2, PhaseStutters
  <2>3. CASE Command
    <3>1. ASSUME NEW d \in Delivery, StartFails(d) PROVE UNCHANGED Contract!cvars
      BY <2>1, <3>1, PhaseStutters DEF StartFails, BackToLoop, history, handing, effects
    <3>2. ASSUME NEW d \in Delivery, Finish(d) PROVE Contract!Next
      BY <3>2, FinishReports
    <3>3. CASE StartRefused \/ Start
      BY <2>1, <3>3, PhaseStutters DEF StartRefused, Start, BackToLoop, handing, effects
    <3>4. ASSUME NEW d \in Delivery, HandOver(d) PROVE Contract!Next
      BY <3>4, HandOverBegins
    <3>5. ASSUME NEW f \in Delivery, NEW d \in Delivery, FinalReport(f, d)
          PROVE  UNCHANGED Contract!cvars
      BY <2>1, <3>5, PhaseStutters DEF FinalReport, history, handing, effects
    <3> QED BY <2>3, <3>1, <3>2, <3>3, <3>4, <3>5 DEF Command
  <2>4. CASE Handler
    <3>1. CASE CheckStops
      BY <3>1, ReturnEnds DEF CheckStops, control, handing, Results
    <3>2. ASSUME NEW r \in Results, HandlerReturns(r) PROVE Contract!Next
      BY <3>2, ReturnEnds DEF HandlerReturns, control, handing
    <3>3. CASE CheckPasses \/ CheckBlind \/ Work
               \/ \E f, d \in Delivery : ReportState(f, d)
      BY <2>1, <3>3, PhaseStutters DEF CheckPasses, CheckBlind, Work, ReportState,
                                       control, agent, history, handing, effects
    <3> QED BY <2>4, <3>1, <3>2, <3>3 DEF Handler
  <2>5. CASE Environment
    <3>1. CASE \E c \in Commands : Submit(c) \/ Cancel(c)
      BY <2>1, <3>1, PhaseStutters DEF Submit, Cancel, agent, history, handing, effects
    <3>2. CASE Stop
      BY <2>1, <3>2, PhaseStutters DEF Stop, control, history, handing, effects
    <3>3. CASE Crash
      <4>1. CASE pc \in {"exec", "executed", "finishing"}
        BY <3>3, <4>1, DropLoses DEF Crash, ProcessEnds, control, history, handing, effects
      <4>2. CASE pc \notin {"exec", "executed", "finishing"}
        BY <2>1, <3>3, <4>2, PhaseStutters DEF Crash, ProcessEnds, control, history, handing,
                                               effects
      <4> QED BY <4>1, <4>2
    <3> QED BY <2>5, <3>1, <3>2, <3>3 DEF Environment
  <2>6. CASE UNCHANGED vars
    BY <2>1, <2>6, PhaseStutters DEF vars, control, agent, history, handing, effects
  <2> QED BY <2>2, <2>3, <2>4, <2>5, <2>6 DEF Next
<1> QED BY <1>1, <1>2, TypeCorrect, LoopInvariant, PTL
        DEF Spec, KeepsContract, Contract!Spec
=============================================================================
