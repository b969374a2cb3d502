---------------------------- MODULE ProcessRunner ----------------------------
(***************************************************************************)
(* runProcessWithLiveOutputUntil (internal/runtime/runtime.go) at work for  *)
(* steamcmd: a child, and a helper it may have started, write lines to two *)
(* pipes; a reader per pipe hands them to the executing goroutine through  *)
(* a bounded channel; a waiter reaps the child when both readers are done; *)
(* the context kills the child, never the helper.  A line is known by its   *)
(* stream and its number there, what it says is looked up.                 *)
(***************************************************************************)
EXTENDS Naturals, Sequences

CONSTANTS
  Streams,       \* stdout and stderr
  Lines,         \* the kinds of line that are written
  PipeSize,      \* lines a pipe holds
  ChanSize,      \* events the channel holds
  MaxLines       \* bound: lines begun

(* A line that is blank without its colours, one longer than the scanner's *)
(* buffer, verification progress below and from 99 percent, the state      *)
(* "unknown", the message "Success! ... fully installed".                  *)
Kinds == {"blank", "long", "far", "near", "unknown", "marker"}

ASSUME RunnerAssumption ==
  /\ Lines \subseteq Kinds
  /\ "none" \notin Streams
  /\ {PipeSize, ChanSize} \subseteq Nat \ {0}
  /\ MaxLines \in Nat

Procs  == {"child", "helper"}
Writing == [stream : Streams, line : Lines]

(* Number 0 is the error of a stream's scanner. *)
Events == [stream : Streams, number : Nat]

VARIABLES
  \* processes
  doing,       \* of each: between two lines, at a write, or gone
  code,        \* how the child ended
  pipe,        \* the numbers of the lines in each pipe
  \* goroutines
  reader,      \* of each stream
  held,        \* the number of the line each reader has scanned, or 0
  events,      \* the channel
  waiter, waitErr,
  context,     \* processCtx
  watcher,     \* exec's own goroutine that kills when the context ends
  pc, output, readErr, near, stoppedEarly, outcome,
  \* history
  written,     \* lines written to each stream
  begun        \* lines begun

procs   == <<doing, code>>
pipeline == <<pipe, reader, held, events>>
joining == <<waiter, waitErr>>
history == <<written, begun>>
main    == <<pc, output, readErr, near, stoppedEarly, outcome>>
vars    == <<procs, pipeline, joining, context, watcher, main, history>>

Idle    == [stream |-> "none", line |-> "idle"]
Gone    == [stream |-> "none", line |-> "gone"]
Error(s) == [stream |-> s, number |-> 0]

TypeOK ==
  /\ doing \in [Procs -> {Idle, Gone} \cup Writing]
  /\ code \in {"none", "ok", "fail"}
  /\ code = "none" <=> doing["child"] # Gone
  /\ pipe \in [Streams -> Seq(Nat \ {0})]
  /\ reader \in [Streams -> {"scan", "send", "report", "done", "failed"}]
  /\ held \in [Streams -> Nat]
  /\ events \in Seq(Events)
  /\ waiter \in {"readers", "child", "over"}
  /\ waitErr \in BOOLEAN
  /\ context \in {"live", "deadline", "canceled"}
  /\ watcher \in {"armed", "fired"}
  /\ pc \in {"receive", "verdict", "returned"}
  /\ output \in Seq(Events)
  /\ {readErr, near, stoppedEarly} \subseteq BOOLEAN
  /\ outcome \in {"none", "ok", "timeout", "failed", "unread"}
  /\ outcome = "none" <=> pc # "returned"
  /\ written \in [Streams -> Seq(Lines)]
  /\ begun \in Nat

(* cmd.Start has succeeded. *)
Init ==
  /\ doing = [p \in Procs |-> Idle]
  /\ code = "none"
  /\ pipe = [s \in Streams |-> <<>>]
  /\ reader = [s \in Streams |-> "scan"]
  /\ held = [s \in Streams |-> 0]
  /\ events = <<>>
  /\ waiter = "readers"
  /\ waitErr = FALSE
  /\ context = "live"
  /\ watcher = "armed"
  /\ pc = "receive"
  /\ output = <<>>
  /\ readErr = FALSE
  /\ near = FALSE
  /\ stoppedEarly = FALSE
  /\ outcome = "none"
  /\ written = [s \in Streams |-> <<>>]
  /\ begun = 0
-----------------------------------------------------------------------------
(* Processes.  A write to a full pipe blocks. *)
BeginsLine(p, e) ==
  /\ doing[p] = Idle
  /\ begun < MaxLines
  /\ begun' = begun + 1
  /\ doing' = [doing EXCEPT ![p] = e]
  /\ UNCHANGED <<code, pipeline, joining, context, watcher, main, written>>

Writes(p) ==
  /\ doing[p] \in Writing
  /\ LET s == doing[p].stream
         l == doing[p].line
     IN  /\ Len(pipe[s]) < PipeSize
         /\ written' = [written EXCEPT ![s] = Append(@, l)]
         /\ pipe' = [pipe EXCEPT ![s] = Append(@, Len(written[s]) + 1)]
  /\ doing' = [doing EXCEPT ![p] = Idle]
  /\ UNCHANGED <<code, reader, held, events, joining, context, watcher, main, begun>>

Exits(p, c) ==
  /\ doing[p] = Idle
  /\ doing' = [doing EXCEPT ![p] = Gone]
  /\ code' = IF p = "child" THEN c ELSE code
  /\ UNCHANGED <<pipeline, joining, context, watcher, main, history>>

(* SIGKILL to the child, wherever it is; the helper lives on.              *)
Kill ==
  /\ doing' = [doing EXCEPT !["child"] = Gone]
  /\ code' = IF doing["child"] = Gone THEN code ELSE "fail"
-----------------------------------------------------------------------------
(* readStream: Scan, a send that blocks while the channel is full, and at  *)
(* the end the scanner's error, if any.  What a reader leaves of a line    *)
(* that is too long may go on filling the pipe.                            *)
TooLong(s) == pipe[s] # <<>> /\ written[s][Head(pipe[s])] = "long"

Scans(s) ==
  /\ reader[s] = "scan"
  /\ pipe[s] # <<>>
  /\ ~TooLong(s)
  /\ held' = [held EXCEPT ![s] = Head(pipe[s])]
  /\ pipe' = [pipe EXCEPT ![s] = Tail(@)]
  /\ reader' = [reader EXCEPT ![s] = "send"]
  /\ UNCHANGED <<procs, events, joining, context, watcher, main, history>>

ScanFails(s) ==
  /\ reader[s] = "scan"
  /\ TooLong(s)
  /\ pipe' \in {pipe, [pipe EXCEPT ![s] = Tail(@)]}
  /\ reader' = [reader EXCEPT ![s] = "report"]
  /\ UNCHANGED <<procs, held, events, joining, context, watcher, main, history>>

Sends(s) ==
  /\ Len(events) < ChanSize
  /\ \/ /\ reader[s] = "send"
        /\ events' = Append(events, [stream |-> s, number |-> held[s]])
        /\ held' = [held EXCEPT ![s] = 0]
        /\ reader' = [reader EXCEPT ![s] = "scan"]
     \/ /\ reader[s] = "report"
        /\ events' = Append(events, Error(s))
        /\ reader' = [reader EXCEPT ![s] = "failed"]
        /\ UNCHANGED held
  /\ UNCHANGED <<procs, pipe, joining, context, watcher, main, history>>

(* End of file: nobody holds the other end of the pipe any more.           *)
EndOfFile(s) ==
  /\ reader[s] = "scan"
  /\ pipe[s] = <<>>
  /\ \A p \in Procs : doing[p] = Gone
  /\ reader' = [reader EXCEPT ![s] = "done"]
  /\ UNCHANGED <<procs, pipe, held, events, joining, context, watcher, main, history>>

AnyReader == \E s \in Streams : reader[s] \in {"done", "failed"}

BothReaders == \A s \in Streams : reader[s] \in {"done", "failed"}

ReadersWait ==
  /\ waiter = "readers"
  /\ BothReaders
  /\ waiter' = "child"
  /\ UNCHANGED <<procs, pipeline, waitErr, context, watcher, main, history>>

(* cmd.Wait: also the context's error counts when its kill found a process *)
(* that had not been reaped.  Then the channels are closed.                *)
Reaps ==
  /\ waiter = "child"
  /\ doing["child"] = Gone
  /\ waiter' = "over"
  /\ waitErr' = (code # "ok" \/ watcher = "fired")
  /\ UNCHANGED <<procs, pipeline, context, watcher, main, history>>

(* The timeout, or the SIGTERM that cancels the command's context.         *)
ContextEnds(why) ==
  /\ context = "live"
  /\ context' = why
  /\ UNCHANGED <<procs, pipeline, joining, watcher, main, history>>

NoCommandContext ==
  /\ context # "live"
  /\ watcher = "armed"
  /\ watcher' = "fired"
  /\ UNCHANGED <<procs, pipeline, joining, context, main, history>>

ContextKills ==
  /\ context # "live"
  /\ watcher = "armed"
  /\ waiter # "over"
  /\ watcher' = "fired"
  /\ Kill
  /\ UNCHANGED <<pipeline, joining, context, main, history>>
-----------------------------------------------------------------------------
(* buildSteamcmdValidateStopCondition: progress of the verification sets   *)
(* or resets sawVerifyNearCompletion, other lines leave it.                *)
EverNear(l) == near \/ l = "near"

Near(l) == IF l \in {"near", "far"} THEN l = "near" ELSE near

Stops(l) == l = "marker" \/ (l = "unknown" /\ near)

(* One event of the range loop.                                            *)
LineOf(e) == written[e.stream][e.number]

ReceiveError ==
  /\ pc = "receive"
  /\ events # <<>> /\ Head(events).number = 0
  /\ events' = Tail(events)
  /\ readErr' = TRUE
  /\ UNCHANGED <<procs, pipe, reader, held, joining, context, watcher, pc, output, near,
                 stoppedEarly, outcome, history>>

ReceiveLine ==
  /\ pc = "receive"
  /\ events # <<>> /\ Head(events).number # 0
  /\ LET l == LineOf(Head(events))
     IN  IF l = "blank"
         THEN UNCHANGED <<output, near, stoppedEarly, procs>>
         ELSE /\ output' = Append(output, Head(events))
              /\ near' = Near(l)
              /\ IF Stops(l) THEN stoppedEarly' = TRUE /\ Kill
                             ELSE UNCHANGED <<stoppedEarly, procs>>
  /\ events' = Tail(events)
  /\ UNCHANGED <<pipe, reader, held, joining, context, watcher, pc, readErr, outcome, history>>

ChannelCloses ==
  /\ pc = "receive"
  /\ events = <<>>
  /\ waiter = "over"
  /\ pc' = "verdict"
  /\ UNCHANGED <<procs, pipeline, joining, context, watcher, output, readErr, near,
                 stoppedEarly, outcome, history>>

Verdict == IF context = "deadline" THEN "timeout"
           ELSE IF waitErr /\ ~stoppedEarly THEN "failed"
           ELSE IF readErr THEN "unread" ELSE "ok"

Return ==
  /\ pc = "verdict"
  /\ pc' = "returned"
  /\ outcome' = Verdict
  /\ UNCHANGED <<procs, pipeline, joining, context, watcher, output, readErr,
                 near, stoppedEarly, history>>

Process(p) == \/ \E e \in Writing : BeginsLine(p, e)
              \/ Writes(p)
              \/ \E c \in {"ok", "fail"} : Exits(p, c)

Reader(s) == Scans(s) \/ ScanFails(s) \/ Sends(s) \/ EndOfFile(s)

Waiter == ReadersWait \/ Reaps

Main == ReceiveError \/ ReceiveLine \/ ChannelCloses \/ Return

Next == \/ \E p \in Procs : Process(p)
        \/ \E s \in Streams : Reader(s)
        \/ Waiter
        \/ \E why \in {"deadline", "canceled"} : ContextEnds(why)
        \/ ContextKills
        \/ Main

Spec == Init /\ [][Next]_vars

(* Goroutines that can go on do so, and the time of the timeout comes.      *)
(* Nothing makes a process end, or go on: the child may run until it is    *)
(* killed, a helper for ever.                                              *)
FairSpec ==
  /\ Spec
  /\ \A s \in Streams : WF_vars(Reader(s))
  /\ WF_vars(Waiter)
  /\ WF_vars(\E why \in {"deadline", "canceled"} : ContextEnds(why))
  /\ WF_vars(ContextKills)
  /\ WF_vars(Main)
-----------------------------------------------------------------------------
(* The inductive invariant.  In whatever order the readers, the waiter, the *)
(* context and the processes end, the channel is closed only when both     *)
(* readers have left and the child is reaped; and a reader leaves in peace *)
(* only when every process is gone, so the runner returns before a process *)
(* that holds its pipes only if both readers have failed.                  *)
EndsInOrder ==
  /\ waiter # "readers" => BothReaders
  /\ waiter = "over" => doing["child"] = Gone
  /\ pc # "receive" => waiter = "over"
  /\ (\E s \in Streams : reader[s] = "done") => \A p \in Procs : doing[p] = Gone

NobodyOutlives ==
  outcome # "none" =>
    /\ doing["child"] = Gone
    /\ doing["helper"] = Gone \/ \A s \in Streams : reader[s] = "failed"

RunnerInv == TypeOK /\ EndsInOrder /\ NobodyOutlives

(* Success means that the child ended by itself with status 0 or that the  *)
(* output says steamcmd has finished - its message, or the state "unknown" *)
(* when the last progress before it was near completion - and then, too,   *)
(* that all that was written to each pipe has been seen, in its order.     *)
SaysFinished(k) ==
  \/ LineOf(output[k]) = "marker"
  \/ /\ LineOf(output[k]) = "unknown"
     /\ \E j \in 1..(k - 1) :
          /\ LineOf(output[j]) = "near"
          /\ \A i \in j..k : LineOf(output[i]) # "far"

AllShown ==
  \A s \in Streams : \A n \in DOMAIN written[s] :
    written[s][n] # "blank" => \E k \in DOMAIN output : output[k] = [stream |-> s, number |-> n]

ShownInOrder ==
  \A j, k \in DOMAIN output :
    j < k /\ output[j].stream = output[k].stream => output[j].number < output[k].number

OkMeansComplete ==
  outcome = "ok" =>
    /\ code = "ok" \/ \E k \in DOMAIN output : SaysFinished(k)
    /\ AllShown
    /\ ShownInOrder

(* The runner returns whatever the child does, since the kill of the        *)
(* timeout ends it, unless a helper lives on and holds the pipes: that is  *)
(* all that can keep it, no full channel, no line that is too long and no  *)
(* order in which its goroutines end.                                      *)
RunnerEnds == <>(outcome # "none") \/ <>[](doing["helper"] # Gone)

(* A run is over when its time is: "%s timed out after %s".                *)
TimeoutEnds == <>(outcome # "none")
=============================================================================
