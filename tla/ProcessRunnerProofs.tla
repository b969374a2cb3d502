-------------------------- MODULE ProcessRunnerProofs --------------------------
(***************************************************************************)
(* Proofs about ProcessRunner, for every number of streams, every size of  *)
(* pipe and channel, and any number of lines of every kind.                *)
(***************************************************************************)
EXTENDS ProcessRunner, Integers, SequenceTheorems, TLAPS

LEMMA Tags == /\ Idle # Gone
              /\ Idle \notin Writing
              /\ Gone \notin Writing
              /\ \A e \in Writing : e.stream \in Streams /\ e.line \in Lines
              /\ \A s \in Streams : Error(s) \in Events
<1>1. Idle.line # Gone.line
  BY DEF Idle, Gone
<1>2. Idle.stream \notin Streams /\ Gone.stream \notin Streams
  BY RunnerAssumption DEF Idle, Gone
<1> QED BY <1>1, <1>2 DEF Writing, Events, Error

(* A pipe or the channel after a line has gone in or come out. *)
LEMMA InAndOut ==
  ASSUME NEW S, NEW q \in Seq(S)
  PROVE  /\ \A e \in S : Append(q, e) \in Seq(S)
         /\ q # <<>> => Head(q) \in S /\ Tail(q) \in Seq(S)
BY AppendProperties, HeadTailProperties

LEMMA TypeInit == Init => TypeOK
<1>1. <<>> \in Seq(Lines) /\ <<>> \in Seq(Events) /\ <<>> \in Seq(Nat \ {0})
  BY EmptySeq
<1> SUFFICES ASSUME Init PROVE TypeOK
  OBVIOUS
<1>2. /\ pipe \in [Streams -> Seq(Nat \ {0})]
      /\ written \in [Streams -> Seq(Lines)]
      /\ events \in Seq(Events)
      /\ output \in Seq(Events)
  BY <1>1 DEF Init
<1>3. /\ doing \in [Procs -> {Idle, Gone} \cup Writing]
      /\ code = "none" <=> doing["child"] # Gone
  BY Tags DEF Init, Procs
<1>4. /\ reader \in [Streams -> {"scan", "send", "report", "done", "failed"}]
      /\ held \in [Streams -> Nat]
  BY DEF Init
<1> QED BY <1>2, <1>3, <1>4 DEF Init, TypeOK

(* The kill of the child keeps what is known of the two processes.         *)
LEMMA KillTypes == TypeOK /\ Kill => /\ doing' \in [Procs -> {Idle, Gone} \cup Writing]
                                     /\ code' \in {"none", "ok", "fail"}
                                     /\ code' = "none" <=> doing'["child"] # Gone
                                     /\ doing'["child"] = Gone
                                     /\ doing'["helper"] = doing["helper"]
BY DEF TypeOK, Kill, Procs

LEMMA ProcessTypes == ASSUME TypeOK, NEW q \in Procs, Process(q) PROVE TypeOK'
<1>1. CASE \E e \in Writing : BeginsLine(q, e)
  BY <1>1, Tags DEF TypeOK, BeginsLine, pipeline, joining, main
<1>2. CASE Writes(q)
  <2> DEFINE s == doing[q].stream
             l == doing[q].line
  <2>1. s \in Streams /\ l \in Lines
    BY <1>2, Tags DEF Writes
  <2>2. /\ Append(written[s], l) \in Seq(Lines)
        /\ Append(pipe[s], Len(written[s]) + 1) \in Seq(Nat \ {0})
    <3>1. Len(written[s]) + 1 \in Nat \ {0}
      BY <2>1, LenProperties DEF TypeOK
    <3> QED BY <2>1, <3>1, InAndOut DEF TypeOK
  <2>3. pipe' \in [Streams -> Seq(Nat \ {0})] /\ written' \in [Streams -> Seq(Lines)]
    BY <1>2, <2>1, <2>2 DEF Writes, TypeOK
  <2>4. /\ doing' \in [Procs -> {Idle, Gone} \cup Writing]
        /\ doing'["child"] # Gone <=> doing["child"] # Gone
    BY <1>2, Tags DEF Writes, TypeOK, Procs
  <2> QED BY <1>2, <2>3, <2>4 DEF TypeOK, Writes, joining, main
<1>3. CASE \E c \in {"ok", "fail"} : Exits(q, c)
  BY <1>3, Tags DEF TypeOK, Exits, pipeline, joining, main, history, Procs
<1> QED BY <1>1, <1>2, <1>3 DEF Process

LEMMA ReaderTypes == ASSUME TypeOK, NEW s \in Streams, Reader(s) PROVE TypeOK'
<1>1. pipe[s] \in Seq(Nat \ {0}) /\ events \in Seq(Events)
  BY DEF TypeOK
<1>2. CASE Scans(s)
  <2>1. Head(pipe[s]) \in Nat /\ Tail(pipe[s]) \in Seq(Nat \ {0})
    BY <1>1, <1>2, InAndOut DEF Scans
  <2> QED BY <1>2, <2>1 DEF TypeOK, Scans, procs, joining, main, history
<1>3. CASE ScanFails(s)
  <2>1. Tail(pipe[s]) \in Seq(Nat \ {0})
    BY <1>1, <1>3, InAndOut DEF ScanFails, TooLong
  <2>2. pipe' \in [Streams -> Seq(Nat \ {0})]
    BY <1>3, <2>1 DEF ScanFails, TypeOK
  <2> QED BY <1>3, <2>2 DEF TypeOK, ScanFails, procs, joining, main, history
<1>4. CASE Sends(s)
  <2>1. \A e \in Events : Append(events, e) \in Seq(Events)
    BY <1>1, InAndOut
  <2>2. [stream |-> s, number |-> held[s]] \in Events
    BY DEF TypeOK, Events
  <2>3. Error(s) \in Events
    BY Tags
  <2>4. events' \in Seq(Events)
    BY <1>4, <2>1, <2>2, <2>3 DEF Sends
  <2>5. reader' \in [Streams -> {"scan", "send", "report", "done", "failed"}]
    BY <1>4 DEF Sends, TypeOK
  <2>7. held' \in [Streams -> Nat]
    <3>1. held \in [Streams -> Nat] /\ [held EXCEPT ![s] = 0] \in [Streams -> Nat]
      BY DEF TypeOK
    <3> QED BY <1>4, <3>1 DEF Sends
  <2>6. UNCHANGED <<procs, pipe, joining, context, watcher, main, history>>
    BY <1>4 DEF Sends
  <2> QED BY <2>4, <2>5, <2>6, <2>7 DEF TypeOK, procs, joining, main, history
<1>5. CASE EndOfFile(s)
  BY <1>5 DEF TypeOK, EndOfFile, procs, joining, main, history
<1> QED BY <1>2, <1>3, <1>4, <1>5 DEF Reader

LEMMA MainTypes == ASSUME TypeOK, Main PROVE TypeOK'
<1>1. events \in Seq(Events)
  BY DEF TypeOK
<1>2. events # <<>> => Head(events) \in Events /\ Tail(events) \in Seq(Events)
  BY <1>1, InAndOut
<1>3. CASE ReceiveError
  BY <1>2, <1>3 DEF TypeOK, ReceiveError, procs, joining, history
<1>4. CASE ReceiveLine
  <2>1. Head(events) \in Events
    BY <1>2, <1>4 DEF ReceiveLine
  <2>2. Append(output, Head(events)) \in Seq(Events)
    BY <2>1, InAndOut DEF TypeOK
  <2>3. output' \in Seq(Events) /\ events' \in Seq(Events)
    BY <1>2, <1>4, <2>2 DEF ReceiveLine, TypeOK
  <2>4. near' \in BOOLEAN /\ stoppedEarly' \in BOOLEAN
    BY <1>4 DEF ReceiveLine, TypeOK, Near
  <2>5. Kill \/ UNCHANGED procs
    BY <1>4 DEF ReceiveLine
  <2>6. /\ doing' \in [Procs -> {Idle, Gone} \cup Writing]
        /\ code' \in {"none", "ok", "fail"}
        /\ code' = "none" <=> doing'["child"] # Gone
    BY <2>5, KillTypes DEF procs, TypeOK
  <2>7. UNCHANGED <<pipe, reader, held, joining, context, watcher, pc, readErr, outcome, history>>
    BY <1>4 DEF ReceiveLine
  <2> QED BY <2>3, <2>4, <2>6, <2>7 DEF TypeOK, joining, history
<1>5. CASE ChannelCloses
  BY <1>5 DEF TypeOK, ChannelCloses, procs, pipeline, joining, history
<1>6. CASE Return
  BY <1>6 DEF TypeOK, Return, Verdict, procs, pipeline, joining, history
<1> QED BY <1>3, <1>4, <1>5, <1>6 DEF Main

LEMMA TypeStep == TypeOK /\ [Next]_vars => TypeOK'
<1> SUFFICES ASSUME TypeOK, [Next]_vars PROVE TypeOK'
  OBVIOUS
<1>1. CASE \E q \in Procs : Process(q)
  BY <1>1, ProcessTypes
<1>2. CASE \E s \in Streams : Reader(s)
  BY <1>2, ReaderTypes
<1>3. CASE Waiter
  BY <1>3 DEF TypeOK, Waiter, ReadersWait, Reaps, procs, pipeline, main, history
<1>4. CASE \E why \in {"deadline", "canceled"} : ContextEnds(why)
  BY <1>4 DEF TypeOK, ContextEnds, procs, pipeline, joining, main, history
<1>5. CASE ContextKills
  BY <1>5, KillTypes DEF TypeOK, ContextKills, pipeline, joining, main, history
<1>6. CASE Main
  BY <1>6, MainTypes
<1>7. CASE UNCHANGED vars
  BY <1>7 DEF TypeOK, vars, procs, pipeline, joining, main, history
<1> QED BY <1>1, <1>2, <1>3, <1>4, <1>5, <1>6, <1>7 DEF Next

(* A process that is gone stays gone, a reader that has left has left.     *)
LEMMA EndsAreFinal ==
  ASSUME TypeOK, [Next]_vars
  PROVE  /\ \A q \in Procs : doing[q] = Gone => doing'[q] = Gone
         /\ \A s \in Streams : reader[s] = "done" => reader'[s] = "done"
         /\ \A s \in Streams : reader[s] = "failed" => reader'[s] = "failed"
<1>1. CASE \E q \in Procs : Process(q)
  BY <1>1, Tags DEF TypeOK, Process, BeginsLine, Writes, Exits, pipeline
<1>2. CASE \E s \in Streams : Reader(s)
  BY <1>2 DEF TypeOK, Reader, Scans, ScanFails, Sends, EndOfFile, procs
<1>3. CASE Waiter
  BY <1>3 DEF Waiter, ReadersWait, Reaps, procs, pipeline
<1>4. CASE \E why \in {"deadline", "canceled"} : ContextEnds(why)
  BY <1>4 DEF ContextEnds, procs, pipeline
<1>5. CASE ContextKills
  BY <1>5, KillTypes DEF ContextKills, pipeline, Procs
<1>6. CASE Main
  <2>1. Kill \/ UNCHANGED doing
    BY <1>6 DEF Main, ReceiveError, ReceiveLine, ChannelCloses, Return, procs
  <2>2. UNCHANGED reader
    BY <1>6 DEF Main, ReceiveError, ReceiveLine, ChannelCloses, Return, pipeline
  <2> QED BY <2>1, <2>2, KillTypes DEF Procs
<1>7. CASE UNCHANGED vars
  BY <1>7 DEF vars, procs, pipeline
<1> QED BY <1>1, <1>2, <1>3, <1>4, <1>5, <1>6, <1>7 DEF Next

LEMMA OrderStep == TypeOK /\ TypeOK' /\ EndsInOrder /\ [Next]_vars => EndsInOrder'
<1> SUFFICES ASSUME TypeOK, TypeOK', EndsInOrder, [Next]_vars PROVE EndsInOrder'
  OBVIOUS
<1>1. BothReaders => BothReaders'
  BY EndsAreFinal DEF BothReaders
<1>2. doing["child"] = Gone => doing'["child"] = Gone
  BY EndsAreFinal DEF Procs
<1>3. waiter' # "readers" => BothReaders'
  <2>1. waiter' # waiter => Waiter
    BY DEF Next, Process, BeginsLine, Writes, Exits, Reader, Scans, ScanFails, Sends, EndOfFile,
           ContextEnds, ContextKills, Main, ReceiveError, ReceiveLine, ChannelCloses, Return,
           vars, joining
  <2>2. waiter' # "readers" => BothReaders
    BY <2>1 DEF EndsInOrder, Waiter, ReadersWait, Reaps, TypeOK
  <2> QED BY <1>1, <2>2
<1>4. waiter' = "over" => doing'["child"] = Gone
  <2>1. waiter' = "over" => waiter = "over" \/ Reaps
    BY DEF Next, Process, BeginsLine, Writes, Exits, Reader, Scans, ScanFails, Sends, EndOfFile,
           ContextEnds, ContextKills, Main, ReceiveError, ReceiveLine, ChannelCloses, Return,
           Waiter, ReadersWait, vars, joining
  <2> QED BY <1>2, <2>1 DEF EndsInOrder, Reaps
<1>5. pc' # "receive" => waiter' = "over"
  <2>1. waiter = "over" => waiter' = "over"
    BY DEF Next, Process, BeginsLine, Writes, Exits, Reader, Scans, ScanFails, Sends, EndOfFile,
           ContextEnds, ContextKills, Main, ReceiveError, ReceiveLine, ChannelCloses, Return,
           Waiter, ReadersWait, Reaps, vars, joining
  <2>2. pc' # "receive" => pc # "receive" \/ ChannelCloses
    BY DEF Next, Process, BeginsLine, Writes, Exits, Reader, Scans, ScanFails, Sends, EndOfFile,
           ContextEnds, ContextKills, Main, ReceiveError, ReceiveLine, Return,
           Waiter, ReadersWait, Reaps, vars, main
  <2> QED BY <2>1, <2>2 DEF EndsInOrder, ChannelCloses
<1>6. ASSUME NEW s \in Streams, reader'[s] = "done"
      PROVE  \A q \in Procs : doing'[q] = Gone
  <2>1. reader[s] = "done" \/ EndOfFile(s)
    <3>1. CASE \E t \in Streams : Reader(t)
      BY <1>6, <3>1 DEF TypeOK, Reader, Scans, ScanFails, Sends, EndOfFile
    <3>2. CASE UNCHANGED reader
      BY <1>6, <3>2
    <3>3. (\E t \in Streams : Reader(t)) \/ UNCHANGED reader
      BY DEF Next, Process, BeginsLine, Writes, Exits, ContextEnds, ContextKills, Main,
             ReceiveError, ReceiveLine, ChannelCloses, Return, Waiter, ReadersWait, Reaps,
             vars, pipeline
    <3> QED BY <3>1, <3>2, <3>3
  <2>2. \A q \in Procs : doing[q] = Gone
    BY <2>1 DEF EndsInOrder, EndOfFile
  <2> QED BY <2>2, EndsAreFinal
<1> QED BY <1>3, <1>4, <1>5, <1>6 DEF EndsInOrder

LEMMA NobodyLeft == TypeOK /\ EndsInOrder => NobodyOutlives
BY DEF TypeOK, EndsInOrder, NobodyOutlives, BothReaders, Procs

(* The runner returns, and its channel is closed, only when both readers    *)
(* and the child are over; a process that holds a pipe is left behind only *)
(* when every reader has failed.                                           *)
THEOREM RunnerInvariant == Spec => []RunnerInv
<1>1. Init => RunnerInv
  <2>1. Init => EndsInOrder
    BY DEF Init, EndsInOrder
  <2> QED BY <2>1, TypeInit, NobodyLeft DEF RunnerInv
<1>2. RunnerInv /\ [Next]_vars => RunnerInv'
  <2> SUFFICES ASSUME RunnerInv, [Next]_vars PROVE RunnerInv'
    OBVIOUS
  <2>1. TypeOK' /\ EndsInOrder'
    BY TypeStep, OrderStep DEF RunnerInv
  <2>2. NobodyOutlives'
    BY <2>1 DEF TypeOK, EndsInOrder, NobodyOutlives, BothReaders, Procs
  <2> QED BY <2>1, <2>2 DEF RunnerInv
<1> QED BY <1>1, <1>2, PTL DEF Spec
-----------------------------------------------------------------------------
(* What success means.  Lines are followed from the pipe to the output by   *)
(* their numbers: those still in a pipe are the last ones written, and a    *)
(* reader that has not given up has passed on all that left the pipe,       *)
(* except the one it holds.                                                *)
Left(s) == Len(written[s]) - Len(pipe[s])

Passed(s) == IF reader[s] = "send" THEN Left(s) - 1 ELSE Left(s)

GivenUp(s) == reader[s] \in {"report", "failed"}

Tag(s, n) == [stream |-> s, number |-> n]

(* The last lines written are in the pipe, in their order; after the end of *)
(* file there are none.                                                    *)
Pipes ==
  \A s \in Streams :
    /\ Len(pipe[s]) <= Len(written[s])
    /\ \A i \in 1..Len(pipe[s]) : pipe[s][i] = Left(s) + i
    /\ reader[s] = "send" => held[s] = Left(s) /\ held[s] > 0
    /\ reader[s] = "done" => pipe[s] = <<>>

(* Only lines that a reader has passed on are in the channel and behind it. *)
Numbers ==
  \A s \in Streams :
    /\ \A k \in 1..Len(output) : output[k].stream = s => output[k].number \in 1..Passed(s)
    /\ \A k \in 1..Len(events) : events[k].stream = s => events[k].number \in 0..Passed(s)

(* Of one stream, the lines in the output, then those in the channel, come  *)
(* in the order they were written in.                                      *)
Ordered ==
  /\ \A j, k \in 1..Len(output) :
       j < k /\ output[j].stream = output[k].stream => output[j].number < output[k].number
  /\ \A j, k \in 1..Len(events) :
       j < k /\ events[j].stream = events[k].stream /\ events[k].number # 0 =>
         events[j].number < events[k].number
  /\ \A j \in 1..Len(output), k \in 1..Len(events) :
       output[j].stream = events[k].stream /\ events[k].number # 0 =>
         output[j].number < events[k].number

(* No line that has been passed on is lost, unless its reader gave up.      *)
Among(e, q) == \E k \in 1..Len(q) : q[k] = e

Covered ==
  \A s \in Streams : ~GivenUp(s) =>
    \A n \in 1..Passed(s) :
      written[s][n] = "blank" \/ Among(Tag(s, n), output) \/ Among(Tag(s, n), events)

(* A reader that has given up has said so. *)
Reported == \A s \in Streams : reader[s] = "failed" => readErr \/ Among(Error(s), events)

Flow == Pipes /\ Numbers /\ Ordered /\ Covered /\ Reported

(* The stop condition has seen what it says; the verdict rests on the exit   *)
(* status, on the stop and on the readers' errors.                         *)
NearInOutput ==
  \E j \in 1..Len(output) :
    /\ LineOf(output[j]) = "near"
    /\ \A i \in j..Len(output) : LineOf(output[i]) # "far"

Judged ==
  /\ near => NearInOutput
  /\ stoppedEarly => \E k \in 1..Len(output) : SaysFinished(k)
  /\ waiter = "over" /\ ~waitErr => code = "ok"
  /\ pc # "receive" => events = <<>>
  /\ outcome = "ok" => ~readErr /\ (waitErr => stoppedEarly)

LEMMA Appended ==
  ASSUME NEW S, NEW q \in Seq(S), NEW e \in S
  PROVE  /\ Len(q) \in Nat
         /\ Append(q, e) \in Seq(S)
         /\ Len(Append(q, e)) = Len(q) + 1
         /\ \A k \in 1..Len(q) : Append(q, e)[k] = q[k]
         /\ Append(q, e)[Len(q) + 1] = e
BY AppendProperties, LenProperties

LEMMA Taken ==
  ASSUME NEW S, NEW q \in Seq(S), q # <<>>
  PROVE  /\ Len(q) \in Nat /\ Len(q) >= 1
         /\ Head(q) = q[1] /\ q[1] \in S
         /\ Tail(q) \in Seq(S)
         /\ Len(Tail(q)) = Len(q) - 1
         /\ \A k \in 1..Len(Tail(q)) : Tail(q)[k] = q[k + 1]
<1>1. Len(q) \in Nat /\ Len(q) # 0
  BY LenProperties, EmptySeq
<1>2. Head(q) = q[1] /\ q[1] \in S
  BY <1>1, ElementOfSeq, HeadTailProperties
<1> QED BY <1>1, <1>2, HeadTailProperties

LEMMA Sums == /\ \A x \in Nat : x + 1 > 0 /\ (x + 1) - 1 = x
              /\ \A x, i \in Nat : x + (i + 1) = (x + 1) + i
              /\ \A x, y \in Nat : (x + 1) - (y + 1) = x - y /\ (x - y) + (y + 1) = x + 1
OBVIOUS

LEMMA TagFacts == /\ \A s, n : Tag(s, n).stream = s /\ Tag(s, n).number = n
                  /\ \A s : Error(s) = Tag(s, 0)
                  /\ \A s \in Streams, n \in Nat : Tag(s, n) \in Events
                  /\ \A e \in Events : /\ e = Tag(e.stream, e.number)
                                       /\ e.stream \in Streams /\ e.number \in Nat
BY DEF Tag, Error, Events

LEMMA FlowTypes ==
  ASSUME TypeOK
  PROVE  /\ \A s \in Streams : /\ pipe[s] \in Seq(Nat \ {0}) /\ Len(pipe[s]) \in Nat
                               /\ written[s] \in Seq(Lines) /\ Len(written[s]) \in Nat
                               /\ held[s] \in Nat
         /\ Len(events) \in Nat /\ Len(output) \in Nat
         /\ \A k \in 1..Len(events) : events[k] \in Events
         /\ \A k \in 1..Len(output) : output[k] \in Events
<1>1. events \in Seq(Events) /\ output \in Seq(Events)
  BY DEF TypeOK
<1>2. \A s \in Streams : pipe[s] \in Seq(Nat \ {0}) /\ written[s] \in Seq(Lines) /\ held[s] \in Nat
  BY DEF TypeOK
<1>3. \A S : \A q \in Seq(S) : Len(q) \in Nat /\ \A k \in 1..Len(q) : q[k] \in S
  BY LenProperties, ElementOfSeq
<1> QED BY <1>1, <1>2, <1>3

(* What is in the channel and the output has been written. *)
LEMMA PassedTypes ==
  ASSUME TypeOK, Pipes, NEW s \in Streams
  PROVE  /\ Left(s) \in Nat /\ Passed(s) \in Nat
         /\ Passed(s) <= Left(s) /\ Left(s) <= Len(written[s])
         /\ Len(pipe[s]) = Len(written[s]) - Left(s)
<1>1. Len(pipe[s]) \in Nat /\ Len(written[s]) \in Nat /\ Len(pipe[s]) <= Len(written[s])
  BY FlowTypes DEF Pipes
<1>2. Left(s) \in Nat /\ Left(s) <= Len(written[s]) /\ Len(pipe[s]) = Len(written[s]) - Left(s)
  <2>1. \A m, n \in Nat : n <= m => m - n \in Nat /\ m - n <= m /\ n = m - (m - n)
    OBVIOUS
  <2> QED BY <1>1, <2>1 DEF Left
<1>3. reader[s] = "send" => Left(s) > 0
  BY DEF Pipes
<1> QED BY <1>2, <1>3 DEF Passed

LEMMA FlowInit == Init => Flow
<1> SUFFICES ASSUME Init PROVE Flow
  OBVIOUS
<1>1. \A s \in Streams : pipe[s] = <<>> /\ written[s] = <<>> /\ reader[s] = "scan"
  BY DEF Init
<1>2. /\ \A s \in Streams : Len(pipe[s]) = 0 /\ Len(written[s]) = 0
      /\ Len(events) = 0 /\ Len(output) = 0
  BY <1>1, EmptySeq DEF Init
<1>3. ASSUME NEW s \in Streams PROVE Left(s) = 0 /\ Passed(s) = 0
  <2>1. 0 - 0 = 0
    OBVIOUS
  <2>2. Left(s) = 0
    BY <1>2, <2>1 DEF Left
  <2> QED BY <1>1, <2>2 DEF Passed
<1>4. Pipes
  <2>1. 0 <= 0 /\ \A k \in 1..0 : FALSE
    OBVIOUS
  <2>2. \A s \in Streams : Len(pipe[s]) <= Len(written[s])
    BY <1>2, <2>1
  <2>3. \A s \in Streams : \A i \in 1..Len(pipe[s]) : FALSE
    BY <1>2, <2>1
  <2> QED BY <1>1, <2>2, <2>3 DEF Pipes
<1>5. Numbers /\ Ordered
  BY <1>2 DEF Numbers, Ordered
<1>6. Covered
  BY <1>3 DEF Covered
<1>7. Reported
  BY <1>1 DEF Reported
<1> QED BY <1>4, <1>5, <1>6, <1>7 DEF Flow

(* Most steps touch no line on its way. *)
FlowVars == <<pipe, reader, held, events, written, output, readErr>>

LEMMA FlowKept == Flow /\ UNCHANGED FlowVars => Flow'
<1> SUFFICES ASSUME Flow, UNCHANGED FlowVars PROVE Flow'
  OBVIOUS
<1>1. Pipes'
  BY DEF Flow, FlowVars, Pipes, Left
<1>2. Numbers'
  BY DEF Flow, FlowVars, Numbers, Passed, Left
<1>3. Ordered'
  BY DEF Flow, FlowVars, Ordered
<1>4. Covered'
  BY DEF Flow, FlowVars, Covered, Passed, Left, GivenUp
<1>5. Reported'
  BY DEF Flow, FlowVars, Reported
<1> QED BY <1>1, <1>2, <1>3, <1>4, <1>5 DEF Flow

LEMMA WritesFlow ==
  ASSUME TypeOK, EndsInOrder, Flow, NEW q \in Procs, Writes(q)
  PROVE  Flow'
<1> DEFINE s == doing[q].stream
           l == doing[q].line
           m == Len(written[s])
           n == Len(pipe[s])
<1>1. s \in Streams /\ l \in Lines /\ doing[q] # Gone
  BY Tags DEF Writes
<1>2. m \in Nat /\ n \in Nat /\ n <= m /\ m + 1 \in Nat \ {0}
  BY <1>1, FlowTypes DEF Flow, Pipes
<1>3. /\ UNCHANGED <<reader, held, events, output, readErr>>
      /\ \A t \in Streams : t # s => pipe'[t] = pipe[t] /\ written'[t] = written[t]
      /\ pipe'[s] = Append(pipe[s], m + 1)
      /\ written'[s] = Append(written[s], l)
  BY <1>1 DEF Writes, main, TypeOK
<1>4. /\ Len(written'[s]) = m + 1
      /\ \A k \in 1..m : written'[s][k] = written[s][k]
  <2>1. written[s] \in Seq(Lines)
    BY <1>1, FlowTypes
  <2> QED BY <1>1, <1>3, <2>1, Appended
<1>5. /\ Len(pipe'[s]) = n + 1
      /\ \A k \in 1..n : pipe'[s][k] = pipe[s][k]
      /\ pipe'[s][n + 1] = m + 1
  <2>1. pipe[s] \in Seq(Nat \ {0})
    BY <1>1, FlowTypes
  <2> QED BY <1>1, <1>2, <1>3, <2>1, Appended
<1> HIDE DEF s, l
<1>6. ASSUME NEW t \in Streams PROVE Left(t)' = Left(t) /\ Passed(t)' = Passed(t)
  <2>1. Left(t)' = Left(t)
    <3>1. CASE t # s
      BY <1>3, <3>1 DEF Left
    <3>2. CASE t = s
      <4>1. (m + 1) - (n + 1) = m - n
        BY <1>2, Sums
      <4> QED BY <1>4, <1>5, <3>2, <4>1 DEF Left
    <3> QED BY <3>1, <3>2
  <2> QED BY <1>3, <2>1 DEF Passed
<1>7. Pipes'
  <2> SUFFICES ASSUME NEW t \in Streams
               PROVE  /\ Len(pipe'[t]) <= Len(written'[t])
                      /\ \A i \in 1..Len(pipe'[t]) : pipe'[t][i] = Left(t) + i
                      /\ reader[t] = "send" => held[t] = Left(t) /\ held[t] > 0
                      /\ reader[t] = "done" => pipe'[t] = <<>>
    BY <1>3, <1>6 DEF Pipes
  <2>1. CASE t # s
    BY <1>3, <2>1 DEF Flow, Pipes
  <2>2. CASE t = s
    <3>1. Len(pipe'[t]) <= Len(written'[t])
      BY <1>2, <1>4, <1>5, <2>2
    <3>2. ASSUME NEW i \in 1..Len(pipe'[t]) PROVE pipe'[t][i] = Left(t) + i
      <4>1. i \in 1..n \/ i = n + 1
        BY <1>2, <1>5, <2>2
      <4>2. CASE i \in 1..n
        BY <1>5, <2>2, <4>2 DEF Flow, Pipes
      <4>3. CASE i = n + 1
        <5>1. Left(t) = m - n
          BY <2>2 DEF Left
        <5>2. m + 1 = (m - n) + (n + 1)
          BY <1>2, Sums
        <5> HIDE DEF m, n
        <5> QED BY <1>5, <2>2, <4>3, <5>1, <5>2
      <4> QED BY <4>1, <4>2, <4>3
    <3>3. reader[t] # "done"
      BY <1>1 DEF EndsInOrder
    <3> QED BY <3>1, <3>2, <3>3 DEF Flow, Pipes
  <2> QED BY <2>1, <2>2
<1>8. Numbers'
  BY <1>3, <1>6, FlowTypes, TagFacts DEF Flow, Numbers
<1>9. Ordered'
  BY <1>3 DEF Flow, Ordered
<1>10. Covered'
  <2> SUFFICES ASSUME NEW t \in Streams, ~GivenUp(t), NEW k \in 1..Passed(t)
               PROVE  \/ written'[t][k] = "blank"
                      \/ Among(Tag(t, k), output) \/ Among(Tag(t, k), events)
    BY <1>3, <1>6 DEF Covered, GivenUp
  <2>1. written'[t][k] = written[t][k]
    <3>1. Passed(t) \in Nat /\ Left(t) \in Nat /\ Passed(t) <= Left(t) /\ Left(t) <= Len(written[t])
      BY PassedTypes DEF Flow
    <3>2. k \in 1..Len(written[t])
      BY <3>1, FlowTypes
    <3> QED BY <1>3, <1>4, <3>2
  <2> QED BY <2>1 DEF Flow, Covered
<1>11. Reported'
  BY <1>3 DEF Flow, Reported
<1> QED BY <1>7, <1>8, <1>9, <1>10, <1>11 DEF Flow

LEMMA ScansFlow ==
  ASSUME TypeOK, Flow, NEW s \in Streams, Scans(s)
  PROVE  Flow'
<1> DEFINE m == Len(written[s])
           n == Len(pipe[s])
<1>1. /\ UNCHANGED <<events, output, readErr, written>>
      /\ \A t \in Streams : t # s => /\ pipe'[t] = pipe[t] /\ reader'[t] = reader[t]
                                     /\ held'[t] = held[t]
      /\ pipe[s] # <<>> /\ pipe'[s] = Tail(pipe[s])
      /\ reader[s] = "scan" /\ reader'[s] = "send" /\ held'[s] = Head(pipe[s])
  BY DEF Scans, main, history, TypeOK
<1>2. pipe[s] \in Seq(Nat \ {0})
  BY FlowTypes
<1>3. /\ n \in Nat /\ n >= 1 /\ Head(pipe[s]) = pipe[s][1]
      /\ Len(pipe'[s]) = n - 1
      /\ \A k \in 1..(n - 1) : pipe'[s][k] = pipe[s][k + 1]
  BY <1>1, <1>2, Taken
<1>4. m \in Nat /\ n <= m /\ Left(s) = m - n /\ Left(s) \in Nat
  BY FlowTypes, PassedTypes DEF Flow, Pipes, Left
<1>5. \A i \in 1..n : pipe[s][i] = Left(s) + i
  BY DEF Flow, Pipes
<1>6. Left(s)' = Left(s) + 1
  <2>1. Left(s)' = m - (n - 1)
    BY <1>1, <1>3 DEF Left
  <2>2. m - (n - 1) = (m - n) + 1
    BY <1>3, <1>4
  <2> HIDE DEF m, n
  <2> QED BY <1>4, <2>1, <2>2
<1>7. held'[s] = Left(s) + 1
  BY <1>1, <1>3, <1>5
<1>8. ASSUME NEW t \in Streams PROVE Passed(t)' = Passed(t)
  <2>1. CASE t # s
    BY <1>1, <2>1 DEF Passed, Left
  <2>2. CASE t = s
    <3>1. Passed(t)' = (Left(s) + 1) - 1
      BY <1>1, <1>6, <2>2 DEF Passed
    <3>2. Passed(t) = Left(s)
      BY <1>1, <2>2 DEF Passed
    <3> QED BY <1>4, <3>1, <3>2, Sums
  <2> QED BY <2>1, <2>2
<1>9. Pipes'
  <2> SUFFICES ASSUME NEW t \in Streams
               PROVE  /\ Len(pipe'[t]) <= Len(written[t])
                      /\ \A i \in 1..Len(pipe'[t]) : pipe'[t][i] = Left(t)' + i
                      /\ reader'[t] = "send" => held'[t] = Left(t)' /\ held'[t] > 0
                      /\ reader'[t] = "done" => pipe'[t] = <<>>
    BY <1>1 DEF Pipes
  <2>1. CASE t # s
    <3>1. Left(t)' = Left(t)
      BY <1>1, <2>1 DEF Left
    <3> QED BY <1>1, <2>1, <3>1 DEF Flow, Pipes
  <2>2. CASE t = s
    <3>1. Len(pipe'[t]) <= Len(written[t])
      <4>1. n - 1 <= m
        BY <1>3, <1>4
      <4> HIDE DEF m, n
      <4>2. Len(written[t]) = m /\ Len(pipe'[t]) = n - 1
        BY <1>3, <2>2 DEF m
      <4> QED BY <4>1, <4>2
    <3>2. ASSUME NEW i \in 1..Len(pipe'[t]) PROVE pipe'[t][i] = Left(t)' + i
      <4>1. i \in 1..(n - 1) /\ i + 1 \in 1..n
        BY <1>3, <2>2
      <4>2. pipe'[s][i] = Left(s) + (i + 1)
        BY <1>3, <1>5, <4>1
      <4>3. Left(s) + (i + 1) = (Left(s) + 1) + i
        <5>1. i \in Nat
          BY <1>3, <4>1
        <5> QED BY <1>4, <5>1, Sums
      <4> QED BY <1>6, <2>2, <4>2, <4>3
    <3>3. held'[t] = Left(t)' /\ held'[t] > 0
      <4>1. Left(s) + 1 > 0
        BY <1>4, Sums
      <4> QED BY <1>6, <1>7, <2>2, <4>1
    <3> QED BY <1>1, <2>2, <3>1, <3>2, <3>3
  <2> QED BY <2>1, <2>2
<1>10. Numbers'
  BY <1>1, <1>8, FlowTypes, TagFacts DEF Flow, Numbers
<1>11. Ordered'
  BY <1>1 DEF Flow, Ordered
<1>12. Covered'
  BY <1>1, <1>8 DEF Flow, Covered, GivenUp
<1>13. Reported'
  BY <1>1 DEF Flow, Reported
<1> QED BY <1>9, <1>10, <1>11, <1>12, <1>13 DEF Flow

LEMMA ScanFailsFlow ==
  ASSUME TypeOK, Flow, NEW s \in Streams, ScanFails(s)
  PROVE  Flow'
<1> DEFINE m == Len(written[s])
           n == Len(pipe[s])
<1>1. /\ UNCHANGED <<held, events, output, readErr, written>>
      /\ \A t \in Streams : t # s => pipe'[t] = pipe[t] /\ reader'[t] = reader[t]
      /\ pipe[s] # <<>> /\ (pipe'[s] = pipe[s] \/ pipe'[s] = Tail(pipe[s]))
      /\ reader[s] = "scan" /\ reader'[s] = "report"
  BY DEF ScanFails, TooLong, main, history, TypeOK
<1>2. pipe[s] \in Seq(Nat \ {0})
  BY FlowTypes
<1>3. /\ n \in Nat /\ n >= 1
      /\ Len(Tail(pipe[s])) = n - 1
      /\ \A k \in 1..(n - 1) : Tail(pipe[s])[k] = pipe[s][k + 1]
  BY <1>1, <1>2, Taken
<1>4. m \in Nat /\ n <= m /\ Left(s) = m - n /\ Left(s) \in Nat
  BY FlowTypes, PassedTypes DEF Flow, Pipes, Left
<1>5. \A i \in 1..n : pipe[s][i] = Left(s) + i
  BY DEF Flow, Pipes
<1>6. /\ pipe'[s] = pipe[s] => Left(s)' = Left(s)
      /\ pipe'[s] = Tail(pipe[s]) => Left(s)' = Left(s) + 1
  <2>1. m - (n - 1) = (m - n) + 1
    BY <1>3, <1>4
  <2>2. pipe'[s] = Tail(pipe[s]) => Left(s)' = m - (n - 1)
    BY <1>1, <1>3 DEF Left
  <2>3. pipe'[s] = pipe[s] => Left(s)' = Left(s)
    BY <1>1 DEF Left
  <2> HIDE DEF m, n
  <2> QED BY <1>4, <2>1, <2>2, <2>3
<1>7. ASSUME NEW t \in Streams
      PROVE  \A c \in 0..Passed(t) : c \in 0..Passed(t)'
  <2>1. CASE t # s
    BY <1>1, <2>1 DEF Passed, Left
  <2>2. CASE t = s
    <3>1. Passed(t) = Left(s) /\ Passed(t)' = Left(s)'
      BY <1>1, <2>2 DEF Passed
    <3>2. \A x \in Nat : \A c \in 0..x : c \in 0..(x + 1)
      OBVIOUS
    <3> QED BY <1>1, <1>4, <1>6, <3>1, <3>2
  <2> QED BY <2>1, <2>2
<1>8. Pipes'
  <2> SUFFICES ASSUME NEW t \in Streams
               PROVE  /\ Len(pipe'[t]) <= Len(written[t])
                      /\ \A i \in 1..Len(pipe'[t]) : pipe'[t][i] = Left(t)' + i
                      /\ reader'[t] = "send" => held[t] = Left(t)' /\ held[t] > 0
                      /\ reader'[t] = "done" => pipe'[t] = <<>>
    BY <1>1 DEF Pipes
  <2>1. CASE t # s
    <3>1. Left(t)' = Left(t)
      BY <1>1, <2>1 DEF Left
    <3> QED BY <1>1, <2>1, <3>1 DEF Flow, Pipes
  <2>2. CASE t = s /\ pipe'[s] = pipe[s]
    BY <1>1, <1>6, <2>2 DEF Flow, Pipes
  <2>3. CASE t = s /\ pipe'[s] = Tail(pipe[s])
    <3>1. Len(pipe'[t]) <= Len(written[t])
      <4>1. n - 1 <= m
        BY <1>3, <1>4
      <4>2. Len(written[t]) = m /\ Len(pipe'[t]) = n - 1
        BY <1>3, <2>3
      <4> HIDE DEF m, n
      <4> QED BY <4>1, <4>2
    <3>2. ASSUME NEW i \in 1..Len(pipe'[t]) PROVE pipe'[t][i] = Left(t)' + i
      <4>1. i \in 1..(n - 1) /\ i + 1 \in 1..n /\ i \in Nat
        BY <1>3, <2>3
      <4>2. pipe'[s][i] = Left(s) + (i + 1)
        BY <1>3, <1>5, <2>3, <4>1
      <4>3. Left(s) + (i + 1) = (Left(s) + 1) + i
        BY <1>4, <4>1, Sums
      <4> QED BY <1>6, <2>3, <4>2, <4>3
    <3> QED BY <1>1, <2>3, <3>1, <3>2
  <2> QED BY <1>1, <2>1, <2>2, <2>3
<1>9. Numbers'
  <2>1. \A t \in Streams : \A c \in 1..Passed(t) : c \in 1..Passed(t)'
    <3>1. \A x : \A c \in 1..x : c \in 0..x /\ c # 0
      OBVIOUS
    <3>2. \A x : \A c \in 0..x : c # 0 => c \in 1..x
      OBVIOUS
    <3> QED BY <1>7, <3>1, <3>2
  <2> QED BY <1>1, <1>7, <2>1, FlowTypes, TagFacts DEF Flow, Numbers
<1>10. Ordered'
  BY <1>1 DEF Flow, Ordered
<1>11. Covered'
  <2> SUFFICES ASSUME NEW t \in Streams, ~GivenUp(t)', NEW k \in 1..Passed(t)'
               PROVE  \/ written[t][k] = "blank"
                      \/ Among(Tag(t, k), output) \/ Among(Tag(t, k), events)
    BY <1>1 DEF Covered
  <2>1. t # s
    BY <1>1 DEF GivenUp
  <2>2. Passed(t)' = Passed(t) /\ ~GivenUp(t)
    BY <1>1, <2>1 DEF Passed, Left, GivenUp
  <2> QED BY <2>2 DEF Flow, Covered
<1>12. Reported'
  BY <1>1 DEF Flow, Reported
<1> QED BY <1>8, <1>9, <1>10, <1>11, <1>12 DEF Flow

LEMMA EndOfFileFlow ==
  ASSUME TypeOK, Flow, NEW s \in Streams, EndOfFile(s)
  PROVE  Flow'
<1>1. /\ UNCHANGED <<pipe, held, events, output, readErr, written>>
      /\ \A t \in Streams : t # s => reader'[t] = reader[t]
      /\ pipe[s] = <<>> /\ reader[s] = "scan" /\ reader'[s] = "done"
  BY DEF EndOfFile, main, history, TypeOK
<1>2. \A t \in Streams : Left(t)' = Left(t) /\ Passed(t)' = Passed(t)
  BY <1>1 DEF Left, Passed
<1>3. Pipes'
  BY <1>1, <1>2 DEF Flow, Pipes
<1>4. Numbers'
  BY <1>1, <1>2, FlowTypes, TagFacts DEF Flow, Numbers
<1>5. Ordered'
  BY <1>1 DEF Flow, Ordered
<1>6. Covered'
  BY <1>1, <1>2 DEF Flow, Covered, GivenUp
<1>7. Reported'
  BY <1>1 DEF Flow, Reported
<1> QED BY <1>3, <1>4, <1>5, <1>6, <1>7 DEF Flow

(* An event that goes into the channel comes last; one that comes out of it *)
(* was the first.                                                          *)
LEMMA SendsLineFlow ==
  ASSUME TypeOK, Flow, NEW s \in Streams, Sends(s), reader[s] = "send"
  PROVE  Flow'
<1> DEFINE c == held[s]
           L == Len(events)
<1>1. /\ UNCHANGED <<pipe, output, readErr, written>>
      /\ events' = Append(events, Tag(s, c))
      /\ \A t \in Streams : t # s => reader'[t] = reader[t] /\ held'[t] = held[t]
      /\ reader'[s] = "scan" /\ held'[s] = 0
  BY DEF Sends, main, history, TypeOK, Tag
<1>2. c \in Nat /\ c = Left(s) /\ c > 0 /\ Passed(s) = c - 1 /\ c - 1 \in Nat
  <2>1. c \in Nat /\ c = Left(s) /\ c > 0 /\ Passed(s) = Left(s) - 1
    BY FlowTypes DEF Flow, Pipes, Passed
  <2>2. \A x \in Nat : x > 0 => x - 1 \in Nat
    OBVIOUS
  <2> QED BY <2>1, <2>2
<1>3. /\ L \in Nat /\ Len(events') = L + 1
      /\ \A k \in 1..L : events'[k] = events[k]
      /\ events'[L + 1] = Tag(s, c)
  <2>1. events \in Seq(Events) /\ Tag(s, c) \in Events
    BY <1>2, TagFacts DEF TypeOK
  <2> QED BY <1>1, <2>1, Appended
<1>4. \A k \in 1..(L + 1) : k \in 1..L \/ k = L + 1
  BY <1>3
<1>5. \A t \in Streams : Left(t)' = Left(t)
  BY <1>1 DEF Left
<1>6. /\ Passed(s)' = c
      /\ \A t \in Streams : t # s => Passed(t)' = Passed(t)
  BY <1>1, <1>2, <1>5 DEF Passed
<1> HIDE DEF c, L
<1>7. \A k \in 0..(c - 1) : k \in 0..c /\ k < c
  BY <1>2
<1>8. Pipes'
  BY <1>1, <1>5 DEF Flow, Pipes
<1>9. \A k \in 1..L : events[k].stream = s => events[k].number < c
  BY <1>2, <1>7 DEF Flow, Numbers, L
<1>10. \A k \in 1..Len(output) : output[k].stream = s => output[k].number < c
  <2>1. \A k \in 1..(c - 1) : k < c
    BY <1>2
  <2> QED BY <1>2, <2>1 DEF Flow, Numbers
<1>11. Numbers'
  <2>1. ASSUME NEW t \in Streams
        PROVE  /\ \A x \in 0..Passed(t) : x \in 0..Passed(t)'
               /\ \A x \in 1..Passed(t) : x \in 1..Passed(t)'
    <3>1. (\A x \in 0..(c - 1) : x \in 0..c) /\ (\A x \in 1..(c - 1) : x \in 1..c)
      BY <1>2
    <3> QED BY <1>2, <1>6, <3>1
  <2>2. ASSUME NEW t \in Streams, NEW k \in 1..Len(events'), events'[k].stream = t
        PROVE  events'[k].number \in 0..Passed(t)'
    <3>1. CASE k \in 1..L
      BY <1>3, <2>1, <2>2, <3>1 DEF Flow, Numbers, L
    <3>2. CASE k = L + 1
      <4>1. c \in 0..c
        BY <1>2
      <4> QED BY <1>3, <1>6, <2>2, <3>2, <4>1, TagFacts
    <3> QED BY <1>3, <1>4, <3>1, <3>2
  <2> QED BY <1>1, <2>1, <2>2 DEF Flow, Numbers
<1>12. Ordered'
  <2>1. ASSUME NEW j \in 1..Len(events'), NEW k \in 1..Len(events'),
               j < k, events'[j].stream = events'[k].stream, events'[k].number # 0
        PROVE  events'[j].number < events'[k].number
    <3>1. j \in 1..L
      BY <1>3, <2>1
    <3>2. CASE k \in 1..L
      BY <1>3, <2>1, <3>1, <3>2 DEF Flow, Ordered, L
    <3>3. CASE k = L + 1
      BY <1>3, <1>9, <2>1, <3>1, <3>3, TagFacts
    <3> QED BY <1>3, <1>4, <3>2, <3>3
  <2>2. ASSUME NEW j \in 1..Len(output), NEW k \in 1..Len(events'),
               output[j].stream = events'[k].stream, events'[k].number # 0
        PROVE  output[j].number < events'[k].number
    <3>1. CASE k \in 1..L
      BY <1>3, <2>2, <3>1 DEF Flow, Ordered, L
    <3>2. CASE k = L + 1
      BY <1>3, <1>10, <2>2, <3>2, TagFacts
    <3> QED BY <1>3, <1>4, <3>1, <3>2
  <2>3. \A j, k \in 1..Len(output) :
          j < k /\ output[j].stream = output[k].stream => output[j].number < output[k].number
    BY DEF Flow, Ordered
  <2> QED BY <1>1, <2>1, <2>2, <2>3 DEF Ordered
<1>13. \A e : Among(e, events) => Among(e, events')
  <2>1. \A k \in 1..L : k \in 1..(L + 1)
    BY <1>3
  <2> QED BY <1>1, <1>3, <2>1 DEF Among, L
<1>14. Among(Tag(s, c), events')
  <2>1. L + 1 \in 1..(L + 1)
    BY <1>3
  <2> QED BY <1>3, <2>1 DEF Among
<1>15. Covered'
  <2> SUFFICES ASSUME NEW t \in Streams, ~GivenUp(t)', NEW k \in Nat, k \in 1..(Passed(t)')
               PROVE  \/ written[t][k] = "blank"
                      \/ Among(Tag(t, k), output) \/ Among(Tag(t, k), events')
    BY <1>1, <1>13 DEF Covered
  <2>1. CASE t # s
    BY <1>1, <1>6, <1>13, <2>1 DEF Flow, Covered, GivenUp
  <2>2. CASE t = s
    <3>1. k \in 1..(c - 1) \/ k = c
      BY <1>2, <1>6, <2>2
    <3>2. ~GivenUp(s)
      BY DEF GivenUp
    <3>3. k \in 1..(c - 1) =>
            written[s][k] = "blank" \/ Among(Tag(s, k), output) \/ Among(Tag(s, k), events)
      BY <1>2, <3>2 DEF Flow, Covered
    <3> QED BY <1>13, <1>14, <2>2, <3>1, <3>3
  <2> QED BY <2>1, <2>2
<1>16. Reported'
  BY <1>1, <1>13 DEF Flow, Reported
<1> QED BY <1>8, <1>11, <1>12, <1>15, <1>16 DEF Flow

LEMMA SendsErrorFlow ==
  ASSUME TypeOK, Flow, NEW s \in Streams, Sends(s), reader[s] = "report"
  PROVE  Flow'
<1> DEFINE L == Len(events)
<1>1. /\ UNCHANGED <<pipe, output, readErr, written, held>>
      /\ events' = Append(events, Tag(s, 0))
      /\ \A t \in Streams : t # s => reader'[t] = reader[t]
      /\ reader'[s] = "failed"
  BY TagFacts DEF Sends, main, history, TypeOK
<1>2. /\ L \in Nat /\ Len(events') = L + 1
      /\ \A k \in 1..L : events'[k] = events[k]
      /\ events'[L + 1] = Tag(s, 0)
  <2>1. events \in Seq(Events) /\ Tag(s, 0) \in Events
    BY TagFacts DEF TypeOK
  <2> QED BY <1>1, <2>1, Appended
<1>3. \A k \in 1..(L + 1) : k \in 1..L \/ k = L + 1
  BY <1>2
<1>4. \A t \in Streams : Left(t)' = Left(t) /\ Passed(t)' = Passed(t)
  BY <1>1 DEF Left, Passed
<1> HIDE DEF L
<1>5. Pipes'
  BY <1>1, <1>4 DEF Flow, Pipes
<1>6. Numbers'
  <2>1. ASSUME NEW t \in Streams, NEW k \in 1..Len(events'), events'[k].stream = t
        PROVE  events'[k].number \in 0..Passed(t)'
    <3>1. CASE k \in 1..L
      BY <1>2, <1>4, <2>1, <3>1 DEF Flow, Numbers, L
    <3>2. CASE k = L + 1
      <4>1. Passed(s) \in Nat
        BY PassedTypes DEF Flow
      <4>2. 0 \in 0..Passed(s)
        BY <4>1
      <4> QED BY <1>2, <1>4, <2>1, <3>2, <4>2, TagFacts
    <3> QED BY <1>2, <1>3, <3>1, <3>2
  <2> QED BY <1>1, <1>4, <2>1 DEF Flow, Numbers
<1>7. Ordered'
  <2>1. \A k \in 1..Len(events') : events'[k].number # 0 => k \in 1..L
    BY <1>2, <1>3, TagFacts
  <2>2. \A j, k \in 1..Len(events') : j < k /\ k \in 1..L => j \in 1..L
    BY <1>2
  <2>3. \A j, k \in 1..Len(events') :
          j < k /\ events'[j].stream = events'[k].stream /\ events'[k].number # 0 =>
            events'[j].number < events'[k].number
    BY <1>2, <2>1, <2>2 DEF Flow, Ordered, L
  <2>4. \A j \in 1..Len(output), k \in 1..Len(events') :
          output[j].stream = events'[k].stream /\ events'[k].number # 0 =>
            output[j].number < events'[k].number
    BY <1>2, <2>1 DEF Flow, Ordered, L
  <2> QED BY <1>1, <2>3, <2>4 DEF Flow, Ordered
<1>8. \A e : Among(e, events) => Among(e, events')
  <2>1. \A k \in 1..L : k \in 1..(L + 1)
    BY <1>2
  <2> QED BY <1>1, <1>2, <2>1 DEF Among, L
<1>9. Among(Error(s), events')
  <2>1. L + 1 \in 1..(L + 1) /\ Error(s)' = Tag(s, 0)
    BY <1>2, TagFacts DEF Error, Tag
  <2> QED BY <1>2, <2>1 DEF Among
<1>10. Covered'
  <2> SUFFICES ASSUME NEW t \in Streams, ~GivenUp(t)', NEW k \in Nat, k \in 1..(Passed(t)')
               PROVE  \/ written[t][k] = "blank"
                      \/ Among(Tag(t, k), output) \/ Among(Tag(t, k), events')
    BY <1>1, <1>8 DEF Covered
  <2> QED BY <1>1, <1>4, <1>8 DEF Flow, Covered, GivenUp
<1>11. Reported'
  BY <1>1, <1>8, <1>9 DEF Flow, Reported
<1> QED BY <1>5, <1>6, <1>7, <1>10, <1>11 DEF Flow

(* What is left in the channel when its first event is taken. *)
LEMMA ChannelTail ==
  ASSUME TypeOK, Flow, events # <<>>, events' = Tail(events)
  PROVE  /\ Head(events) = events[1] /\ events[1] \in Events /\ 1 \in 1..Len(events)
         /\ \A k \in 1..Len(events') : \E i \in 1..Len(events) : 1 < i /\ events'[k] = events[i]
         /\ \A x : Among(x, events) => x = events[1] \/ Among(x, events')
         /\ \A j, k \in 1..Len(events') :
              j < k /\ events'[j].stream = events'[k].stream /\ events'[k].number # 0 =>
                events'[j].number < events'[k].number
         /\ \A j \in 1..Len(output), k \in 1..Len(events') :
              output[j].stream = events'[k].stream /\ events'[k].number # 0 =>
                output[j].number < events'[k].number
<1> DEFINE L == Len(events)
<1>1. /\ L \in Nat /\ L >= 1 /\ Head(events) = events[1] /\ events[1] \in Events
      /\ Len(events') = L - 1
      /\ \A k \in 1..(L - 1) : events'[k] = events[k + 1]
  <2>1. events \in Seq(Events)
    BY DEF TypeOK
  <2> QED BY <2>1, Taken
<1>2. /\ \A k \in 1..(L - 1) : k + 1 \in 1..L /\ 1 < k + 1
      /\ \A k \in 1..L : k = 1 \/ (k - 1 \in 1..(L - 1) /\ (k - 1) + 1 = k)
      /\ 1 \in 1..L
  BY <1>1
<1> HIDE DEF L
<1>3. ASSUME NEW x, Among(x, events), x # events[1] PROVE Among(x, events')
  <2>1. PICK k \in 1..L : events[k] = x
    BY <1>3 DEF Among, L
  <2>2. k - 1 \in 1..(L - 1) /\ (k - 1) + 1 = k
    BY <1>2, <1>3, <2>1
  <2>3. events'[k - 1] = x
    BY <1>1, <2>1, <2>2
  <2> QED BY <1>1, <2>2, <2>3 DEF Among
<1>4. ASSUME NEW j \in 1..(L - 1), NEW k \in 1..(L - 1), j < k,
             events'[j].stream = events'[k].stream, events'[k].number # 0
      PROVE  events'[j].number < events'[k].number
  <2>1. j + 1 \in 1..L /\ k + 1 \in 1..L /\ j + 1 < k + 1
    BY <1>1, <1>2, <1>4
  <2>2. events'[j] = events[j + 1] /\ events'[k] = events[k + 1]
    BY <1>1
  <2> QED BY <1>4, <2>1, <2>2 DEF Flow, Ordered, L
<1>5. ASSUME NEW j \in 1..Len(output), NEW k \in 1..(L - 1),
             output[j].stream = events'[k].stream, events'[k].number # 0
      PROVE  output[j].number < events'[k].number
  <2>1. k + 1 \in 1..L /\ events'[k] = events[k + 1]
    BY <1>1, <1>2
  <2> QED BY <1>5, <2>1 DEF Flow, Ordered, L
<1> QED BY <1>1, <1>2, <1>3, <1>4, <1>5 DEF L

LEMMA ReceiveErrorFlow == ASSUME TypeOK, Flow, ReceiveError PROVE Flow'
<1>1. /\ UNCHANGED <<pipe, reader, held, output, written>>
      /\ events # <<>> /\ Head(events).number = 0
      /\ events' = Tail(events) /\ readErr'
  BY DEF ReceiveError, history
<1>2. \A t \in Streams : Left(t)' = Left(t) /\ Passed(t)' = Passed(t)
  BY <1>1 DEF Left, Passed
<1>3. Pipes'
  BY <1>1, <1>2 DEF Flow, Pipes
<1>4. Numbers'
  BY <1>1, <1>2, ChannelTail DEF Flow, Numbers
<1>5. Ordered'
  <2>1. \A j, k \in 1..Len(output) :
          j < k /\ output[j].stream = output[k].stream => output[j].number < output[k].number
    BY DEF Flow, Ordered
  <2>2. /\ \A j, k \in 1..Len(events') :
             j < k /\ events'[j].stream = events'[k].stream /\ events'[k].number # 0 =>
               events'[j].number < events'[k].number
        /\ \A j \in 1..Len(output), k \in 1..Len(events') :
             output[j].stream = events'[k].stream /\ events'[k].number # 0 =>
               output[j].number < events'[k].number
    BY <1>1, ChannelTail
  <2> QED BY <1>1, <2>1, <2>2 DEF Ordered
<1>6. Covered'
  <2> SUFFICES ASSUME NEW t \in Streams, ~GivenUp(t), NEW k \in 1..Passed(t)
               PROVE  \/ written[t][k] = "blank"
                      \/ Among(Tag(t, k), output) \/ Among(Tag(t, k), events')
    BY <1>1, <1>2 DEF Covered, GivenUp
  <2>1. Tag(t, k) # events[1]
    BY <1>1, ChannelTail, TagFacts
  <2> QED BY <1>1, <2>1, ChannelTail DEF Flow, Covered
<1>7. Reported'
  BY <1>1 DEF Reported
<1> QED BY <1>3, <1>4, <1>5, <1>6, <1>7 DEF Flow

LEMMA ReceiveLineFlow == ASSUME TypeOK, Flow, ReceiveLine PROVE Flow'
<1> DEFINE O == Len(output)
           e == events[1]
           s == events[1].stream
           c == events[1].number
<1>1. /\ UNCHANGED <<pipe, reader, held, readErr, written>>
      /\ events # <<>> /\ Head(events).number # 0
      /\ events' = Tail(events)
      /\ LineOf(Head(events)) = "blank" => output' = output
      /\ LineOf(Head(events)) # "blank" => output' = Append(output, Head(events))
  BY DEF ReceiveLine, history
<1>2. Head(events) = e /\ e \in Events
  BY <1>1, ChannelTail
<1>3. /\ \A k \in 1..Len(events') : \E i \in 1..Len(events) : 1 < i /\ events'[k] = events[i]
      /\ \A x : Among(x, events) => x = e \/ Among(x, events')
      /\ \A j, k \in 1..Len(events') :
           j < k /\ events'[j].stream = events'[k].stream /\ events'[k].number # 0 =>
             events'[j].number < events'[k].number
      /\ \A j \in 1..Len(output), k \in 1..Len(events') :
           output[j].stream = events'[k].stream /\ events'[k].number # 0 =>
             output[j].number < events'[k].number
      /\ 1 \in 1..Len(events)
  BY <1>1, ChannelTail
<1>4. \A t \in Streams : Left(t)' = Left(t) /\ Passed(t)' = Passed(t)
  BY <1>1 DEF Left, Passed
<1>5. s \in Streams /\ c \in Nat /\ c # 0 /\ e = Tag(s, c) /\ LineOf(e) = written[s][c]
  BY <1>1, <1>2, TagFacts DEF LineOf
<1>6. c \in 0..Passed(s)
  BY <1>3, <1>5 DEF Flow, Numbers
<1>7. c \in 1..Passed(s)
  BY <1>5, <1>6, PassedTypes DEF Flow
<1>8. O \in Nat /\ output \in Seq(Events)
  BY FlowTypes DEF TypeOK
<1> HIDE DEF O, e, s, c
<1>9. Pipes'
  BY <1>1, <1>4 DEF Flow, Pipes
<1>10. Reported'
  <2>1. \A t \in Streams : Error(t) # e
    BY <1>5, TagFacts
  <2> QED BY <1>1, <1>3, <2>1 DEF Flow, Reported
(* What goes to the output is above all of its stream there, and below all  *)
(* of its stream that is still in the channel.                             *)
<1>12. \A j \in 1..O : output[j].stream = s => output[j].number < c
  BY <1>3, <1>5 DEF Flow, Ordered, O, s, c
<1>13. \A k \in 1..Len(events') :
         events'[k].stream = s /\ events'[k].number # 0 => c < events'[k].number
  BY <1>3 DEF Flow, Ordered, s, c
<1>14. CASE LineOf(e) = "blank"
  <2>1. output' = output
    BY <1>1, <1>2, <1>14
  <2>2. Numbers'
    BY <1>2, <1>3, <1>4, <2>1 DEF Flow, Numbers
  <2>3. Ordered'
    <3>1. \A j, k \in 1..Len(output) :
            j < k /\ output[j].stream = output[k].stream => output[j].number < output[k].number
      BY DEF Flow, Ordered
    <3> QED BY <1>3, <2>1, <3>1 DEF Ordered
  <2>4. Covered'
    <3> SUFFICES ASSUME NEW t \in Streams, ~GivenUp(t), NEW k \in 1..Passed(t)
                 PROVE  \/ written[t][k] = "blank"
                        \/ Among(Tag(t, k), output) \/ Among(Tag(t, k), events')
      BY <1>1, <1>4, <2>1 DEF Covered, GivenUp
    <3>1. CASE Tag(t, k) = e
      <4>1. t = s /\ k = c
        BY <1>5, <3>1, TagFacts
      <4> QED BY <1>5, <1>14, <4>1
    <3>2. CASE Tag(t, k) # e
      BY <1>3, <3>2 DEF Flow, Covered
    <3> QED BY <3>1, <3>2
  <2> QED BY <1>9, <1>10, <2>2, <2>3, <2>4 DEF Flow
<1>15. CASE LineOf(e) # "blank"
  <2>1. /\ Len(output') = O + 1
        /\ \A k \in 1..O : output'[k] = output[k]
        /\ output'[O + 1] = e
    BY <1>1, <1>2, <1>8, <1>15, Appended DEF O
  <2>2. \A k \in 1..(O + 1) : k \in 1..O \/ k = O + 1
    BY <1>8
  <2>3. Numbers'
    <3>1. ASSUME NEW t \in Streams, NEW k \in 1..(O + 1), output'[k].stream = t
          PROVE  output'[k].number \in 1..Passed(t)
      <4>1. CASE k \in 1..O
        BY <2>1, <3>1, <4>1 DEF Flow, Numbers, O
      <4>2. CASE k = O + 1
        BY <1>7, <2>1, <3>1, <4>2 DEF e, s, c
      <4> QED BY <2>2, <4>1, <4>2
    <3> QED BY <1>2, <1>3, <1>4, <2>1, <3>1 DEF Flow, Numbers
  <2>4. Ordered'
    <3>1. ASSUME NEW j \in 1..(O + 1), NEW k \in 1..(O + 1), j < k,
                 output'[j].stream = output'[k].stream
          PROVE  output'[j].number < output'[k].number
      <4>1. j \in 1..O
        BY <1>8, <3>1
      <4>2. CASE k \in 1..O
        BY <2>1, <3>1, <4>1, <4>2 DEF Flow, Ordered, O
      <4>3. CASE k = O + 1
        BY <1>12, <2>1, <3>1, <4>1, <4>3 DEF e, s, c
      <4> QED BY <2>2, <4>2, <4>3
    <3>2. ASSUME NEW j \in 1..(O + 1), NEW k \in 1..Len(events'),
                 output'[j].stream = events'[k].stream, events'[k].number # 0
          PROVE  output'[j].number < events'[k].number
      <4>1. CASE j \in 1..O
        BY <1>2, <1>3, <2>1, <3>2, <4>1 DEF Flow, Ordered, O
      <4>2. CASE j = O + 1
        BY <1>13, <2>1, <3>2, <4>2 DEF e, s, c
      <4> QED BY <2>2, <4>1, <4>2
    <3> QED BY <1>3, <2>1, <3>1, <3>2 DEF Ordered
  <2>5. Covered'
    <3> SUFFICES ASSUME NEW t \in Streams, ~GivenUp(t), NEW k \in 1..Passed(t)
                 PROVE  \/ written[t][k] = "blank"
                        \/ Among(Tag(t, k), output') \/ Among(Tag(t, k), events')
      BY <1>1, <1>4 DEF Covered, GivenUp
    <3>1. Among(e, output')
      <4>1. O + 1 \in 1..(O + 1)
        BY <1>8
      <4> QED BY <2>1, <4>1 DEF Among
    <3>2. \A x : Among(x, output) => Among(x, output')
      <4>1. \A j \in 1..O : j \in 1..(O + 1)
        BY <1>8
      <4> QED BY <2>1, <4>1 DEF Among, O
    <3> QED BY <1>3, <3>1, <3>2 DEF Flow, Covered
  <2> QED BY <1>9, <1>10, <2>3, <2>4, <2>5 DEF Flow
<1> QED BY <1>14, <1>15

LEMMA FlowStep == ASSUME TypeOK, EndsInOrder, Flow, [Next]_vars PROVE Flow'
<1>1. CASE \E q \in Procs : Process(q)
  <2>1. PICK q \in Procs : Process(q)
    BY <1>1
  <2>2. (\E e \in Writing : BeginsLine(q, e)) \/ (\E c \in {"ok", "fail"} : Exits(q, c)) =>
          UNCHANGED FlowVars
    BY DEF BeginsLine, Exits, FlowVars, pipeline, main, history
  <2> QED BY <2>1, <2>2, FlowKept, WritesFlow DEF Process
<1>2. CASE \E s \in Streams : Reader(s)
  <2>1. PICK s \in Streams : Reader(s)
    BY <1>2
  <2>2. Sends(s) => reader[s] = "send" \/ reader[s] = "report"
    BY DEF Sends
  <2> QED BY <2>1, <2>2, ScansFlow, ScanFailsFlow, EndOfFileFlow, SendsLineFlow,
             SendsErrorFlow DEF Reader
<1>3. CASE Waiter \/ (\E why \in {"deadline", "canceled"} : ContextEnds(why)) \/ ContextKills
  <2>1. UNCHANGED FlowVars
    BY <1>3 DEF Waiter, ReadersWait, Reaps, ContextEnds, ContextKills, FlowVars,
           pipeline, main, history
  <2> QED BY <2>1, FlowKept
<1>4. CASE Main
  <2>1. ChannelCloses \/ Return => UNCHANGED FlowVars
    BY DEF ChannelCloses, Return, FlowVars, pipeline, history
  <2> QED BY <1>4, <2>1, FlowKept, ReceiveErrorFlow, ReceiveLineFlow DEF Main
<1>5. CASE UNCHANGED vars
  BY <1>5, FlowKept DEF vars, FlowVars, pipeline, main, history
<1> QED BY <1>1, <1>2, <1>3, <1>4, <1>5 DEF Next

(* What has been shown stays as it was shown. *)
LEMMA OutputGrows ==
  ASSUME TypeOK, Flow, [Next]_vars
  PROVE  /\ Len(output) \in Nat /\ Len(output') \in Nat
         /\ \/ output' = output
            \/ /\ ReceiveLine /\ LineOf(Head(events)) # "blank"
               /\ output' = Append(output, Head(events))
               /\ Len(output') = Len(output) + 1
               /\ output'[Len(output) + 1] = Head(events)
         /\ \A k \in 1..Len(output) : k \in 1..Len(output') /\ output'[k] = output[k]
         /\ \A k \in 1..Len(output) :
              written'[output[k].stream][output[k].number] = LineOf(output[k])
         /\ events # <<>> /\ Head(events).number # 0 =>
              written'[Head(events).stream][Head(events).number] = LineOf(Head(events))
<1> DEFINE O == Len(output)
<1>1. O \in Nat /\ output \in Seq(Events) /\ events \in Seq(Events)
  BY FlowTypes DEF TypeOK
<1>2. events # <<>> => Head(events) = events[1] /\ Head(events) \in Events /\ 1 \in 1..Len(events)
  BY <1>1, Taken
<1>3. ReceiveLine \/ UNCHANGED output
  BY DEF Next, Process, BeginsLine, Writes, Exits, Reader, Scans, ScanFails, Sends, EndOfFile,
         Waiter, ReadersWait, Reaps, ContextEnds, ContextKills, Main, ReceiveError,
         ChannelCloses, Return, vars, main
<1>4. output' = output =>
        /\ Len(output') \in Nat
        /\ \A k \in 1..O : k \in 1..Len(output') /\ output'[k] = output[k]
  BY <1>1
<1>5. \/ output' = output
      \/ /\ ReceiveLine /\ LineOf(Head(events)) # "blank"
         /\ output' = Append(output, Head(events)) /\ events # <<>>
  BY <1>3 DEF ReceiveLine
<1>6. Append(output, Head(events)) = output' /\ events # <<>> =>
        /\ Len(output') = O + 1 /\ O + 1 \in Nat
        /\ \A k \in 1..O : k \in 1..Len(output') /\ output'[k] = output[k]
        /\ output'[O + 1] = Head(events)
  <2> SUFFICES ASSUME Append(output, Head(events)) = output', events # <<>>
               PROVE  /\ Len(output') = O + 1 /\ O + 1 \in Nat
                      /\ \A k \in 1..O : k \in 1..Len(output') /\ output'[k] = output[k]
                      /\ output'[O + 1] = Head(events)
    OBVIOUS
  <2>1. /\ Len(output') = O + 1
        /\ \A k \in 1..O : output'[k] = output[k]
        /\ output'[O + 1] = Head(events)
    BY <1>1, <1>2, Appended
  <2>2. O + 1 \in Nat /\ \A k \in 1..O : k \in 1..(O + 1)
    BY <1>1
  <2> QED BY <2>1, <2>2
<1>7. ASSUME NEW t \in Streams, NEW n \in 1..Len(written[t])
      PROVE  written'[t][n] = written[t][n]
  <2>1. (\E q \in Procs : Writes(q)) \/ UNCHANGED written
    BY DEF Next, Process, BeginsLine, Exits, Reader, Scans, ScanFails, Sends, EndOfFile,
           Waiter, ReadersWait, Reaps, ContextEnds, ContextKills, Main, ReceiveError,
           ReceiveLine, ChannelCloses, Return, vars, history
  <2>2. ASSUME NEW q \in Procs, Writes(q), t = doing[q].stream
        PROVE  written'[t][n] = written[t][n]
    <3>1. written[t] \in Seq(Lines) /\ doing[q].line \in Lines
      BY <2>2, FlowTypes, Tags DEF Writes
    <3>2. written'[t] = Append(written[t], doing[q].line)
      BY <2>2 DEF Writes, TypeOK
    <3> QED BY <3>1, <3>2, Appended
  <2>3. ASSUME NEW q \in Procs, Writes(q), t # doing[q].stream
        PROVE  written'[t][n] = written[t][n]
    BY <2>3 DEF Writes, TypeOK
  <2> QED BY <2>1, <2>2, <2>3
<1>8. ASSUME NEW e \in Events, e.number \in 1..Passed(e.stream)
      PROVE  written'[e.stream][e.number] = LineOf(e)
  <2>1. e.stream \in Streams /\ e.number \in Nat
    BY TagFacts
  <2>2. /\ Passed(e.stream) \in Nat /\ Left(e.stream) \in Nat /\ Len(written[e.stream]) \in Nat
        /\ Passed(e.stream) <= Left(e.stream) /\ Left(e.stream) <= Len(written[e.stream])
    BY <2>1, FlowTypes, PassedTypes DEF Flow
  <2>3. e.number \in 1..Len(written[e.stream])
    BY <1>8, <2>1, <2>2
  <2> QED BY <1>7, <2>1, <2>3 DEF LineOf
<1>9. \A k \in 1..Len(output) :
        output[k] \in Events /\ output[k].number \in 1..Passed(output[k].stream)
  BY FlowTypes, TagFacts DEF Flow, Numbers
<1>10. events # <<>> /\ Head(events).number # 0 =>
         Head(events) \in Events /\ Head(events).number \in 1..Passed(Head(events).stream)
  <2>1. \A n \in Nat : \A x \in 0..n : x # 0 => x \in 1..n
    OBVIOUS
  <2>2. events # <<>> => /\ Head(events).stream \in Streams
                         /\ Head(events).number \in 0..Passed(Head(events).stream)
    BY <1>2, TagFacts DEF Flow, Numbers
  <2> QED BY <1>2, <2>1, <2>2, PassedTypes DEF Flow
<1> QED BY <1>1, <1>4, <1>5, <1>6, <1>8, <1>9, <1>10

(* So a line that said steamcmd had finished goes on saying so.             *)
LEMMA SaidIsSaid ==
  ASSUME TypeOK, Flow, [Next]_vars, NEW k \in 1..Len(output), SaysFinished(k)
  PROVE  SaysFinished(k)'
<1> DEFINE O == Len(output)
<1>1. O \in Nat /\ k \in 1..O
  BY OutputGrows
<1>2. \A i \in 1..O : LineOf(output[i])' = LineOf(output[i])
  BY OutputGrows DEF LineOf
<1> HIDE DEF O
<1>3. CASE LineOf(output[k]) = "marker"
  BY <1>1, <1>2, <1>3 DEF SaysFinished
<1>4. CASE LineOf(output[k]) # "marker"
  <2>1. PICK j \in 1..(k - 1) : /\ LineOf(output[j]) = "near"
                                /\ \A i \in j..k : LineOf(output[i]) # "far"
    BY <1>4 DEF SaysFinished
  <2>2. j \in 1..O /\ \A i \in j..k : i \in 1..O
    BY <1>1
  <2>3. /\ LineOf(output[j])' = "near"
        /\ \A i \in j..k : LineOf(output[i])' # "far"
    BY <1>2, <2>1, <2>2
  <2>4. LineOf(output[k])' = "unknown"
    BY <1>1, <1>2, <1>4 DEF SaysFinished
  <2> QED BY <2>3, <2>4 DEF SaysFinished
<1> QED BY <1>3, <1>4

(* The verification is near its end as long as the output says so.          *)
LEMMA NearStep == ASSUME TypeOK, Flow, Judged, [Next]_vars, near' PROVE NearInOutput'
<1>0. PICK O \in Nat : O = Len(output)
  BY OutputGrows
<1>1. O \in Nat /\ Len(output') \in Nat
  BY OutputGrows
<1>2. \A i \in 1..O : LineOf(output[i])' = LineOf(output[i])
  BY <1>0, OutputGrows DEF LineOf
<1>3. near' = near \/ (ReceiveLine /\ near' = Near(LineOf(Head(events))))
  BY DEF Next, Process, BeginsLine, Writes, Exits, Reader, Scans, ScanFails, Sends, EndOfFile,
         Waiter, ReadersWait, Reaps, ContextEnds, ContextKills, Main, ReceiveError, ReceiveLine,
         ChannelCloses, Return, vars, main
<1>4. CASE output' = output
  <2>1. near
    <3>1. CASE near' = near
      BY <3>1
    <3>2. CASE ReceiveLine /\ near' = Near(LineOf(Head(events)))
      <4>1. LineOf(Head(events)) = "blank"
        <5>1. LineOf(Head(events)) # "blank" => output' = Append(output, Head(events))
          BY <3>2 DEF ReceiveLine
        <5>2. events \in Seq(Events) /\ events # <<>> /\ output \in Seq(Events)
          BY <3>2 DEF ReceiveLine, TypeOK
        <5>3. Head(events) \in Events
          BY <5>2, Taken
        <5>4. Len(Append(output, Head(events))) = O + 1 /\ O + 1 # O
          BY <1>0, <1>1, <5>2, <5>3, Appended
        <5> QED BY <1>4, <5>1, <5>4
      <4> QED BY <3>2, <4>1 DEF Near
    <3> QED BY <1>3, <3>1, <3>2
  <2>2. PICK j \in 1..O : /\ LineOf(output[j]) = "near"
                          /\ \A i \in j..O : LineOf(output[i]) # "far"
    BY <1>0, <2>1 DEF Judged, NearInOutput
  <2>3. \A i \in j..O : i \in 1..O
    BY <1>1
  <2>4. Len(output') = O
    BY <1>0, <1>4
  <2>5. LineOf(output[j])' = "near" /\ \A i \in j..O : LineOf(output[i])' # "far"
    BY <1>2, <2>2, <2>3
  <2> QED BY <2>4, <2>5 DEF NearInOutput
<1>5. CASE output' # output
  <2> DEFINE e == Head(events)
  <2>1. /\ ReceiveLine /\ LineOf(e) # "blank" /\ events # <<>> /\ e.number # 0
        /\ Len(output') = O + 1 /\ output'[O + 1] = e
        /\ near' = Near(LineOf(e))
    BY <1>0, <1>5, OutputGrows DEF ReceiveLine
  <2>2. LineOf(output[O + 1])' = LineOf(e)
    BY <2>1, OutputGrows DEF LineOf
  <2>3. LineOf(e) # "far" /\ (LineOf(e) = "near" \/ near)
    BY <2>1 DEF Near
  <2> HIDE DEF e
  <2>4. O + 1 \in 1..(O + 1) /\ \A i \in (O + 1)..(O + 1) : i = O + 1
    BY <1>1
  <2>5. CASE LineOf(e) = "near"
    BY <2>1, <2>2, <2>3, <2>4, <2>5 DEF NearInOutput
  <2>6. CASE near
    <3>1. PICK j \in 1..O : /\ LineOf(output[j]) = "near"
                            /\ \A i \in j..O : LineOf(output[i]) # "far"
      BY <1>0, <2>6 DEF Judged, NearInOutput
    <3>2. /\ j \in 1..(O + 1)
          /\ \A i \in j..O : i \in 1..O
          /\ \A i \in j..(O + 1) : i \in j..O \/ i = O + 1
      BY <1>1
    <3>3. \A i \in j..(O + 1) : LineOf(output[i])' # "far"
      BY <1>2, <2>2, <2>3, <3>1, <3>2
    <3>4. LineOf(output[j])' = "near"
      BY <1>2, <3>1
    <3> QED BY <2>1, <3>2, <3>3, <3>4 DEF NearInOutput
  <2> QED BY <2>3, <2>5, <2>6
<1> QED BY <1>4, <1>5

LEMMA StopStep ==
  ASSUME TypeOK, Flow, Judged, [Next]_vars, stoppedEarly'
  PROVE  \E k \in 1..Len(output') : SaysFinished(k)'
<1>0. PICK O \in Nat : O = Len(output)
  BY OutputGrows
<1> DEFINE e == Head(events)
<1>1. stoppedEarly' = stoppedEarly \/ (ReceiveLine /\ LineOf(e) # "blank" /\ Stops(LineOf(e)))
  BY DEF Next, Process, BeginsLine, Writes, Exits, Reader, Scans, ScanFails, Sends, EndOfFile,
         Waiter, ReadersWait, Reaps, ContextEnds, ContextKills, Main, ReceiveError, ReceiveLine,
         ChannelCloses, Return, vars, main
<1>2. CASE stoppedEarly
  <2>1. PICK k \in 1..O : SaysFinished(k)
    BY <1>0, <1>2 DEF Judged
  <2> QED BY <1>0, <2>1, OutputGrows, SaidIsSaid
<1>3. CASE ReceiveLine /\ LineOf(e) # "blank" /\ Stops(LineOf(e))
  <2>1. /\ O \in Nat /\ events # <<>> /\ e.number # 0
        /\ Len(output') = O + 1 /\ output'[O + 1] = e
    <3>1. events \in Seq(Events) /\ events # <<>> /\ e.number # 0 /\ output \in Seq(Events)
      BY <1>3 DEF ReceiveLine, TypeOK
    <3>2. e \in Events
      BY <3>1, Taken
    <3>3. output' = Append(output, e)
      BY <1>3 DEF ReceiveLine
    <3> QED BY <1>0, <3>1, <3>2, <3>3, Appended
  <2>2. LineOf(output[O + 1])' = LineOf(e)
    BY <2>1, OutputGrows DEF LineOf
  <2>3. \A i \in 1..O : LineOf(output[i])' = LineOf(output[i])
    BY <1>0, OutputGrows DEF LineOf
  <2> HIDE DEF e
  <2>4. O + 1 \in 1..(O + 1) /\ (O + 1) - 1 = O
    BY <2>1
  <2>5. CASE LineOf(e) = "marker"
    <3>1. SaysFinished(O + 1)'
      BY <2>2, <2>5 DEF SaysFinished
    <3> QED BY <2>1, <2>4, <3>1
  <2>6. CASE LineOf(e) = "unknown" /\ near
    <3>1. PICK j \in 1..O : /\ LineOf(output[j]) = "near"
                            /\ \A i \in j..O : LineOf(output[i]) # "far"
      BY <1>0, <2>6 DEF Judged, NearInOutput
    <3>2. /\ \A i \in j..O : i \in 1..O
          /\ \A i \in j..(O + 1) : i \in j..O \/ i = O + 1
      BY <2>1
    <3>3. \A i \in j..(O + 1) : LineOf(output[i])' # "far"
      BY <2>2, <2>3, <2>6, <3>1, <3>2
    <3>4. LineOf(output[j])' = "near" /\ j \in 1..((O + 1) - 1)
      BY <2>3, <2>4, <3>1
    <3>5. SaysFinished(O + 1)'
      BY <2>2, <2>6, <3>3, <3>4 DEF SaysFinished
    <3> QED BY <2>1, <2>4, <3>5
  <2> QED BY <1>3, <2>5, <2>6 DEF Stops
<1> QED BY <1>1, <1>2, <1>3

LEMMA JudgedStep == ASSUME TypeOK, TypeOK', EndsInOrder, Flow, Judged, [Next]_vars PROVE Judged'
<1>1. near' => NearInOutput'
  BY NearStep
<1>2. stoppedEarly' => \E k \in 1..Len(output') : SaysFinished(k)'
  BY StopStep
<1>3. waiter' = "over" /\ ~waitErr' => code' = "ok"
  <2>1. CASE Reaps
    BY <2>1 DEF Reaps, procs
  <2>2. CASE ReadersWait
    BY <2>2 DEF ReadersWait
  <2>3. CASE UNCHANGED joining
    <3>1. waiter = "over" => code' = code
      <4>1. waiter = "over" => doing["child"] = Gone
        BY DEF EndsInOrder
      <4>2. CASE \E q \in Procs : Process(q)
        BY <4>1, <4>2, Tags DEF Process, BeginsLine, Writes, Exits
      <4>3. CASE Kill
        BY <4>1, <4>3 DEF Kill
      <4>4. CASE UNCHANGED procs
        BY <4>4 DEF procs
      <4> QED BY <4>2, <4>3, <4>4 DEF Next, Reader, Scans, ScanFails, Sends, EndOfFile,
                 Waiter, ReadersWait, Reaps, ContextEnds, ContextKills, Main, ReceiveError,
                 ReceiveLine, ChannelCloses, Return, vars, procs
    <3> QED BY <2>3, <3>1 DEF Judged, joining
  <2> QED BY <2>1, <2>2, <2>3 DEF Next, Process, BeginsLine, Writes, Exits, Reader, Scans,
             ScanFails, Sends, EndOfFile, Waiter, ContextEnds, ContextKills, Main,
             ReceiveError, ReceiveLine, ChannelCloses, Return, vars
<1>4. pc' # "receive" => events' = <<>>
  <2>1. CASE ChannelCloses
    BY <2>1 DEF ChannelCloses, pipeline
  <2>2. CASE pc = "receive" /\ ~ChannelCloses
    BY <2>2 DEF Next, Process, BeginsLine, Writes, Exits, Reader, Scans, ScanFails, Sends,
       EndOfFile, Waiter, ReadersWait, Reaps, ContextEnds, ContextKills, Main, ReceiveError,
       ReceiveLine, Return, vars, main
  <2>3. CASE pc # "receive"
    <3>1. \A s \in Streams : ~Sends(s)
      BY <2>3 DEF EndsInOrder, BothReaders, Sends
    <3>2. UNCHANGED events
      BY <2>3, <3>1 DEF Next, Process, BeginsLine, Writes, Exits, Reader, Scans, ScanFails,
         EndOfFile, Waiter, ReadersWait, Reaps, ContextEnds, ContextKills, Main, ReceiveError,
         ReceiveLine, ChannelCloses, Return, vars, pipeline
    <3> QED BY <2>3, <3>2 DEF Judged
  <2> QED BY <2>1, <2>2, <2>3
<1>5. outcome' = "ok" => ~readErr' /\ (waitErr' => stoppedEarly')
  <2>1. CASE Return
    BY <2>1 DEF Return, Verdict, joining, TypeOK
  <2>2. CASE ~Return
    <3>1. outcome' = outcome
      BY <2>2 DEF Next, Process, BeginsLine, Writes, Exits, Reader, Scans, ScanFails, Sends,
         EndOfFile, Waiter, ReadersWait, Reaps, ContextEnds, ContextKills, Main, ReceiveError,
         ReceiveLine, ChannelCloses, vars, main
    <3>2. outcome = "ok" => pc = "returned" /\ waiter = "over"
      BY DEF TypeOK, EndsInOrder
    <3>3. outcome = "ok" => UNCHANGED <<readErr, waitErr, stoppedEarly>>
      BY <3>2 DEF Next, Process, BeginsLine, Writes, Exits, Reader, Scans, ScanFails, Sends,
         EndOfFile, Waiter, ReadersWait, Reaps, ContextEnds, ContextKills, Main, ReceiveError,
         ReceiveLine, ChannelCloses, Return, vars, main, joining
    <3> QED BY <3>1, <3>3 DEF Judged
  <2> QED BY <2>1, <2>2
<1> QED BY <1>1, <1>2, <1>3, <1>4, <1>5 DEF Judged

LEMMA CompleteWhenOk == TypeOK /\ EndsInOrder /\ Flow /\ Judged => OkMeansComplete
<1> SUFFICES ASSUME TypeOK, EndsInOrder, Flow, Judged, outcome = "ok" PROVE OkMeansComplete
  BY DEF OkMeansComplete
<1>1. pc # "receive" /\ waiter = "over" /\ BothReaders /\ events = <<>>
  BY DEF TypeOK, EndsInOrder, Judged
<1>2. output \in Seq(Events) /\ DOMAIN output = 1..Len(output)
  BY LenProperties DEF TypeOK
<1>3. code = "ok" \/ \E k \in DOMAIN output : SaysFinished(k)
  BY <1>1, <1>2 DEF Judged, TypeOK
<1>4. ShownInOrder
  BY <1>2 DEF Flow, Ordered, ShownInOrder
<1>5. \A x : ~Among(x, events)
  <2>1. Len(events) = 0
    BY <1>1, EmptySeq
  <2>2. \A k \in 1..0 : FALSE
    OBVIOUS
  <2> QED BY <2>1, <2>2 DEF Among
<1>6. ASSUME NEW s \in Streams, NEW n \in DOMAIN written[s], written[s][n] # "blank"
      PROVE  \E k \in DOMAIN output : output[k] = [stream |-> s, number |-> n]
  <2>1. reader[s] = "done"
    BY <1>1, <1>5 DEF BothReaders, Flow, Reported, Judged
  <2>2. Passed(s) = Len(written[s]) /\ DOMAIN written[s] = 1..Len(written[s])
    <3>1. Len(pipe[s]) = 0
      BY <2>1, EmptySeq DEF Flow, Pipes
    <3>2. Passed(s) = Len(written[s]) - 0
      BY <2>1, <3>1 DEF Passed, Left
    <3>3. \A x \in Nat : x - 0 = x
      OBVIOUS
    <3> QED BY <3>2, <3>3, FlowTypes, LenProperties
  <2>3. Among(Tag(s, n), output)
    BY <1>5, <1>6, <2>1, <2>2 DEF Flow, Covered, GivenUp
  <2> QED BY <1>2, <2>3 DEF Among, Tag
<1> QED BY <1>3, <1>4, <1>6 DEF OkMeansComplete, AllShown

(* Success means that steamcmd ended well or said it had finished, and that *)
(* every line it wrote was seen, in the order of its stream.               *)
THEOREM OkIsComplete == Spec => []OkMeansComplete
<1> DEFINE IInv == TypeOK /\ EndsInOrder /\ Flow /\ Judged
<1>1. Init => IInv
  <2>1. Init => EndsInOrder /\ Judged
    BY DEF Init, EndsInOrder, Judged
  <2> QED BY <2>1, TypeInit, FlowInit
<1>2. IInv /\ [Next]_vars => IInv'
  BY TypeStep, OrderStep, FlowStep, JudgedStep
<1>3. IInv => OkMeansComplete
  BY CompleteWhenOk
<1> QED BY <1>1, <1>2, <1>3, PTL DEF Spec
=============================================================================
