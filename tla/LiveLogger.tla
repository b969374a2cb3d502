------------------------------ MODULE LiveLogger ------------------------------
(***************************************************************************)
(* The live log of one command (internal/agent/logger.go): a buffer under  *)
(* a mutex whose batches are sent outside it.  The goroutine that executes *)
(* the command logs, flushes and finally finishes; others (the replay      *)
(* cache warmer) may log into it through Runtime.emit at any time.  One    *)
(* action is one critical section or one AppendCommandLogs call.           *)
(***************************************************************************)
EXTENDS Naturals, Sequences, SequencesExt, FiniteSets

CONSTANTS
  Threads,       \* goroutines that log
  Main,          \* the one that executes the command
  BatchSize,     \* entries that make Emit flush (10)
  MaxBatch,      \* entries of one AppendCommandLogs at most (200)
  MaxMessages,   \* bound: messages of a command
  MaxFaults      \* bound: failed calls

ASSUME LoggerAssumption == /\ Main \in Threads
                           /\ IsFiniteSet(Threads)
                           /\ BatchSize \in Nat \ {0}
                           /\ MaxBatch \in Nat \ {0}
                           /\ MaxMessages \in Nat
                           /\ MaxFaults \in Nat

VARIABLES
  messages,   \* author of every message logged, in order (l.messages); an
              \* entry is known by its place in it
  buffer,     \* l.buffer
  due,        \* flushInterval has passed since l.lastFlush
  pc,         \* what each goroutine is about to do
  batch,      \* the entries it has cut off the buffer and is sending
  hook,       \* the runtime's logEmitter is this logger's
  closing,    \* Main has called its last Flush
  received,   \* what the control plane was sent, in order of arrival
  dropped,    \* entries of failed sends
  faults

vars == <<messages, buffer, due, pc, batch, hook, closing, received, dropped,
          faults>>

Entries == 1..Len(messages)

Labels == {"ready", "tested", "emit", "flush", "send", "done", "panicked"}

TypeOK ==
  /\ messages \in Seq(Threads)
  /\ buffer \in Seq(Entries)
  /\ {due, hook, closing} \subseteq BOOLEAN
  /\ pc \in [Threads -> Labels]
  /\ batch \in [Threads -> Seq(Entries)]
  /\ received \in Seq(Entries)
  /\ dropped \subseteq Entries
  /\ faults \in Nat

Init ==
  /\ messages = <<>>
  /\ buffer = <<>>
  /\ due = FALSE
  /\ pc = [t \in Threads |-> "ready"]
  /\ batch = [t \in Threads |-> <<>>]
  /\ hook = TRUE
  /\ closing = FALSE
  /\ received = <<>>
  /\ dropped = {}
  /\ faults = 0

Goto(t, label) == pc' = [pc EXCEPT ![t] = label]
-----------------------------------------------------------------------------
(* Runtime.emit loads logEmitter twice, without synchronisation: it tests  *)
(* it for nil and then loads what it calls.  Main logs while its own hook  *)
(* is in place.                                                            *)
TestHook(t) ==
  /\ pc[t] = "ready"
  /\ hook
  /\ t = Main => ~closing
  /\ Len(messages) < MaxMessages
  /\ Goto(t, "tested")
  /\ UNCHANGED <<messages, buffer, due, batch, hook, closing, received, dropped,
                 faults>>

(* What it calls may be nil by now: the panic ends the process, nothing    *)
(* recovers it.  Otherwise the logger is called even when the command is   *)
(* over before Emit begins.                                                *)
LoadHook(t) ==
  /\ pc[t] = "tested"
  /\ Goto(t, IF hook THEN "emit" ELSE "panicked")
  /\ UNCHANGED <<messages, buffer, due, batch, hook, closing, received, dropped,
                 faults>>

Running == \A t \in Threads : pc[t] # "panicked"

OverBatchSize == Len(buffer') > BatchSize \/ due

MustFlush == Len(buffer') >= BatchSize \/ due

(* Emit, under the mutex. *)
Emit(t) ==
  /\ pc[t] = "emit"
  /\ messages' = Append(messages, t)
  /\ buffer' = Append(buffer, Len(messages) + 1)
  /\ Goto(t, IF MustFlush THEN "flush" ELSE "ready")
  /\ UNCHANGED <<due, batch, hook, closing, received, dropped, faults>>

TimePasses ==
  /\ ~due
  /\ due' = TRUE
  /\ UNCHANGED <<messages, buffer, pc, batch, hook, closing, received, dropped, faults>>

(* The explicit calls of Flush in processOneCommand, the last one of which  *)
(* comes before FinishCommand.                                             *)
FlushNow(last) ==
  /\ pc[Main] = "ready"
  /\ ~closing
  /\ closing' = last
  /\ Goto(Main, "flush")
  /\ UNCHANGED <<messages, buffer, due, batch, hook, received, dropped, faults>>

Cut == IF Len(buffer) < MaxBatch THEN Len(buffer) ELSE MaxBatch

EmptiesBuffer(t) ==
  /\ batch' = [batch EXCEPT ![t] = SubSeq(buffer, 1, Cut)]
  /\ buffer' = <<>>

TakesNewest(t) ==
  /\ batch' = [batch EXCEPT ![t] = SubSeq(buffer, Len(buffer) - Cut + 1, Len(buffer))]
  /\ buffer' = SubSeq(buffer, 1, Len(buffer) - Cut)

(* The oldest entries, at most MaxBatch of them, move to the batch. *)
TakesOldest(t) ==
  /\ batch' = [batch EXCEPT ![t] = SubSeq(buffer, 1, Cut)]
  /\ buffer' = SubSeq(buffer, Cut + 1, Len(buffer))

(* One turn of Flush, under the mutex: done, or a batch to send. *)
Flush(t) ==
  /\ pc[t] = "flush"
  /\ due' = FALSE
  /\ IF buffer = <<>> THEN Goto(t, "ready") /\ UNCHANGED <<buffer, batch>>
                      ELSE Goto(t, "send") /\ TakesOldest(t)
  /\ UNCHANGED <<messages, hook, closing, received, dropped, faults>>

(* AppendCommandLogs succeeded: the next turn, until the buffer is empty.  *)
Sent(t) ==
  /\ pc[t] = "send"
  /\ received' = received \o batch[t]
  /\ batch' = [batch EXCEPT ![t] = <<>>]
  /\ Goto(t, "flush")
  /\ UNCHANGED <<messages, buffer, due, hook, closing, dropped, faults>>

PutsBack(t) == buffer' = batch[t] \o buffer

(* What a failed send leaves in the buffer. *)
GivesUp(t) == UNCHANGED buffer

(* It failed, before or after the control plane stored the batch: Flush    *)
(* returns, the batch is gone.                                             *)
SendFails(t, stored) ==
  /\ pc[t] = "send"
  /\ faults < MaxFaults
  /\ faults' = faults + 1
  /\ received' = IF stored THEN received \o batch[t] ELSE received
  /\ dropped' = IF stored THEN dropped ELSE dropped \cup ToSet(batch[t])
  /\ batch' = [batch EXCEPT ![t] = <<>>]
  /\ GivesUp(t)
  /\ Goto(t, "ready")
  /\ UNCHANGED <<messages, due, hook, closing>>

(* Main's last Flush has returned, with or without an error: the command is *)
(* finished and the hook taken down.                                       *)
Finish ==
  /\ pc[Main] = "ready"
  /\ closing
  /\ hook' = FALSE
  /\ Goto(Main, "done")
  /\ UNCHANGED <<messages, buffer, due, batch, closing, received, dropped, faults>>

(* A goroutine inside Runtime.emit, Emit or Flush goes on. *)
Proceed(t) == Running /\ (LoadHook(t) \/ Emit(t) \/ Flush(t) \/ Sent(t))

CallFlush(last) == Running /\ FlushNow(last)

End == Running /\ Finish

Next == \/ \E t \in Threads : Proceed(t)
        \/ \E t \in Threads : Running /\ TestHook(t)
        \/ \E t \in Threads, stored \in BOOLEAN : Running /\ SendFails(t, stored)
        \/ \E last \in BOOLEAN : CallFlush(last)
        \/ End
        \/ Running /\ TimePasses

Spec == Init /\ [][Next]_vars

(* A goroutine that is logging goes on, unless the process has ended; the  *)
(* handler returns in the end and the last Flush is called.                *)
FairSpec == /\ Spec
            /\ \A t \in Threads : WF_vars(Proceed(t))
            /\ SF_vars(CallFlush(TRUE))
            /\ WF_vars(End)
-----------------------------------------------------------------------------
Positions(s, e) == {k \in DOMAIN s : s[k] = e}

(* Every message logged is in exactly one place: waiting in the buffer, in *)
(* the batch of one goroutine, received once, or dropped with a failed     *)
(* send.  Two goroutines in Flush never send the same entry, and a send    *)
(* that failed after the control plane stored it is not repeated.          *)
EachEntryOnce ==
  \A e \in Entries :
    Cardinality(Positions(buffer, e)) + Cardinality(Positions(received, e))
      + Cardinality({t \in Threads : Positions(batch[t], e) # {}})
      + Cardinality({e} \cap dropped) = 1

(* The buffer is a queue: what still waits is newer than all that left it, *)
(* so an entry can only be overtaken while a goroutine is sending it.      *)
OldestFirst ==
  \A e \in Entries : \A k \in DOMAIN buffer :
    e \notin ToSet(buffer) => e < buffer[k]

(* The buffer holds fewer than BatchSize entries, plus one for each        *)
(* goroutine about to flush: with the deployed sizes the limit of 200      *)
(* entries per request is never met.                                       *)
BufferStaysShort ==
  Len(buffer) < BatchSize + Cardinality({t \in Threads : pc[t] = "flush"})

LoggerInv == TypeOK /\ BufferStaysShort

(* Everything the executing goroutine logs arrives, if no send fails, even *)
(* when the one other goroutine (the warmer) calls the hook that the end   *)
(* of the command has reset.                                               *)
MainsLogArrives ==
  \A e \in 1..MaxMessages :
    e \in Entries /\ messages[e] = Main
      ~> e \in ToSet(received) \/ faults > 0
=============================================================================
