---------------------------- MODULE ReplayTransfer ----------------------------
(***************************************************************************)
(* One export of a replay: ExportReplay (internal/runtime/runtime.go) and  *)
(* UploadReplayAsset with its rate limited body (internal/api/client.go),   *)
(* while a game server may still write the file, under the timeout of the  *)
(* HTTP client, which counts the body too.  Bytes are numbered as they are *)
(* written, so no two are the same; time is counted from the request on.    *)
(***************************************************************************)
EXTENDS Integers, SequencesExt

CONSTANTS
  Limits,        \* bytes per second; 0 is no limit
  Second,        \* ticks of a second
  Timeout,       \* ticks of the HTTP client's timeout
  Chunk,         \* bytes of the buffer a body is read into
  FirstSize,     \* bound: bytes of the file at first
  MaxFileEvents  \* bound: changes of the file

ASSUME TransferAssumption ==
  /\ Limits \subseteq Nat
  /\ {Second, Timeout, Chunk} \subseteq Nat \ {0}
  /\ {FirstSize, MaxFileEvents} \subseteq Nat

Files == 1..(MaxFileEvents + 1)

Bytes == Nat

VARIABLES
  \* disk
  inode,       \* the bytes of every file there was
  path,        \* the one at the source path, 0 for none
  fresh,       \* the next byte
  \* the handler
  exportPc, exportSize, opened, digest,
  \* the request
  limit, now, deadline,
  body,        \* the file it reads
  reader,      \* rateLimitedReader: between two reads, asleep, reading, over
  clip,        \* bytes it may read now
  allowance, windowStart,
  sent,        \* bytes read for the body
  outcome,
  \* history
  sentBy,      \* bytes sent by the end of each tick, or by now
  change,      \* what has happened to the file since it was looked at
  fileEvents

fileVars   == <<inode, path, fresh, change, fileEvents>>
exportVars == <<exportPc, exportSize, opened, digest, outcome>>
window     == <<allowance, windowStart>>
request    == <<body, reader, clip, window, sent, sentBy>>
transferVars == <<fileVars, exportVars, limit, now, deadline, request>>

TransferTypeOK ==
  /\ inode \in [Files -> Seq(Bytes)]
  /\ path \in Files \cup {0}
  /\ fresh \in Bytes
  /\ exportPc \in {"stat", "open", "hash", "upload", "send", "over"}
  /\ exportSize \in Nat
  /\ opened \in Files \cup {0} /\ body \in Files \cup {0}
  /\ digest \in Seq(Bytes) /\ sent \in Seq(Bytes)
  /\ limit \in Limits
  /\ now \in 0..Timeout /\ windowStart \in 0..now
  /\ deadline \in BOOLEAN
  /\ reader \in {"ready", "asleep", "reading", "over"}
  /\ clip \in 0..Chunk /\ allowance \in Nat
  /\ outcome \in {"none", "ok", "failed"}
  /\ outcome = "none" <=> exportPc # "over"
  /\ sentBy \in [0..Timeout -> Nat]
  /\ change \in {"none", "grown", "other"}
  /\ fileEvents \in Nat

TransferInit ==
  /\ inode = [f \in Files |-> IF f = 1 THEN [k \in 1..FirstSize |-> k] ELSE <<>>]
  /\ path = 1
  /\ fresh = FirstSize + 1
  /\ exportPc = "stat"
  /\ exportSize = 0
  /\ opened = 0
  /\ digest = <<>>
  /\ limit \in Limits
  /\ now = 0
  /\ deadline = FALSE
  /\ body = 0
  /\ reader = "ready"
  /\ clip = 0
  /\ allowance = 0
  /\ windowStart = 0
  /\ sent = <<>>
  /\ outcome = "none"
  /\ sentBy = [t \in 0..Timeout |-> 0]
  /\ change = "none"
  /\ fileEvents = 0
-----------------------------------------------------------------------------
(* ExportReplay.  Any of its steps may fail, and the whole with it. *)
Fails ==
  /\ exportPc # "over"
  /\ exportPc' = "over"
  /\ outcome' = "failed"
  /\ UNCHANGED <<fileVars, exportSize, opened, digest, limit, now, deadline, request>>

Stat ==
  /\ exportPc = "stat" /\ path # 0
  /\ exportPc' = "open"
  /\ exportSize' = Len(inode[path])
  /\ UNCHANGED <<fileVars, opened, digest, outcome, limit, now, deadline, request>>

Open ==
  /\ exportPc = "open" /\ path # 0
  /\ exportPc' = "hash"
  /\ opened' = path
  /\ UNCHANGED <<fileVars, exportSize, digest, outcome, limit, now, deadline, request>>

(* io.Copy to the hash reads what is there, again and again to the end; a  *)
(* file that has shrunk below that point is at its end.                    *)
Rest(f, done) == SubSeq(inode[f], Len(done) + 1, Len(inode[f]))

Hash ==
  /\ exportPc = "hash" /\ Rest(opened, digest) # <<>>
  /\ \E n \in 1..Len(Rest(opened, digest)) :
        digest' = digest \o SubSeq(Rest(opened, digest), 1, n)
  /\ UNCHANGED <<fileVars, exportPc, exportSize, opened, outcome, limit, now, deadline, request>>

HashesOneBuffer ==
  /\ exportPc = "hash" /\ digest # <<>>
  /\ exportPc' = "upload"
  /\ UNCHANGED <<fileVars, exportSize, opened, digest, outcome, limit, now, deadline, request>>

HashEnds ==
  /\ exportPc = "hash" /\ Rest(opened, digest) = <<>>
  /\ exportPc' = "upload"
  /\ UNCHANGED <<fileVars, exportSize, opened, digest, outcome, limit, now, deadline, request>>

(* UploadReplayAsset opens the path once more; the body starts there.      *)
Upload ==
  /\ exportPc = "upload" /\ path # 0
  /\ exportPc' = "send"
  /\ body' = path
  /\ UNCHANGED <<fileVars, exportSize, opened, digest, outcome, limit, now, deadline,
                 reader, clip, window, sent, sentBy>>
-----------------------------------------------------------------------------
(* rateLimitedReader.Read, called by the transport whenever the network    *)
(* has taken what was read before.                                         *)
Least(x, y) == IF x < y THEN x ELSE y

NewWindow == now - windowStart >= Second

Remaining == IF NewWindow THEN limit ELSE limit - allowance

WholeBuffer(remaining) == Chunk

Clipped(remaining) == Least(Chunk, remaining)

Sending == exportPc = "send" /\ ~deadline

Enter ==
  /\ Sending /\ reader = "ready"
  /\ IF limit = 0
     THEN /\ clip' = Chunk
          /\ reader' = "reading"
          /\ UNCHANGED window
     ELSE /\ windowStart' = IF NewWindow THEN now ELSE windowStart
          /\ allowance' = IF NewWindow THEN 0 ELSE allowance
          /\ IF Remaining <= 0
             THEN reader' = "asleep" /\ UNCHANGED clip
             ELSE reader' = "reading" /\ clip' = Clipped(Remaining)
  /\ UNCHANGED <<fileVars, exportVars, limit, now, deadline, body, sent, sentBy>>

(* time.Sleep for what is left of the second, or longer. *)
Wake ==
  /\ Sending /\ reader = "asleep" /\ NewWindow
  /\ windowStart' = now
  /\ allowance' = 0
  /\ clip' = Clipped(limit)
  /\ reader' = "reading"
  /\ UNCHANGED <<fileVars, exportVars, limit, now, deadline, body, sent, sentBy>>

Read ==
  /\ Sending /\ reader = "reading" /\ Rest(body, sent) # <<>>
  /\ \E n \in 1..Least(clip, Len(Rest(body, sent))) :
        /\ sent' = sent \o SubSeq(Rest(body, sent), 1, n)
        /\ allowance' = allowance + n
        /\ sentBy' = [t \in 0..Timeout |-> IF t < now THEN sentBy[t] ELSE sentBy[t] + n]
  /\ reader' = "ready"
  /\ clip' = 0
  /\ UNCHANGED <<fileVars, exportVars, limit, now, deadline, body, windowStart>>

EndOfBody ==
  /\ Sending /\ reader = "reading" /\ Rest(body, sent) = <<>>
  /\ reader' = "over"
  /\ UNCHANGED <<fileVars, exportVars, limit, now, deadline, body, clip, window, sent, sentBy>>

(* The control plane accepts an asset when it has its whole body. *)
Accepts ==
  /\ Sending /\ reader = "over"
  /\ exportPc' = "over"
  /\ outcome' = "ok"
  /\ UNCHANGED <<fileVars, exportSize, opened, digest, limit, now, deadline, request>>

(* http.Client.Timeout: a request that is not answered by then fails.       *)
AnswerOnly == Sending /\ reader = "over"

WholeRequest == Sending

TimesOut ==
  /\ WholeRequest
  /\ now = Timeout
  /\ deadline' = TRUE
  /\ UNCHANGED <<fileVars, exportVars, limit, now, request>>

GivesUp ==
  /\ exportPc = "send" /\ deadline
  /\ exportPc' = "over"
  /\ outcome' = "failed"
  /\ UNCHANGED <<fileVars, exportSize, opened, digest, limit, now, deadline, request>>

(* The network, the disk or a sleep takes a while. *)
Tick ==
  /\ Sending /\ now < Timeout
  /\ now' = now + 1
  /\ UNCHANGED <<fileVars, exportVars, limit, deadline, request>>
-----------------------------------------------------------------------------
(* The file on disk, while somebody may read it.                           *)
FileChanges(how) ==
  /\ exportPc # "over"
  /\ fileEvents < MaxFileEvents
  /\ fileEvents' = fileEvents + 1
  /\ change' = IF exportPc = "stat" \/ reader = "over" \/ (how = "grown" /\ change = "other")
               THEN change ELSE how
  /\ UNCHANGED <<exportVars, limit, now, deadline, request>>

(* The game server goes on recording. *)
Grows ==
  /\ path # 0
  /\ FileChanges("grown")
  /\ inode' = [inode EXCEPT ![path] = Append(@, fresh)]
  /\ fresh' = fresh + 1
  /\ UNCHANGED path

(* It starts the recording again: the file is truncated. *)
Restarts ==
  /\ path # 0
  /\ FileChanges("other")
  /\ inode' = [inode EXCEPT ![path] = <<fresh>>]
  /\ fresh' = fresh + 1
  /\ UNCHANGED path

(* Another file is renamed to the path.  Who has the old one open keeps it. *)
Replaced ==
  /\ FileChanges("other")
  /\ path' = fileEvents + 2
  /\ inode' = [inode EXCEPT ![fileEvents + 2] = <<fresh>>]
  /\ fresh' = fresh + 1

Deleted ==
  /\ path # 0
  /\ FileChanges("other")
  /\ path' = 0
  /\ UNCHANGED <<inode, fresh>>

Export == Stat \/ Open \/ Hash \/ HashEnds \/ Upload \/ Fails \/ Accepts \/ GivesUp

Body == Enter \/ Wake \/ Read \/ EndOfBody

TransferNext == Export \/ Body \/ TimesOut \/ Tick \/ Grows \/ Restarts \/ Replaced \/ Deleted

TransferSpec == TransferInit /\ [][TransferNext]_transferVars

(* Only clocks are sure to go on, and the handler where nothing but the    *)
(* disk can hold it up: the network may take nothing and answer nothing.   *)
FairTransferSpec ==
  /\ TransferSpec
  /\ WF_transferVars(Stat \/ Open \/ Hash \/ HashEnds \/ Upload \/ GivesUp)
  /\ WF_transferVars(Fails /\ path = 0)
  /\ WF_transferVars(TimesOut \/ Tick)
-----------------------------------------------------------------------------
(* What the headers say is true of the asset: the digest is that of the    *)
(* body and the size its length when the file stays as it was; while it    *)
(* only grows the digest is that of a beginning of the body, no shorter    *)
(* than the size.  A partial body is never a success.                      *)
DigestTrue ==
  outcome = "ok" =>
    /\ change = "none" => digest = sent /\ exportSize = Len(sent)
    /\ change = "grown" => IsPrefix(digest, sent) /\ exportSize <= Len(digest)

(* The limit holds.  However reads, sleeps and the network's pace fall, no *)
(* second carries more than twice its bytes (the end of a window and the   *)
(* start of the next) and the whole, on average, no more than the limit:   *)
(* a file beyond the limit times the timeout's seconds and one is refused. *)
SentBefore(t) == IF t = 0 THEN 0 ELSE sentBy[t - 1]

SentFrom(t) == sentBy[Least(t + Second - 1, Timeout)] - SentBefore(t)

RateHeld ==
  limit > 0 =>
    /\ \A t \in 0..Timeout : SentFrom(t) <= 2 * limit
    /\ Len(sent) <= limit * ((now \div Second) + 1)

TransferInv == TransferTypeOK /\ RateHeld

(* An export ends, though the network may stall for ever: the executing    *)
(* goroutine and the target's slot are not held by it.                     *)
TransferEnds == <>(exportPc = "over")
=============================================================================
