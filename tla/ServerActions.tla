---------------------------- MODULE ServerActions ----------------------------
(***************************************************************************)
(* Start, stop, remove and restart of game servers (the server actions of  *)
(* internal/runtime/runtime.go) against the docker daemon, call by call.   *)
(* A handler runs one request at a time; between any two docker calls the  *)
(* command may be cancelled, a container may exit, come back by its        *)
(* restart policy or be removed by hand, a call may fail with or without   *)
(* its effect, and the agent may stop or crash.                            *)
(***************************************************************************)
EXTENDS Naturals, Sequences, FiniteSets, SequencesExt

CONSTANTS
  Servers,       \* configured server keys
  Containers,    \* docker container names
  ContainerOf,   \* the container_name of each server; config does not demand
                 \* that the names differ
  Requests,      \* the requests an operator may send
  NoRequest,
  MaxFaults,     \* bound: failed calls, crashes and stops per request
  MaxEvents      \* bound: changes behind the agent's back per request

Actions == {"start", "stop", "remove", "restart"}

AnyKnown(r) == \E k \in ToSet(r.keys) : k \in Servers

(* serversForKeys: one unknown key refuses the whole request ... *)
Accepted(r) == \A k \in ToSet(r.keys) : k \in Servers

AllOfBatch(r) == IF r.batch THEN SetToSeq(Servers) ELSE r.keys

(* ... and a repeated key counts once, at its first place. *)
FirstPlaces(keys) == {n \in DOMAIN keys : \A m \in 1..(n - 1) : keys[m] # keys[n]}

Rank(n, places) == Cardinality({m \in places : m <= n})

ListOf(r) ==
  LET places == FirstPlaces(r.keys)
  IN  [j \in 1..Cardinality(places) |-> r.keys[CHOOSE n \in places : Rank(n, places) = j]]

ASSUME ServerAssumption ==
  /\ ContainerOf \in [Servers -> Containers]
  /\ NoRequest \notin Requests
  /\ {MaxFaults, MaxEvents} \subseteq Nat

(* A request: what to do, to which keys, as a batch (serverKeys, a group or *)
(* kill_all) or to a single key.                                           *)
ASSUME RequestAssumption ==
  \A r \in Requests :
    /\ r.action \in Actions
    /\ r.batch \in BOOLEAN
    /\ r.keys \in Seq(ToSet(r.keys)) \ {<<>>}
    /\ r.batch \/ Len(r.keys) = 1

VARIABLES
  \* docker daemon (external)
  container,   \* state of each container; "down" is exited, restarting, ...
  image,       \* the image is present
  \* control plane (external)
  cancelled,   \* the command's status is CANCELLED
  \* handler
  pc, req, list, i,
  stage,       \* removing ("down") or StartServer ("up")
  stopping,    \* the context is cancelled (SIGTERM)
  outcome,     \* how the last request ended
  \* history
  fresh,       \* containers created since the request arrived
  late,        \* containers touched since the request was cancelled
  blind,       \* a check of a cancelled request could not reach the control plane
  faults,      \* failed calls, crashes and stops since the request arrived
  events       \* changes behind the agent's back since then

docker  == <<container, image>>
handler == <<pc, req, list, i, stage, outcome>>
history == <<fresh, late, blind, events>>
vars    == <<docker, cancelled, handler, stopping, history, faults>>

Outcomes == {"none", "done", "failed", "cancelled", "lost"}

TypeOK ==
  /\ container \in [Containers -> {"missing", "created", "running", "down"}]
  /\ {image, cancelled, stopping, blind} \subseteq BOOLEAN
  /\ pc \in {"idle", "listCheck", "check", "inspect", "remove", "create", "pull",
             "recreate", "start", "pause"}
  /\ req \in Requests \cup {NoRequest}
  /\ pc # "idle" => req \in Requests /\ list \in Seq(Servers) /\ i \in 1..Len(list)
  /\ stage \in {"down", "up"}
  /\ outcome \in Outcomes
  /\ fresh \subseteq Containers
  /\ late \subseteq Containers
  /\ {faults, events} \subseteq Nat

Init ==
  /\ container \in [Containers -> {"missing", "created", "running", "down"}]
  /\ image \in BOOLEAN
  /\ cancelled = FALSE
  /\ pc = "idle"
  /\ req = NoRequest
  /\ list = <<>>
  /\ i = 1
  /\ stage = "up"
  /\ stopping = FALSE
  /\ outcome = "none"
  /\ fresh = {}
  /\ late = {}
  /\ blind = FALSE
  /\ faults = 0
  /\ events = 0

Server == list[i]
Target == ContainerOf[Server]
-----------------------------------------------------------------------------
RestartUnchecked(r, s) ==
  IF r.action = "restart" THEN IF s = "down" THEN "inspect" ELSE "check"
  ELSE IF r.batch THEN "listCheck" ELSE "check"

(* Where a request starts on a server: a batch checks for a cancellation,  *)
(* except when it restarts and is past the removals; StartServer and       *)
(* removeServer check on their own; RestartServer removes unasked.         *)
Opening(r, s) ==
  IF r.batch /\ ~(r.action = "restart" /\ s = "up") THEN "listCheck"
  ELSE IF r.action = "restart" /\ s = "down" THEN "inspect"
  ELSE "check"

FirstStage(r) == IF r.action = "start" THEN "up" ELSE "down"

Receive(r) ==
  /\ pc = "idle" /\ ~stopping
  /\ req' = r
  /\ list' = ListOf(r)
  /\ i' = 1
  /\ stage' = FirstStage(r)
  /\ IF Accepted(r) THEN pc' = Opening(r, FirstStage(r)) /\ outcome' = "none"
                    ELSE pc' = "idle" /\ outcome' = "failed"
  /\ cancelled' = FALSE
  /\ fresh' = {}
  /\ late' = {}
  /\ blind' = FALSE
  /\ faults' = 0
  /\ events' = 0
  /\ UNCHANGED <<docker, stopping>>

End(o) == /\ pc' = "idle"
          /\ outcome' = o
          /\ UNCHANGED <<req, list, i, stage>>

Goto(p) == /\ pc' = p
           /\ UNCHANGED <<req, list, i, stage, outcome>>

OneByOne ==
  /\ UNCHANGED <<req, list, i>>
  /\ IF req.action = "restart" /\ stage = "down"
     THEN stage' = "up" /\ pc' = "check" /\ UNCHANGED outcome
     ELSE /\ stage' = FirstStage(req)
          /\ IF req.batch THEN pc' = "pause" /\ UNCHANGED outcome
                          ELSE pc' = "idle" /\ outcome' = "done"

(* A server is done with: a restart goes through the whole list removing,  *)
(* then through the whole list starting; a batch reports after each action. *)
ServerDone ==
  /\ UNCHANGED <<req, list>>
  /\ \/ /\ req.action = "restart" /\ stage = "down" /\ i < Len(list)
        /\ i' = i + 1
        /\ pc' = Opening(req, "down")
        /\ UNCHANGED <<stage, outcome>>
     \/ /\ req.action = "restart" /\ stage = "down" /\ i = Len(list)
        /\ i' = 1
        /\ stage' = "up"
        /\ pc' = Opening(req, "up")
        /\ UNCHANGED outcome
     \/ /\ ~(req.action = "restart" /\ stage = "down")
        /\ UNCHANGED <<i, stage>>
        /\ IF req.batch THEN pc' = "pause" /\ UNCHANGED outcome
                        ELSE pc' = "idle" /\ outcome' = "done"

(* reportState and waitBeforeNextStart; a cancelled context cuts the wait   *)
(* short and nothing else.                                                 *)
Pause ==
  /\ pc = "pause"
  /\ IF i < Len(list)
     THEN /\ i' = i + 1
          /\ pc' = Opening(req, stage)
          /\ UNCHANGED <<req, list, stage, outcome>>
     ELSE End("done")
  /\ UNCHANGED <<docker, cancelled, stopping, history, faults>>
-----------------------------------------------------------------------------
Checked == IF pc = "listCheck" /\ req.action # "restart" THEN "check"
                                                         ELSE "inspect"

CheckPasses ==
  /\ pc \in {"listCheck", "check"}
  /\ ~stopping /\ ~cancelled
  /\ Goto(Checked)
  /\ UNCHANGED <<docker, cancelled, stopping, history, faults>>

(* FetchCommand fails: treated as "not cancelled". *)
CheckBlind ==
  /\ pc \in {"listCheck", "check"}
  /\ ~stopping
  /\ faults < MaxFaults
  /\ faults' = faults + 1
  /\ blind' = (blind \/ cancelled)
  /\ Goto(Checked)
  /\ UNCHANGED <<docker, cancelled, stopping, fresh, late, events>>

CheckStops ==
  /\ pc \in {"listCheck", "check"}
  /\ IF stopping THEN End("failed") ELSE cancelled /\ End("cancelled")
  /\ UNCHANGED <<docker, cancelled, stopping, history, faults>>

(* A docker call: answered, or failed before or after the daemon acted.    *)
(* Under a cancelled context every call fails.                             *)
Delivery == {"ok", "noRequest", "noReply"}

Call(d) == /\ stopping => d # "ok"
           /\ faults' = IF d = "ok" \/ stopping THEN faults ELSE faults + 1
           /\ faults' <= MaxFaults

Reaches(d) == d # "noRequest"

Touch == late' = IF cancelled THEN late \cup {Target} ELSE late

InPlace(c) == container[c] # "missing"

AnyContainerWillDo == IF stage = "up" THEN InPlace(Target) ELSE ~InPlace(Target)

NeverRunning == stage = "down" /\ ~InPlace(Target)

(* The container is as the action wants it, nothing is to be done. *)
Satisfied == \/ stage = "up" /\ container[Target] = "running"
             \/ stage = "down" /\ ~InPlace(Target)

(* The branch on what docker answers. *)
InspectContainer(d) ==
  /\ pc = "inspect"
  /\ Call(d)
  /\ IF d # "ok" THEN End("failed")
     ELSE IF Satisfied THEN ServerDone
     ELSE Goto(IF InPlace(Target) THEN "remove" ELSE "create")
  /\ UNCHANGED <<docker, cancelled, stopping, history>>

(* Forced; a container that is gone already is no error.  *)
RemoveContainer(d) ==
  /\ pc = "remove"
  /\ Call(d)
  /\ container' = IF Reaches(d) THEN [container EXCEPT ![Target] = "missing"]
                                ELSE container
  /\ IF d # "ok" THEN End("failed")
     ELSE IF stage = "down" THEN ServerDone ELSE Goto("create")
  /\ IF Reaches(d) THEN Touch ELSE UNCHANGED late
  /\ UNCHANGED <<image, cancelled, stopping, fresh, blind, events>>

(* "No such image" is answered by one pull and one retry. *)
CreateContainer(d) ==
  /\ pc \in {"create", "recreate"}
  /\ Call(d)
  /\ IF Reaches(d) /\ image /\ ~InPlace(Target)
     THEN /\ container' = [container EXCEPT ![Target] = "created"]
          /\ fresh' = fresh \cup {Target}
          /\ Touch
     ELSE UNCHANGED <<container, fresh, late>>
  /\ IF d = "ok" /\ image /\ ~InPlace(Target) THEN Goto("start")
     ELSE IF d = "ok" /\ ~image /\ pc = "create" THEN Goto("pull")
     ELSE End("failed")
  /\ UNCHANGED <<image, cancelled, stopping, blind, events>>

(* It reads no error out of the progress stream: it may succeed and *)
(* leave no image.                                                         *)
PullImage(d) ==
  /\ pc = "pull"
  /\ Call(d)
  /\ image' \in IF Reaches(d) THEN BOOLEAN ELSE {image}
  /\ IF d = "ok" THEN Goto("recreate") ELSE End("failed")
  /\ UNCHANGED <<container, cancelled, stopping, history>>

(* Docker answers 304 for a running one, 404 for a missing. *)
StartContainer(d) ==
  /\ pc = "start"
  /\ Call(d)
  /\ IF Reaches(d) /\ InPlace(Target)
     THEN container' = [container EXCEPT ![Target] = "running"] /\ Touch
     ELSE UNCHANGED <<container, late>>
  /\ IF d = "ok" /\ InPlace(Target) THEN ServerDone ELSE End("failed")
  /\ UNCHANGED <<image, cancelled, stopping, fresh, blind, events>>
-----------------------------------------------------------------------------
(* What happens to a container behind the agent's back: the server process *)
(* ends, the restart policy brings it back, somebody removes it.           *)
Event(c, from, to) ==
  /\ events < MaxEvents
  /\ container[c] \in from
  /\ container' = [container EXCEPT ![c] = to]
  /\ events' = events + 1
  /\ UNCHANGED <<image, cancelled, handler, stopping, fresh, late, blind, faults>>

Exits(c)     == Event(c, {"running"}, "down")
ComesBack(c) == Event(c, {"down"}, "running")
IsRemoved(c) == Event(c, {"created", "running", "down"}, "missing")

Cancel ==
  /\ pc # "idle" /\ ~cancelled
  /\ cancelled' = TRUE
  /\ UNCHANGED <<docker, handler, stopping, history, faults>>

Stop ==
  /\ ~stopping
  /\ faults < MaxFaults
  /\ faults' = faults + 1
  /\ stopping' = TRUE
  /\ UNCHANGED <<docker, cancelled, handler, history>>

Crash ==
  /\ pc # "idle"
  /\ faults < MaxFaults
  /\ faults' = faults + 1
  /\ End("lost")
  /\ stopping' = FALSE
  /\ UNCHANGED <<docker, cancelled, history>>

(* The process left after a stop and systemd started another. *)
Restarted ==
  /\ pc = "idle" /\ stopping
  /\ stopping' = FALSE
  /\ UNCHANGED <<docker, cancelled, handler, history, faults>>

Handler == \/ Pause \/ CheckPasses \/ CheckBlind \/ CheckStops
           \/ \E d \in Delivery : \/ InspectContainer(d) \/ RemoveContainer(d)
                                 \/ CreateContainer(d) \/ PullImage(d)
                                 \/ StartContainer(d)

Environment == \/ Cancel \/ Stop \/ Crash \/ Restarted
               \/ \E c \in Containers : Exits(c) \/ ComesBack(c) \/ IsRemoved(c)

Next == (\E r \in Requests : Receive(r)) \/ Handler \/ Environment

Spec == Init /\ [][Next]_vars

-----------------------------------------------------------------------------
Listed(c) == \E s \in ToSet(list) : c = ContainerOf[s]

Done(A) == pc = "idle" /\ outcome = "done" /\ req.action \in A

(* A start or restart that is reported successful leaves every listed      *)
(* server running, whatever it found there: also containers an earlier     *)
(* request left half created when a call failed or the agent died.         *)
DoneMeansRunning ==
  Done({"start", "restart"}) /\ events = 0
    => \A c \in Containers : Listed(c) => container[c] = "running"

(* A stop or removal that is reported successful leaves no listed          *)
(* container, not even one the restart policy brought back meanwhile.      *)
DoneMeansGone ==
  Done({"stop", "remove"})
    => \A c \in Containers : Listed(c) => container[c] = "missing"

(* "recreated" is true: after a successful restart each listed server runs *)
(* in a container made by that request, though a server found running by   *)
(* StartServer is only relabelled.                                         *)
RestartRecreates ==
  Done({"restart"}) => \A c \in Containers : Listed(c) => c \in fresh

(* "Done" is true of every action. *)
SuccessMeansDone == DoneMeansRunning /\ DoneMeansGone /\ RestartRecreates

(* A batch restart takes all its servers down before it starts the first:  *)
(* no old and new container of one batch run side by side.                 *)
AllDownBeforeUp ==
  pc # "idle" /\ req.action = "restart" /\ stage = "up"
    => \A c \in Containers :
         Listed(c) => container[c] = "missing" \/ c \in fresh

(* A request changes only containers of servers it names, and none at all  *)
(* when one of its keys is unknown.                                        *)
OnlyListedTouched ==
  [][\A c \in Containers :
       container'[c] # container[c] /\ events' = events
         => /\ Accepted(req)
            /\ \E k \in ToSet(req.keys) : c = ContainerOf[k]]_vars

(* A start request never interrupts a running server, as long as none      *)
(* comes back by itself between InspectContainer and RemoveContainer.      *)
StartKeepsRunning ==
  [][pc # "idle" /\ req.action = "start" /\ events' = 0
       => \A c \in Containers : container[c] = "running"
                                  => container'[c] = "running"]_vars

(* After a cancellation at most one more container is touched, as long as  *)
(* the checks can reach the control plane; a single restart, which asks    *)
(* only between its removal and its start, is no exception.                *)
CancelTouchesOne == ~blind => \A c, d \in late : c = d

=============================================================================
