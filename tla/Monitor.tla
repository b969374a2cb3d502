-------------------------------- MODULE Monitor --------------------------------
(***************************************************************************)
(* MonitorCheck (internal/runtime/runtime.go): profile by profile - or     *)
(* once, in a configuration that has no profiles - launch the monitor      *)
(* server, poll its container until it has been running long enough, then  *)
(* start the profile's servers.  Time is counted in poll intervals;        *)
(* between two polls the container may exit, be restarted by its policy or *)
(* by hand, or be removed.  StartServer, RemoveServer and StopContainer    *)
(* are one step each here (ServerActions has their calls).                 *)
(***************************************************************************)
EXTENDS Naturals, Integers, Sequences, SequencesExt

CONSTANTS
  Servers,      \* configured servers
  Profiles,     \* monitor_profiles: monitor server and the servers to start, as
                \* profileStartKeys and defaultStartKeys resolve them; without
                \* profiles, the first one stands for monitor_server_key
  Stable,       \* MonitorStableSeconds, in polls
  Recover,      \* MonitorRecoverTimeoutSeconds, in polls
  Slack,        \* the hour that monitorCheckSingle adds to both, in polls
  Threshold,    \* MonitorRestartThreshold
  MaxRestarts,  \* bound: restarts docker counts for one container
  MaxFaults     \* bound: failed calls

ASSUME MonitorAssumption ==
  /\ Profiles \in Seq([monitor : Servers, starts : Seq(Servers)])
  /\ Profiles # <<>>
  /\ {Stable, Recover, Slack, Threshold, MaxRestarts, MaxFaults} \subseteq Nat

VARIABLES
  \* docker daemon (external)
  status,      \* of each server's container
  restarts,    \* its RestartCount
  asked,       \* to stop: by a cancellation, by a SIGTERM (external)
  \* handler
  single,      \* the configuration has no profiles
  pc,
  startAfter,  \* MonitorCheck(ctx, true)
  p,           \* the profile
  i,           \* the server of its start list
  base,        \* RestartCount after the launch
  last,        \* status at the last poll
  running,     \* polls since runningSince
  failing,     \* polls since nonRunningSince
  total,       \* polls since startedAt
  failed,      \* profiles that failed
  outcome,
  \* history
  steady,      \* intervals since the launch or the last poll that was not "running"
  proven,      \* profiles whose monitor was found stable
  seen,        \* the handler has found that it is asked to stop
  blind,       \* a check failed since the command was cancelled
  faults

docker  == <<status, restarts>>
watch   == <<base, last, running, failing, total>>
history == <<proven, seen, blind>>
vars    == <<docker, asked, single, pc, startAfter, p, i, watch, steady, failed, outcome, history, faults>>

Profile == Profiles[p]
Monitored == Profile.monitor

(* Where checkCancelled is asked, and where the handler goes on. *)
Asking == {"profile", "launchCheck", "pollCheck", "removeCheck", "listCheck", "startCheck"}

GoesOn == [profile     |-> "launchCheck", launchCheck |-> "launch",
           pollCheck   |-> "poll",        removeCheck |-> "remove",
           listCheck   |-> "startCheck",  startCheck  |-> "start"]

MaxRuntime == Stable + Recover + Slack

(* Bound: no comparison tells later times apart. *)
Horizon == MaxRuntime + 1

TypeOK ==
  /\ status \in [Servers -> {"missing", "down", "running"}]
  /\ restarts \in [Servers -> 0..MaxRestarts]
  /\ asked \in {"nothing", "cancel", "terminate"}
  /\ {single, startAfter, seen, blind} \subseteq BOOLEAN
  /\ pc \in Asking \cup {"idle", "launch", "base", "poll", "wait", "remove", "stop", "start"}
  /\ p \in 1..(Len(Profiles) + 1)
  /\ pc \notin {"idle", "profile"} => p <= Len(Profiles)
  /\ pc \in {"startCheck", "start"} => i \in DOMAIN Profile.starts
  /\ base \in 0..MaxRestarts
  /\ last \in {"none", "down", "running"}
  /\ {running, failing, total, steady} \subseteq 0..Horizon
  /\ failed \in 0..Len(Profiles)
  /\ outcome \in {"none", "ok", "notok", "error", "cancelled"}
  /\ proven \subseteq DOMAIN Profiles
  /\ faults \in 0..MaxFaults

Init ==
  /\ status \in [Servers -> {"missing", "running"}]
  /\ restarts = [s \in Servers |-> 0]
  /\ asked = "nothing"
  /\ single \in BOOLEAN
  /\ pc = "idle"
  /\ startAfter = FALSE
  /\ p = 1
  /\ i = 1
  /\ base = 0
  /\ last = "none"
  /\ running = 0
  /\ failing = 0
  /\ total = 0
  /\ failed = 0
  /\ outcome = "none"
  /\ steady = 0
  /\ proven = {}
  /\ seen = FALSE
  /\ blind = FALSE
  /\ faults = 0
-----------------------------------------------------------------------------
(* The variables of monitorCheckSingle, gone with it. *)
Forget == /\ base' = 0
          /\ last' = "none"
          /\ running' = 0
          /\ failing' = 0
          /\ total' = 0
          /\ steady' = 0

Move(label) == /\ pc' = label
               /\ UNCHANGED <<p, i, failed, outcome>>

Goto(label) == Move(label) /\ UNCHANGED <<watch, steady>>

End(o) == /\ pc' = "idle"
          /\ outcome' = o
          /\ UNCHANGED <<p, i, failed>>
          /\ Forget

UncountedFailure == /\ pc' = "profile"
                    /\ p' = p + 1
                    /\ UNCHANGED <<i, failed, outcome>>
                    /\ Forget

(* Any error of monitorCheckSingle, a cancellation too, is a failed profile *)
(* and the next one has its turn; without profiles it is the command's.     *)
ProfileFails == IF single THEN End("error")
                ELSE /\ pc' = "profile"
                     /\ p' = p + 1
                     /\ failed' = failed + 1
                     /\ UNCHANGED <<i, outcome>>
                     /\ Forget

ProfileDone == IF single THEN End("ok")
               ELSE /\ pc' = "profile"
                    /\ p' = p + 1
                    /\ UNCHANGED <<i, failed, outcome>>
                    /\ Forget

Lists(k) == /\ pc' = "listCheck"
            /\ i' = k
            /\ UNCHANGED <<p, failed, outcome>>
            /\ Forget

OffTheEnd(k) == IF startAfter /\ k <= Len(Profile.starts) + 1 THEN Lists(k) ELSE ProfileDone

(* The next server of the start list, or the next profile. *)
StartNext(k) == IF startAfter /\ k <= Len(Profile.starts) THEN Lists(k) ELSE ProfileDone

(* When the process is terminated its context ends and no call is answered. *)
Answered == asked # "terminate"

Fault == IF Answered THEN faults < MaxFaults /\ faults' = faults + 1
                     ELSE UNCHANGED faults

Receive(start) ==
  /\ pc = "idle"
  /\ pc' = IF single THEN "launchCheck" ELSE "profile"
  /\ startAfter' = start
  /\ p' = 1
  /\ i' = 1
  /\ failed' = 0
  /\ outcome' = "none"
  /\ asked' = "nothing"
  /\ Forget
  /\ proven' = {}
  /\ seen' = FALSE
  /\ blind' = FALSE
  /\ faults' = 0
  /\ UNCHANGED <<docker, single>>

AllChecked ==
  /\ pc = "profile"
  /\ p > Len(Profiles)
  /\ End(IF failed = 0 THEN "ok" ELSE "notok")
  /\ UNCHANGED <<docker, asked, single, startAfter, history, faults>>

AtCheck == pc \in Asking /\ p <= Len(Profiles)

CheckPasses ==
  /\ AtCheck
  /\ asked = "nothing"
  /\ Goto(GoesOn[pc])
  /\ UNCHANGED <<docker, asked, single, startAfter, history, faults>>

(* FetchCommand fails: treated as "not cancelled". *)
CheckBlind ==
  /\ AtCheck
  /\ Answered /\ Fault
  /\ blind' = (blind \/ asked = "cancel")
  /\ Goto(GoesOn[pc])
  /\ UNCHANGED <<docker, asked, single, startAfter, proven, seen>>

IgnoresError == Goto(GoesOn[pc])

(* Only between two profiles, or without any, is the error passed on; what *)
(* the RemoveServer of a failed monitor finds is always dropped.           *)
PassesOn == pc = "profile" \/ (single /\ pc # "removeCheck")

Stopped == IF PassesOn THEN End(IF asked = "cancel" THEN "cancelled" ELSE "error")
                       ELSE ProfileFails

CheckFinds ==
  /\ AtCheck
  /\ asked # "nothing"
  /\ seen' = TRUE
  /\ Stopped
  /\ UNCHANGED <<docker, asked, single, startAfter, proven, blind, faults>>
-----------------------------------------------------------------------------
(* StartServer succeeds: a server that does not run gets a new container.  *)
Starts(s) == /\ status' = [status EXCEPT ![s] = "running"]
             /\ restarts' = IF status[s] = "running" THEN restarts
                                                     ELSE [restarts EXCEPT ![s] = 0]

(* It fails at one of its calls, which may have had its effect. *)
StartBreaks(s) ==
  /\ Fault
  /\ \/ UNCHANGED docker
     \/ /\ status[s] # "running"
        /\ status' \in {[status EXCEPT ![s] = new] : new \in {"missing", "down", "running"}}
        /\ restarts' = [restarts EXCEPT ![s] = 0]
  /\ ProfileFails

Launch ==
  /\ pc = "launch"
  /\ \/ Answered /\ Starts(Monitored) /\ Goto("base") /\ UNCHANGED faults
     \/ StartBreaks(Monitored)
  /\ UNCHANGED <<asked, single, startAfter, history>>

(* The restarts so far do not count. *)
Base ==
  /\ pc = "base" /\ Answered
  /\ IF status[Monitored] = "missing" THEN ProfileFails
     ELSE /\ Move("pollCheck")
          /\ base' = restarts[Monitored]
          /\ UNCHANGED <<last, running, failing, total, steady>>
  /\ UNCHANGED <<docker, asked, single, startAfter, history, faults>>

(* InspectContainer fails, at the base or at a poll. *)
InspectFails ==
  /\ pc \in {"base", "poll"}
  /\ Fault
  /\ ProfileFails
  /\ UNCHANGED <<docker, asked, single, startAfter, history>>

SinceFirstRunning == running

Running == status[Monitored] = "running"

(* now.Sub(runningSince) and now.Sub(nonRunningSince) at this poll. *)
RunningFor == IF last = "running" THEN running ELSE 0
FailingFor == IF last = "running" THEN 0 ELSE failing

Restarting == restarts[Monitored] - base >= Threshold

EndlessRuntime == FALSE

TooLong == total > MaxRuntime

Verdict == IF Restarting THEN "removeCheck"
           ELSE IF Running /\ RunningFor >= Stable THEN "stop"
           ELSE IF ~Running /\ FailingFor >= Recover THEN "removeCheck"
           ELSE "wait"

Poll ==
  /\ pc = "poll" /\ Answered
  /\ IF status[Monitored] = "missing" \/ (Verdict = "wait" /\ TooLong)
     THEN ProfileFails /\ UNCHANGED proven
     ELSE /\ Move(Verdict)
          /\ running' = IF Running THEN RunningFor ELSE running
          /\ failing' = IF Running THEN failing ELSE FailingFor
          /\ last' = IF Running THEN "running" ELSE "down"
          /\ steady' = IF Running THEN steady ELSE 0
          /\ proven' = IF Verdict = "stop" THEN proven \cup {p} ELSE proven
          /\ UNCHANGED <<base, total>>
  /\ UNCHANGED <<docker, asked, single, startAfter, seen, blind, faults>>

Later(age, n) == IF age + n < Horizon THEN age + n ELSE Horizon

(* The ticker drops ticks when a poll was slow: one interval or many. *)
Wait ==
  /\ pc = "wait"
  /\ \E n \in 1..Horizon : /\ running' = Later(running, n)
                           /\ failing' = Later(failing, n)
                           /\ total' = Later(total, n)
                           /\ steady' = Later(steady, n)
  /\ Move("pollCheck")
  /\ UNCHANGED <<docker, asked, single, startAfter, base, last, history, faults>>

(* ctx.Done *)
Interrupted ==
  /\ pc = "wait" /\ asked = "terminate"
  /\ seen' = TRUE
  /\ ProfileFails
  /\ UNCHANGED <<docker, asked, single, startAfter, proven, blind, faults>>

(* RemoveServer of a failed monitor, its error ignored. *)
RemoveServer ==
  /\ pc = "remove"
  /\ \/ /\ status' = [status EXCEPT ![Monitored] = "missing"]
        /\ restarts' = [restarts EXCEPT ![Monitored] = 0]
        /\ UNCHANGED faults
     \/ UNCHANGED docker /\ Fault
  /\ ProfileFails
  /\ UNCHANGED <<asked, single, startAfter, history>>

(* StopContainer of a good one, its error ignored. *)
StopContainer ==
  /\ pc = "stop"
  /\ \/ /\ status' = [status EXCEPT ![Monitored] = IF @ = "missing" THEN @ ELSE "down"]
        /\ UNCHANGED faults
     \/ UNCHANGED status /\ Fault
  /\ StartNext(1)
  /\ UNCHANGED <<restarts, asked, single, startAfter, history>>

(* StartAfterMonitor: StartServers of the profile's list. *)
StartServer ==
  /\ pc = "start"
  /\ \/ Answered /\ Starts(Profile.starts[i]) /\ StartNext(i + 1) /\ UNCHANGED faults
     \/ StartBreaks(Profile.starts[i])
  /\ UNCHANGED <<asked, single, startAfter, history>>
-----------------------------------------------------------------------------
Container(s, from, to, count) ==
  /\ status[s] \in from
  /\ status' = [status EXCEPT ![s] = to]
  /\ restarts' = [restarts EXCEPT ![s] = count]
  /\ UNCHANGED <<asked, single, pc, startAfter, p, i, watch, steady, failed, outcome, history, faults>>

Exits(s)         == Container(s, {"running"}, "down", restarts[s])
RemovedByHand(s) == Container(s, {"down", "running"}, "missing", 0)

(* Docker counts anew. *)
StartedByHand(s) == Container(s, {"down"}, "running", 0)

(* Also between two polls, so that no poll sees it down. *)
PolicyRestarts(s) == /\ restarts[s] < MaxRestarts
                     /\ Container(s, {"down", "running"}, "running", restarts[s] + 1)

Stop(how) ==
  /\ pc # "idle"
  /\ asked \notin {how, "terminate"}
  /\ asked' = how
  /\ UNCHANGED <<docker, single, pc, startAfter, p, i, watch, steady, failed, outcome, history, faults>>

Handler == \/ AllChecked \/ CheckPasses \/ CheckBlind \/ CheckFinds
           \/ Launch \/ Base \/ InspectFails \/ Poll \/ Wait
           \/ Interrupted \/ RemoveServer \/ StopContainer \/ StartServer

Environment == \/ \E how \in {"cancel", "terminate"} : Stop(how)
               \/ \E s \in Servers : \/ Exits(s) \/ StartedByHand(s)
                                    \/ RemovedByHand(s) \/ PolicyRestarts(s)

Next == (\E start \in BOOLEAN : Receive(start)) \/ Handler \/ Environment

Spec == Init /\ [][Next]_vars

(* The handler runs on: every call has a timeout, the ticker ticks.        *)
FairSpec == Spec /\ WF_vars(Handler)
-----------------------------------------------------------------------------
(* A monitor passes only if every poll of the last Stable intervals found  *)
(* it running and docker's count of its policy's restarts is fewer than    *)
(* Threshold above that of the launch: a relapse starts the time anew, a   *)
(* quick restart by the policy between two polls is not missed (one by     *)
(* hand is not counted, it even resets the count).                         *)
SuccessMeansStable ==
  [][p \notin proven /\ p \in proven'
       => steady' >= Stable /\ restarts[Monitored] - base < Threshold]_vars

(* "ok" is reported only if every monitor was stable and the handler has    *)
(* not found that it is to stop, though a profile's error is swallowed.     *)
Watched == IF single THEN {1} ELSE DOMAIN Profiles

OkMeansAllProven ==
  outcome = "ok" => proven = Watched /\ ~seen

(* When the handler has found that it is to stop no profile is begun,      *)
(* unless the next check cannot reach the control plane.                   *)
SeenCancelStops == seen /\ ~blind => pc \in {"idle", "profile"}

(* The command ends, however the container flaps. *)
MonitorEnds == pc # "idle" ~> pc = "idle"
=============================================================================
