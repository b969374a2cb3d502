----------------------------- MODULE MonitorProofs -----------------------------
(***************************************************************************)
(* Proofs about Monitor, for every list of profiles, any servers, times and *)
(* thresholds, and any number of restarts and failed calls.                *)
(***************************************************************************)
EXTENDS Monitor, SequenceTheorems, TLAPS

Working == pc # "idle"

(* The times of a monitor that runs are those of its unbroken run.         *)
Unbroken == last = "running" => running <= steady

(* How far the profiles are: before the current one every profile is       *)
(* proven or counted as failed, and after its verdict it is proven itself.  *)
Counted ==
  /\ single => p = 1 /\ pc # "profile"
  /\ pc = "listCheck" => i \in DOMAIN Profile.starts
  /\ Working => /\ outcome = "none"
                /\ failed < p
                /\ proven \subseteq 1..p
  /\ Working /\ failed = 0 => 1..(p - 1) \subseteq proven
  /\ pc \in {"stop", "listCheck", "startCheck", "start"} => p \in proven

(* What has been seen is still asked, and has failed a profile.            *)
Noticed ==
  /\ seen => asked # "nothing"
  /\ Working /\ seen => failed > 0 /\ ~single

MonitorInv == TypeOK /\ Unbroken /\ Counted /\ Noticed /\ OkMeansAllProven /\ SeenCancelStops

Daemon == /\ status \in [Servers -> {"missing", "down", "running"}]
          /\ restarts \in [Servers -> 0..MaxRestarts]
          /\ faults \in 0..MaxFaults

(* TypeOK without docker and the faults. *)
HandlerType ==
  /\ asked \in {"nothing", "cancel", "terminate"}
  /\ {single, startAfter, seen, blind} \subseteq BOOLEAN
  /\ pc \in Asking \cup {"idle", "launch", "base", "poll", "wait", "remove", "stop", "start"}
  /\ p \in 1..(Len(Profiles) + 1)
  /\ pc \notin {"idle", "profile"} => p <= Len(Profiles)
  /\ pc \in {"startCheck", "start"} => i \in DOMAIN Profile.starts
  /\ base \in 0..MaxRestarts
  /\ last \in {"none", "down", "running"}
  /\ {running, failing, total, steady} \subseteq 0..Horizon
  /\ failed \in 0..Len(Profiles)
  /\ outcome \in {"none", "ok", "notok", "error", "cancelled"}
  /\ proven \subseteq DOMAIN Profiles

LEMMA TypeSplit == TypeOK <=> Daemon /\ HandlerType
BY DEF TypeOK, Daemon, HandlerType

Control == HandlerType /\ Unbroken /\ Counted /\ Noticed /\ OkMeansAllProven /\ SeenCancelStops

LEMMA InvSplit == MonitorInv <=> Daemon /\ Control
BY TypeSplit DEF MonitorInv, Control

LEMMA Counts == /\ Len(Profiles) \in Nat /\ Len(Profiles) >= 1
                /\ DOMAIN Profiles = 1..Len(Profiles)
                /\ \A q \in DOMAIN Profiles : /\ Profiles[q].monitor \in Servers
                                              /\ Profiles[q].starts \in Seq(Servers)
<1> DEFINE Entry == [monitor : Servers, starts : Seq(Servers)]
<1>1. Profiles \in Seq(Entry) /\ Profiles # <<>>
  BY MonitorAssumption
<1>2. DOMAIN Profiles = 1..Len(Profiles) /\ Len(Profiles) \in Nat /\ Len(Profiles) # 0
  BY <1>1, LenProperties, EmptySeq
<1>3. \A q \in DOMAIN Profiles : Profiles[q] \in Entry
  BY <1>1, <1>2, ElementOfSeq
<1> QED BY <1>2, <1>3

LEMMA Times == /\ Horizon \in Nat /\ MaxRestarts \in Nat /\ MaxFaults \in Nat
               /\ Stable \in Nat /\ Recover \in Nat /\ Threshold \in Nat
BY MonitorAssumption DEF Horizon, MaxRuntime

LEMMA InTheList == ASSUME HandlerType, pc \notin {"idle", "profile"}
                   PROVE  /\ p \in DOMAIN Profiles
                          /\ Monitored \in Servers
                          /\ Profile.starts \in Seq(Servers)
BY Counts DEF HandlerType, Profile, Monitored

LEMMA Forgotten == Forget => /\ base' \in 0..MaxRestarts /\ last' \in {"none", "down", "running"}
                             /\ {running', failing', total', steady'} \subseteq 0..Horizon
                             /\ Unbroken'
BY Times DEF Forget, Unbroken

LEMMA MonitorInit == Init => MonitorInv
<1> SUFFICES ASSUME Init PROVE MonitorInv
  OBVIOUS
<1>1. Daemon
  BY Times DEF Init, Daemon
<1>2. HandlerType
  <2>1. {single, startAfter, seen, blind} \subseteq BOOLEAN
    BY Zenon DEF Init
  <2>2. /\ base \in 0..MaxRestarts
        /\ {running, failing, total, steady} \subseteq 0..Horizon
        /\ p \in 1..(Len(Profiles) + 1) /\ failed \in 0..Len(Profiles)
    BY Counts, Times DEF Init
  <2> QED BY <2>1, <2>2 DEF Init, HandlerType
<1>3. Unbroken /\ Counted /\ Noticed /\ OkMeansAllProven /\ SeenCancelStops
  BY DEF Init, Unbroken, Counted, Noticed, Working, OkMeansAllProven, SeenCancelStops
<1> QED BY <1>1, <1>2, <1>3, InvSplit DEF Control
-----------------------------------------------------------------------------
(* What the ends of a profile keep.                                        *)
Unasked == UNCHANGED <<asked, single, startAfter>>

LEMMA FailingKeeps ==
  ASSUME Control, pc \notin {"idle", "profile"}, ProfileFails, Unasked,
         UNCHANGED <<proven, blind>>, seen' = seen \/ (seen' = TRUE /\ asked # "nothing")
  PROVE  Control'
<1>1. Forget
  BY DEF ProfileFails, End
<1>2. CASE single
  <2>1. pc' = "idle" /\ outcome' = "error" /\ UNCHANGED <<p, i, failed>>
    BY <1>2 DEF ProfileFails, End
  <2>2. HandlerType'
    BY <1>1, <2>1, Forgotten DEF Control, HandlerType, Unasked
  <2> QED BY <1>1, <1>2, <2>1, <2>2, Forgotten
          DEF Control, Counted, Noticed, Working, OkMeansAllProven, SeenCancelStops, Unasked
<1>3. CASE ~single
  <2>1. pc' = "profile" /\ p' = p + 1 /\ failed' = failed + 1 /\ UNCHANGED <<i, outcome>>
    BY <1>3 DEF ProfileFails
  <2>2. HandlerType'
    <3>1. p' \in 1..(Len(Profiles) + 1) /\ failed' \in 0..Len(Profiles)
      BY <2>1, Counts DEF Control, HandlerType, Counted, Working
    <3>2. {single', startAfter', seen', blind'} \subseteq BOOLEAN
      BY DEF Control, HandlerType, Unasked
    <3> QED BY <1>1, <2>1, <3>1, <3>2, Forgotten DEF Control, HandlerType, Unasked, Asking
  <2>3. Counted' /\ Noticed'
    BY <1>3, <2>1, Counts DEF Control, HandlerType, Counted, Noticed, Working, Unasked
  <2>4. OkMeansAllProven' /\ SeenCancelStops'
    BY <2>1 DEF Control, Counted, Working, OkMeansAllProven, SeenCancelStops
  <2> QED BY <1>1, <2>2, <2>3, <2>4, Forgotten DEF Control
<1> QED BY <1>2, <1>3

LEMMA ListingKeeps ==
  ASSUME Control, NEW k \in Nat \ {0}, pc \in {"stop", "start"}, StartNext(k), Unasked,
         UNCHANGED <<proven, blind, seen>>
  PROVE  Control'
<1>1. p \in proven /\ outcome = "none" /\ p \in DOMAIN Profiles /\ Profile.starts \in Seq(Servers)
  BY InTheList DEF Control, Counted, Working
<1>2. Forget
  BY DEF StartNext, Lists, ProfileDone, End
<1>3. ASSUME Lists(k), k <= Len(Profile.starts) PROVE Control'
  <2>1. k \in DOMAIN Profile.starts
    BY <1>1, <1>3
  <2>2. pc' = "listCheck" /\ i' = k /\ UNCHANGED <<p, failed, outcome>>
    BY <1>3 DEF Lists
  <2>3. Profile' = Profile
    BY <2>2 DEF Profile
  <2>4. HandlerType'
    BY <1>1, <1>2, <2>2, Forgotten, Counts DEF Control, HandlerType, Unasked, Asking
  <2>5. Counted' /\ Noticed'
    BY <1>1, <2>1, <2>2, <2>3 DEF Control, Counted, Noticed, Working, Unasked
  <2>6. OkMeansAllProven' /\ SeenCancelStops'
    BY <1>1, <2>2 DEF Control, OkMeansAllProven, SeenCancelStops
  <2> QED BY <1>2, <2>4, <2>5, <2>6, Forgotten DEF Control
<1>4. ASSUME ProfileDone, single PROVE Control'
  <2>1. pc' = "idle" /\ outcome' = "ok" /\ UNCHANGED <<p, i, failed>>
    BY <1>4 DEF ProfileDone, End
  <2>2. p = 1 /\ proven \subseteq 1..1 /\ ~seen
    BY <1>4 DEF Control, Counted, Noticed, Working
  <2>3. proven = {1}
    BY <1>1, <2>2
  <2>4. HandlerType'
    BY <1>2, <2>1, Forgotten DEF Control, HandlerType, Unasked
  <2>5. OkMeansAllProven'
    BY <1>4, <2>2, <2>3 DEF OkMeansAllProven, Watched, Unasked
  <2> QED BY <1>2, <1>4, <2>1, <2>2, <2>4, <2>5, Forgotten
          DEF Control, Counted, Noticed, Working, SeenCancelStops, Unasked
<1>5. ASSUME ProfileDone, ~single PROVE Control'
  <2>1. pc' = "profile" /\ p' = p + 1 /\ UNCHANGED <<i, failed, outcome>>
    BY <1>5 DEF ProfileDone
  <2>2. HandlerType'
    <3>1. p' \in 1..(Len(Profiles) + 1)
      BY <1>1, <2>1, Counts
    <3> QED BY <1>2, <2>1, <3>1, Forgotten DEF Control, HandlerType, Unasked, Asking
  <2>3. Counted' /\ Noticed'
    BY <1>1, <1>5, <2>1, Counts DEF Control, HandlerType, Counted, Noticed, Working, Unasked
  <2>4. OkMeansAllProven' /\ SeenCancelStops'
    BY <1>1, <2>1 DEF Control, OkMeansAllProven, SeenCancelStops
  <2> QED BY <1>2, <2>2, <2>3, <2>4, Forgotten DEF Control
<1> QED BY <1>3, <1>4, <1>5 DEF StartNext
-----------------------------------------------------------------------------
(* The docker daemon and the count of faults.                              *)
LEMMA FaultTypes == Daemon /\ Fault => faults' \in 0..MaxFaults
BY Times DEF Daemon, Fault

LEMMA StartTypes ==
  ASSUME Daemon, NEW s \in Servers, (Starts(s) /\ UNCHANGED faults) \/ StartBreaks(s)
  PROVE  Daemon'
<1>1. CASE Starts(s) /\ UNCHANGED faults
  BY <1>1, Times DEF Daemon, Starts
<1>2. CASE StartBreaks(s)
  <2>1. status' \in [Servers -> {"missing", "down", "running"}]
    BY <1>2 DEF StartBreaks, Daemon, docker
  <2>2. restarts' \in [Servers -> 0..MaxRestarts]
    BY <1>2, Times DEF StartBreaks, Daemon, docker
  <2>3. faults' \in 0..MaxFaults
    BY <1>2, FaultTypes DEF StartBreaks
  <2> QED BY <2>1, <2>2, <2>3 DEF Daemon
<1> QED BY <1>1, <1>2

LEMMA DaemonStep == Daemon /\ Control /\ [Next]_vars => Daemon'
<1> SUFFICES ASSUME Daemon, Control, [Next]_vars PROVE Daemon'
  OBVIOUS
<1>1. CASE \E start \in BOOLEAN : Receive(start)
  BY <1>1, Times DEF Receive, Daemon, docker
<1>2. CASE Launch \/ StartServer
  <2>1. Monitored \in Servers /\ Profile.starts \in Seq(Servers)
    BY <1>2, InTheList DEF Control, Launch, StartServer
  <2>2. pc = "start" => Profile.starts[i] \in Servers
    BY <2>1, ElementOfSeq, LenProperties DEF Control, HandlerType
  <2> QED BY <1>2, <2>1, <2>2, StartTypes DEF Launch, StartServer
<1>3. CASE RemoveServer \/ StopContainer
  <2>1. Monitored \in Servers
    BY <1>3, InTheList DEF Control, RemoveServer, StopContainer
  <2>2. /\ status' \in [Servers -> {"missing", "down", "running"}]
        /\ restarts' \in [Servers -> 0..MaxRestarts]
    BY <1>3, <2>1, Times DEF RemoveServer, StopContainer, Daemon, docker
  <2>3. faults' \in 0..MaxFaults
    BY <1>3, FaultTypes DEF RemoveServer, StopContainer, Daemon
  <2> QED BY <2>2, <2>3 DEF Daemon
<1>4. CASE CheckBlind \/ InspectFails
  <2>1. UNCHANGED docker /\ Fault
    BY <1>4 DEF CheckBlind, InspectFails
  <2> QED BY <2>1, FaultTypes DEF Daemon, docker
<1>5. CASE AllChecked \/ CheckPasses \/ CheckFinds \/ Base \/ Poll \/ Wait \/ Interrupted
           \/ \E how \in {"cancel", "terminate"} : Stop(how)
  BY <1>5 DEF AllChecked, CheckPasses, CheckFinds, Base, Poll, Wait, Interrupted, Stop, Daemon, docker
<1>6. ASSUME NEW s \in Servers, Exits(s) \/ StartedByHand(s) \/ RemovedByHand(s) \/ PolicyRestarts(s)
      PROVE  Daemon'
  <2>1. restarts[s] \in 0..MaxRestarts
    BY DEF Daemon
  <2>2. UNCHANGED faults
    BY <1>6 DEF Exits, StartedByHand, RemovedByHand, PolicyRestarts, Container
  <2>3. status' \in [Servers -> {"missing", "down", "running"}]
    BY <1>6 DEF Exits, StartedByHand, RemovedByHand, PolicyRestarts, Container, Daemon
  <2>4. restarts' \in [Servers -> 0..MaxRestarts]
    <3>1. CASE Exits(s) \/ StartedByHand(s) \/ RemovedByHand(s)
      BY <2>1, <3>1, Times DEF Exits, StartedByHand, RemovedByHand, Container, Daemon
    <3>2. CASE PolicyRestarts(s)
      <4>1. restarts[s] + 1 \in 0..MaxRestarts
        BY <2>1, <3>2, Times DEF PolicyRestarts
      <4> QED BY <3>2, <4>1 DEF PolicyRestarts, Container, Daemon
    <3> QED BY <1>6, <3>1, <3>2
  <2> QED BY <2>2, <2>3, <2>4 DEF Daemon
<1>7. CASE UNCHANGED vars
  BY <1>7 DEF vars, Daemon, docker
<1> QED BY <1>1, <1>2, <1>3, <1>4, <1>5, <1>6, <1>7 DEF Next, Handler, Environment
-----------------------------------------------------------------------------
(* A step of the handler that only moves on inside a profile.              *)
Inside == {"launchCheck", "pollCheck", "removeCheck", "launch", "base", "poll", "wait", "remove"}

LEMMA MovingKeeps ==
  ASSUME Control, pc # "idle", pc' \in Inside, pc = "profile" => p <= Len(Profiles) /\ ~single,
         UNCHANGED <<p, i, failed, outcome, proven, seen>>, Unasked,
         blind' \in BOOLEAN, ~seen \/ blind',
         base' \in 0..MaxRestarts, last' \in {"none", "down", "running"},
         {running', failing', total', steady'} \subseteq 0..Horizon, Unbroken'
  PROVE  Control'
<1>1. HandlerType'
  <2>1. {single', startAfter', seen', blind'} \subseteq BOOLEAN
    BY DEF Control, HandlerType, Unasked
  <2> QED BY <2>1 DEF Control, HandlerType, Unasked, Inside, Asking
<1>2. Counted' /\ Noticed'
  BY DEF Control, Counted, Noticed, Working, Unasked, Inside
<1>3. OkMeansAllProven' /\ SeenCancelStops'
  BY DEF Control, Counted, Working, OkMeansAllProven, SeenCancelStops
<1> QED BY <1>1, <1>2, <1>3 DEF Control

(* listCheck leads to startCheck, startCheck to the start.                 *)
LEMMA CheckingKeeps ==
  ASSUME Control, AtCheck, Goto(GoesOn[pc]), Unasked, UNCHANGED <<proven, seen>>,
         blind' \in BOOLEAN, ~seen \/ blind'
  PROVE  Control'
<1>1. UNCHANGED <<p, i, failed, outcome, base, last, running, failing, total, steady>>
  BY DEF Goto, Move, watch
<1>2. pc \in Asking /\ p <= Len(Profiles) /\ pc' = GoesOn[pc]
  BY DEF AtCheck, Goto, Move
<1>3. Unbroken'
  BY <1>1 DEF Control, Unbroken
<1>4. CASE pc \in {"profile", "launchCheck", "pollCheck", "removeCheck"}
  <2>1. pc' \in Inside
    BY <1>2, <1>4 DEF GoesOn, Inside
  <2>2. pc = "profile" => p <= Len(Profiles) /\ ~single
    BY <1>2 DEF Control, Counted
  <2>3. /\ base' \in 0..MaxRestarts /\ last' \in {"none", "down", "running"}
        /\ {running', failing', total', steady'} \subseteq 0..Horizon
    BY <1>1 DEF Control, HandlerType
  <2> QED BY <1>1, <1>3, <1>4, <2>1, <2>2, <2>3, MovingKeeps
<1>5. CASE pc \in {"listCheck", "startCheck"}
  <2>1. pc' \in {"startCheck", "start"}
    BY <1>2, <1>5 DEF GoesOn
  <2>2. Profile' = Profile
    BY <1>1 DEF Profile
  <2>3. HandlerType'
    <3>1. i' \in DOMAIN Profile'.starts
      BY <1>1, <1>5, <2>2 DEF Control, HandlerType, Counted
    <3>2. {single', startAfter', seen', blind'} \subseteq BOOLEAN
      BY DEF Control, HandlerType, Unasked
    <3> QED BY <1>1, <1>2, <2>1, <3>1, <3>2 DEF Control, HandlerType, Unasked, Asking
  <2>4. Counted' /\ Noticed'
    BY <1>1, <1>5, <2>1 DEF Control, Counted, Noticed, Working, Unasked
  <2>5. OkMeansAllProven' /\ SeenCancelStops'
    BY <1>1, <1>5 DEF Control, Counted, Working, OkMeansAllProven, SeenCancelStops
  <2> QED BY <1>3, <2>3, <2>4, <2>5 DEF Control
<1> QED BY <1>2, <1>4, <1>5 DEF Asking

LEMMA StoppingKeeps == ASSUME Control, CheckFinds PROVE Control'
<1>1. /\ AtCheck /\ asked # "nothing" /\ seen' = TRUE /\ Stopped
      /\ Unasked /\ UNCHANGED <<proven, blind>>
  BY DEF CheckFinds, Unasked
<1>2. CASE PassesOn
  <2>1. /\ pc' = "idle" /\ outcome' \in {"cancelled", "error"}
        /\ UNCHANGED <<p, i, failed>> /\ Forget
    BY <1>1, <1>2 DEF Stopped, End
  <2>2. HandlerType'
    <3>1. {single', startAfter', seen', blind'} \subseteq BOOLEAN
      BY <1>1 DEF Control, HandlerType, Unasked
    <3> QED BY <1>1, <2>1, <3>1, Forgotten DEF Control, HandlerType, Unasked
  <2> QED BY <1>1, <2>1, <2>2, Forgotten
          DEF Control, Counted, Noticed, Working, OkMeansAllProven, SeenCancelStops, Unasked
<1>3. CASE ~PassesOn
  <2>1. ProfileFails /\ pc \notin {"idle", "profile"}
    BY <1>1, <1>3 DEF Stopped, PassesOn, AtCheck, Asking
  <2> QED BY <1>1, <2>1, FailingKeeps
<1> QED BY <1>2, <1>3

LEMMA AgeTypes == \A age, n \in 0..Horizon : Later(age, n) \in 0..Horizon
BY Times DEF Later

LEMMA WaitKeeps == ASSUME Control, Wait PROVE Control'
<1>1. PICK n \in 1..Horizon : /\ running' = Later(running, n) /\ failing' = Later(failing, n)
                              /\ total' = Later(total, n) /\ steady' = Later(steady, n)
  BY DEF Wait
<1>2. {running, failing, total, steady} \subseteq 0..Horizon
  BY DEF Control, HandlerType
<1>3. {running', failing', total', steady'} \subseteq 0..Horizon
  <2>1. n \in 0..Horizon
    BY Times
  <2> QED BY <1>1, <1>2, <2>1, AgeTypes
<1>4. Unbroken'
  BY <1>1, <1>2, Times DEF Wait, Control, Unbroken, Later
<1>5. pc = "wait" /\ pc' = "pollCheck" /\ UNCHANGED <<p, i, failed, outcome, base, last, proven, seen, blind>>
      /\ Unasked
  BY DEF Wait, Move, history, Unasked
<1>6. /\ base' \in 0..MaxRestarts /\ last' \in {"none", "down", "running"} /\ blind' \in BOOLEAN
      /\ (~seen \/ blind')
  BY <1>5 DEF Control, HandlerType, SeenCancelStops
<1> QED BY <1>3, <1>4, <1>5, <1>6, MovingKeeps DEF Inside

LEMMA BaseKeeps == ASSUME Daemon, Control, Base PROVE Control'
<1>1. pc = "base" /\ Unasked /\ UNCHANGED <<proven, seen, blind>>
  BY DEF Base, history, Unasked
<1>2. CASE ProfileFails
  BY <1>1, <1>2, FailingKeeps
<1>3. CASE Move("pollCheck") /\ base' = restarts[Monitored]
           /\ UNCHANGED <<last, running, failing, total, steady>>
  <2>1. Monitored \in Servers
    BY <1>1, InTheList DEF Control
  <2>2. base' \in 0..MaxRestarts
    BY <1>3, <2>1 DEF Daemon
  <2>3. /\ last' \in {"none", "down", "running"} /\ blind' \in BOOLEAN /\ (~seen \/ blind')
        /\ {running', failing', total', steady'} \subseteq 0..Horizon /\ Unbroken'
    BY <1>1, <1>3 DEF Control, HandlerType, SeenCancelStops, Unbroken
  <2>4. pc' \in Inside /\ pc # "idle" /\ pc # "profile"
    BY <1>1, <1>3 DEF Move, Inside
  <2>5. UNCHANGED <<p, i, failed, outcome, proven, seen>>
    BY <1>1, <1>3 DEF Move
  <2> QED BY <1>1, <2>2, <2>3, <2>4, <2>5, MovingKeeps
<1> QED BY <1>2, <1>3 DEF Base

(* A poll.  The one that finds the monitor stable is the only step that     *)
(* proves a profile.                                                       *)
LEMMA PollKeeps ==
  ASSUME Control, Poll
  PROVE  /\ Control'
         /\ p \notin proven /\ p \in proven'
              => steady' >= Stable /\ ~Restarting
<1>1. pc = "poll" /\ Unasked /\ UNCHANGED <<seen, blind>> /\ p \in DOMAIN Profiles
  BY InTheList DEF Poll, Unasked, Control
<1>2. CASE ProfileFails /\ UNCHANGED proven
  BY <1>1, <1>2, FailingKeeps
<1>3. CASE /\ Move(Verdict)
           /\ running' = IF Running THEN RunningFor ELSE running
           /\ failing' = IF Running THEN failing ELSE FailingFor
           /\ last' = IF Running THEN "running" ELSE "down"
           /\ steady' = IF Running THEN steady ELSE 0
           /\ proven' = IF Verdict = "stop" THEN proven \cup {p} ELSE proven
           /\ UNCHANGED <<base, total>>
  <2>1. {running, failing, total, steady} \subseteq 0..Horizon
    BY DEF Control, HandlerType
  <2>2. {running', failing', total', steady'} \subseteq 0..Horizon
    BY <1>3, <2>1, Times DEF RunningFor, FailingFor
  <2>3. Unbroken'
    BY <1>3, <2>1 DEF Control, Unbroken, RunningFor
  <2>4. pc' = Verdict /\ UNCHANGED <<p, i, failed, outcome>>
    BY <1>3 DEF Move
  <2>5. /\ base' \in 0..MaxRestarts /\ last' \in {"none", "down", "running"} /\ blind' \in BOOLEAN
        /\ (~seen \/ blind')
    BY <1>1, <1>3 DEF Control, HandlerType, SeenCancelStops
  <2>6. CASE Verdict # "stop"
    <3>1. pc' \in Inside
      BY <2>4, <2>6 DEF Verdict, Inside
    <3>2. proven' = proven
      BY <1>3, <2>6
    <3> QED BY <1>1, <2>2, <2>3, <2>4, <2>5, <3>1, <3>2, MovingKeeps
  <2>7. CASE Verdict = "stop"
    <3>1. ~Restarting /\ Running /\ RunningFor >= Stable
      BY <2>7 DEF Verdict
    <3>2. steady' >= Stable
      BY <1>3, <2>1, <3>1, Times DEF Control, Unbroken, RunningFor
    <3>3. proven' = proven \cup {p}
      BY <1>3, <2>7
    <3>4. HandlerType'
      <4>1. {single', startAfter', seen', blind'} \subseteq BOOLEAN
        BY <1>1 DEF Control, HandlerType, Unasked
      <4> QED BY <1>1, <2>2, <2>4, <2>5, <2>7, <3>3, <4>1 DEF Control, HandlerType, Unasked
    <3>5. Counted' /\ Noticed'
      BY <1>1, <2>4, <2>7, <3>3, Counts DEF Control, Counted, Noticed, Working, Unasked
    <3>6. OkMeansAllProven' /\ SeenCancelStops'
      BY <1>1, <2>4 DEF Control, Counted, Working, OkMeansAllProven, SeenCancelStops
    <3> QED BY <2>3, <3>1, <3>2, <3>4, <3>5, <3>6 DEF Control
  <2> QED BY <2>6, <2>7
<1> QED BY <1>2, <1>3 DEF Poll

LEMMA ReceiveKeeps == ASSUME Control, NEW start \in BOOLEAN, Receive(start) PROVE Control'
<1>1. /\ pc' = IF single THEN "launchCheck" ELSE "profile"
      /\ startAfter' = start /\ p' = 1 /\ failed' = 0 /\ outcome' = "none" /\ asked' = "nothing"
      /\ Forget /\ proven' = {} /\ seen' = FALSE /\ blind' = FALSE /\ UNCHANGED single
  BY DEF Receive
<1>2. HandlerType'
  <2>1. {single', startAfter', seen', blind'} \subseteq BOOLEAN
    <3>1. single' \in BOOLEAN /\ startAfter' \in BOOLEAN
      BY <1>1 DEF Control, HandlerType
    <3>2. seen' \in BOOLEAN /\ blind' \in BOOLEAN
      BY <1>1, Zenon
    <3> QED BY <3>1, <3>2
  <2>2. p' \in 1..(Len(Profiles) + 1) /\ failed' \in 0..Len(Profiles) /\ p' <= Len(Profiles)
    BY <1>1, Counts
  <2> QED BY <1>1, <2>1, <2>2, Forgotten DEF HandlerType, Asking
<1>3. Counted' /\ Noticed'
  BY <1>1 DEF Counted, Noticed, Working
<1>4. OkMeansAllProven' /\ SeenCancelStops'
  BY <1>1 DEF OkMeansAllProven, SeenCancelStops
<1> QED BY <1>1, <1>2, <1>3, <1>4, Forgotten DEF Control

LEMMA AllCheckedKeeps == ASSUME Control, AllChecked PROVE Control'
<1>1. /\ pc = "profile" /\ p > Len(Profiles) /\ pc' = "idle" /\ Forget
      /\ outcome' = (IF failed = 0 THEN "ok" ELSE "notok")
      /\ UNCHANGED <<p, i, failed, proven, seen, blind>> /\ Unasked
  BY DEF AllChecked, End, history, Unasked
<1>2. HandlerType'
  BY <1>1, Forgotten DEF Control, HandlerType, Unasked
<1>3. OkMeansAllProven'
  <2>1. SUFFICES ASSUME failed = 0 PROVE proven = DOMAIN Profiles /\ ~seen /\ ~single
    BY <1>1 DEF OkMeansAllProven, Watched, Unasked
  <2>2. p = Len(Profiles) + 1
    BY <1>1, Counts DEF Control, HandlerType
  <2>3. 1..Len(Profiles) \subseteq proven
    BY <1>1, <2>1, <2>2, Counts DEF Control, Counted, Working
  <2>4. proven \subseteq 1..Len(Profiles)
    BY Counts DEF Control, HandlerType
  <2>5. ~seen /\ ~single
    BY <1>1, <2>1 DEF Control, Counted, Noticed, Working
  <2> QED BY <2>3, <2>4, <2>5, Counts
<1> QED BY <1>1, <1>2, <1>3, Forgotten
        DEF Control, Counted, Noticed, Working, SeenCancelStops, Unasked

LEMMA LaunchKeeps == ASSUME Control, Launch PROVE Control'
<1>1. pc = "launch" /\ Unasked /\ UNCHANGED <<proven, seen, blind>>
  BY DEF Launch, history, Unasked
<1>2. CASE StartBreaks(Monitored)
  BY <1>1, <1>2, FailingKeeps DEF StartBreaks
<1>3. CASE Goto("base")
  <2>1. /\ pc' \in Inside /\ pc # "idle" /\ pc # "profile"
        /\ UNCHANGED <<p, i, failed, outcome, proven, seen>>
    BY <1>1, <1>3 DEF Goto, Move, Inside
  <2>2. UNCHANGED <<base, last, running, failing, total, steady, seen, blind>>
    BY <1>1, <1>3 DEF Goto, watch
  <2>3. /\ base' \in 0..MaxRestarts /\ last' \in {"none", "down", "running"}
        /\ {running', failing', total', steady'} \subseteq 0..Horizon /\ Unbroken'
        /\ blind' \in BOOLEAN /\ (~seen \/ blind')
    BY <1>1, <2>2 DEF Control, HandlerType, Unbroken, SeenCancelStops
  <2> QED BY <1>1, <2>1, <2>3, MovingKeeps
<1> QED BY <1>2, <1>3 DEF Launch

LEMMA StartKeeps == ASSUME Control, StartServer PROVE Control'
<1>1. pc = "start" /\ Unasked /\ UNCHANGED <<proven, seen, blind>>
  BY DEF StartServer, history, Unasked
<1>2. CASE StartBreaks(Profile.starts[i])
  BY <1>1, <1>2, FailingKeeps DEF StartBreaks
<1>3. CASE StartNext(i + 1)
  <2>1. i \in DOMAIN Profile.starts /\ Profile.starts \in Seq(Servers)
    BY <1>1, InTheList DEF Control, HandlerType
  <2>2. i + 1 \in Nat \ {0}
    BY <2>1, LenProperties
  <2> QED BY <1>1, <1>3, <2>2, ListingKeeps
<1> QED BY <1>2, <1>3 DEF StartServer

(* Neither a container nor a request to stop touches the handler.          *)
LEMMA OutsideKeeps ==
  ASSUME Control, asked' = asked \/ (pc # "idle" /\ asked' \in {"cancel", "terminate"}),
         UNCHANGED <<single, pc, startAfter, p, i, watch, steady, failed, outcome, history>>
  PROVE  Control'
<1>1. UNCHANGED <<base, last, running, failing, total, steady, proven, seen, blind>>
  BY DEF watch, history
<1>2. UNCHANGED <<single, pc, startAfter, p, i, failed, outcome>> /\ Profile' = Profile
  BY DEF Profile
<1>3. HandlerType'
  BY <1>1, <1>2 DEF Control, HandlerType
<1>4. Unbroken' /\ OkMeansAllProven' /\ SeenCancelStops'
  BY <1>1, <1>2 DEF Control, Unbroken, OkMeansAllProven, Watched, SeenCancelStops
<1>5. Counted' /\ Noticed'
  BY <1>1, <1>2 DEF Control, Counted, Noticed, Working
<1> QED BY <1>3, <1>4, <1>5 DEF Control

LEMMA ControlStep == Daemon /\ Control /\ [Next]_vars => Control'
<1> SUFFICES ASSUME Daemon, Control, [Next]_vars PROVE Control'
  OBVIOUS
<1>1. CASE \E start \in BOOLEAN : Receive(start)
  BY <1>1, ReceiveKeeps
<1>2. CASE AllChecked \/ CheckFinds \/ Launch \/ Base \/ Poll \/ Wait \/ StartServer
  BY <1>2, AllCheckedKeeps, StoppingKeeps, LaunchKeeps, BaseKeeps, PollKeeps, WaitKeeps, StartKeeps
<1>3. CASE CheckPasses \/ CheckBlind
  <2>1. AtCheck /\ Goto(GoesOn[pc]) /\ Unasked /\ UNCHANGED <<proven, seen>>
    BY <1>3 DEF CheckPasses, CheckBlind, history, Unasked
  <2>2. blind' \in BOOLEAN /\ (~seen \/ blind')
    BY <1>3 DEF CheckPasses, CheckBlind, history, Answered, Control, HandlerType, Noticed
  <2> QED BY <2>1, <2>2, CheckingKeeps
<1>4. CASE InspectFails \/ Interrupted \/ RemoveServer
  <2>1. pc \notin {"idle", "profile"} /\ ProfileFails /\ Unasked /\ UNCHANGED <<proven, blind>>
    BY <1>4 DEF InspectFails, Interrupted, RemoveServer, history, Unasked
  <2>2. seen' = seen \/ (seen' = TRUE /\ asked # "nothing")
    BY <1>4 DEF InspectFails, Interrupted, RemoveServer, history
  <2> QED BY <2>1, <2>2, FailingKeeps
<1>5. CASE StopContainer
  <2>1. pc \in {"stop", "start"} /\ StartNext(1) /\ Unasked /\ UNCHANGED <<proven, blind, seen>>
    BY <1>5 DEF StopContainer, history, Unasked
  <2>2. 1 \in Nat \ {0}
    OBVIOUS
  <2> QED BY <2>1, <2>2, ListingKeeps
<1>6. CASE Environment \/ UNCHANGED vars
  <2>1. UNCHANGED <<single, pc, startAfter, p, i, watch, steady, failed, outcome, history>>
    BY <1>6 DEF Environment, Stop, Exits, StartedByHand, RemovedByHand, PolicyRestarts, Container, vars
  <2>2. asked' = asked \/ (pc # "idle" /\ asked' \in {"cancel", "terminate"})
    BY <1>6 DEF Environment, Stop, Exits, StartedByHand, RemovedByHand, PolicyRestarts, Container, vars
  <2> QED BY <2>1, <2>2, OutsideKeeps
<1> QED BY <1>1, <1>2, <1>3, <1>4, <1>5, <1>6 DEF Next, Handler

(* The monitor's state is well typed, its verdict rests on the unbroken run *)
(* of the container, its report on the profiles proven, and a stop that it *)
(* has noticed has failed the profile it was in.                           *)
THEOREM MonitorInvariant == Spec => []MonitorInv
<1>1. Init => MonitorInv
  BY MonitorInit
<1>2. MonitorInv /\ [Next]_vars => MonitorInv'
  <2> SUFFICES ASSUME MonitorInv, [Next]_vars PROVE MonitorInv'
    OBVIOUS
  <2>1. Daemon /\ Control
    BY InvSplit
  <2>2. Daemon' /\ Control'
    BY <2>1, DaemonStep, ControlStep
  <2>3. TypeOK'
    BY <2>2, TypeSplit DEF Control, TypeOK, Daemon, HandlerType
  <2> QED BY <2>2, <2>3 DEF Control, MonitorInv
<1> QED BY <1>1, <1>2, PTL DEF Spec

(* Whatever a call answers, MonitorCheck keeps its variables in their types.*)
THEOREM MonitorTypes == Spec => []TypeOK
<1>1. MonitorInv => TypeOK
  BY DEF MonitorInv
<1> QED BY <1>1, MonitorInvariant, PTL

(* "ok" is reported only when every monitor was proven stable and no stop   *)
(* was noticed.                                                            *)
THEOREM OkIsProven == Spec => []OkMeansAllProven
<1>1. MonitorInv => OkMeansAllProven
  BY DEF MonitorInv
<1> QED BY <1>1, MonitorInvariant, PTL

(* After a noticed stop no profile is begun unless a check was answered by  *)
(* an error.                                                               *)
THEOREM NoticedStops == Spec => []SeenCancelStops
<1>1. MonitorInv => SeenCancelStops
  BY DEF MonitorInv
<1> QED BY <1>1, MonitorInvariant, PTL

(* Only a poll proves a profile, and only one that found the container up   *)
(* for the stable time with fewer restarts than the threshold.             *)
LEMMA ProvenByAPoll ==
  MonitorInv /\ [Next]_vars
    => [p \notin proven /\ p \in proven'
          => steady' >= Stable /\ restarts[Monitored] - base < Threshold]_vars
<1> SUFFICES ASSUME MonitorInv, [Next]_vars, p \notin proven, p \in proven'
             PROVE  steady' >= Stable /\ restarts[Monitored] - base < Threshold
  OBVIOUS
<1>1. Daemon /\ Control
  BY InvSplit
<1>2. Poll
  <2>1. \A start \in BOOLEAN : ~Receive(start)
    BY DEF Receive
  <2>2. ~(CheckBlind \/ CheckFinds \/ Interrupted)
    BY DEF CheckBlind, CheckFinds, Interrupted
  <2>3. ~(AllChecked \/ CheckPasses \/ Launch \/ Base \/ InspectFails \/ Wait
            \/ RemoveServer \/ StopContainer \/ StartServer)
    BY DEF AllChecked, CheckPasses, Launch, Base, InspectFails, Wait,
           RemoveServer, StopContainer, StartServer, history
  <2>4. ~(Environment \/ UNCHANGED vars)
    BY DEF Environment, Stop, Exits, StartedByHand, RemovedByHand, PolicyRestarts,
           Container, vars, history
  <2> QED BY <2>1, <2>2, <2>3, <2>4 DEF Next, Handler
<1>3. steady' >= Stable /\ ~Restarting
  BY <1>1, <1>2, PollKeeps
<1>4. restarts[Monitored] \in Nat /\ base \in Nat
  BY <1>1, <1>2, InTheList, Times DEF Poll, Daemon, Control, HandlerType
<1> QED BY <1>3, <1>4, Times DEF Restarting

(* A monitor is taken for stable only on those grounds.                    *)
THEOREM StableIsSteady == Spec => SuccessMeansStable
<1> QED BY MonitorInvariant, ProvenByAPoll, PTL DEF Spec, SuccessMeansStable
=============================================================================
