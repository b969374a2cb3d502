-------------------------------- MODULE Update --------------------------------
(***************************************************************************)
(* Updating the game install (CheckUpdate and CheckValidate of             *)
(* internal/runtime/runtime.go): remove all servers, delete steam's        *)
(* manifest, let steamcmd validate, put the metamod line into gameinfo.gi, *)
(* and for CheckUpdate hand over to the monitor.  Steamcmd, the docker     *)
(* daemon and the disk are external: any call may fail, steamcmd may be    *)
(* killed at any moment, the agent may crash between any two steps.        *)
(***************************************************************************)
EXTENDS Naturals, Sequences, SequencesExt

CONSTANTS
  Servers,       \* configured servers
  Stock,         \* gameinfo.gi as steam delivers it, line by line
  NoManifest,    \* there is no appmanifest
  Torn,          \* there is one without a build id
  MaxBuild       \* bound: last build steam releases

(* Lines of gameinfo.gi: the "Game csgo" search path, the metamod search   *)
(* path and all others.                                                    *)
Lines == {"csgo", "metamod", "other"}

ASSUME UpdateAssumption ==
  /\ Stock \in Seq(Lines)
  /\ \E k \in DOMAIN Stock : Stock[k] = "csgo"
  /\ \A k \in DOMAIN Stock : Stock[k] # "metamod"
  /\ MaxBuild \in Nat \ {0}
  /\ NoManifest \notin 1..MaxBuild
  /\ Torn \notin 1..MaxBuild \cup {NoManifest}

VARIABLES
  up,          \* servers that have a container (docker, external)
  \* disk
  files,       \* the install is "whole", or "partial" since a validate began
  build,       \* build of the last validate that came to its end
  manifest,    \* build id in steam's appmanifest
  gameinfo,    \* lines of gameinfo.gi
  \* steam (external)
  released,    \* newest build
  steam,       \* the steamcmd process: off, installing, installed (files are
               \* in place), recorded (and the manifest written)
  \* handler
  pc, command, before, left,
  outcome      \* how the last command ended

disk == <<files, build, manifest, gameinfo>>
vars == <<up, disk, released, steam, pc, command, before, left, outcome>>

Builds    == 1..MaxBuild
Manifests == Builds \cup {NoManifest, Torn}

TypeOK ==
  /\ up \subseteq Servers
  /\ files \in {"whole", "partial"}
  /\ build \in Builds
  /\ manifest \in Manifests
  /\ gameinfo \in Seq(Lines)
  /\ released \in Builds
  /\ steam \in {"off", "installing", "installed", "recorded"}
  /\ pc \in {"idle", "remote", "remove", "cleanup", "launch", "running", "killed",
             "aborted", "exited", "patch", "reread", "monitor"}
  /\ command \in {"update", "validate"}
  /\ before \in Manifests
  /\ left \subseteq Servers
  /\ outcome \in {"none", "latest", "validated", "monitored", "failed", "lost"}
-----------------------------------------------------------------------------
NeverMarked(lines) == FALSE

(* insertMetamodSearchPath: once, on a line of its own before the first    *)
(* "Game csgo".                                                            *)
Marked(lines)     == \E k \in DOMAIN lines : lines[k] = "metamod"
Insertable(lines) == \E k \in DOMAIN lines : lines[k] = "csgo"

InsertsAfter(lines) ==
  InsertAt(lines, SelectInSeq(lines, LAMBDA l : l = "csgo") + 1, "metamod")

Inserted(lines) ==
  InsertAt(lines, SelectInSeq(lines, LAMBDA l : l = "csgo"), "metamod")

Init ==
  /\ up \in SUBSET Servers
  /\ files = "whole"
  /\ build = 1
  /\ manifest = 1
  /\ gameinfo \in {Stock, Inserted(Stock)}
  /\ released = 1
  /\ steam = "off"
  /\ pc = "idle"
  /\ command = "update"
  /\ before = NoManifest
  /\ left = {}
  /\ outcome = "none"

End(o) == /\ pc' = "idle"
          /\ outcome' = o
          /\ UNCHANGED <<command, before, left>>

Goto(p) == /\ pc' = p
           /\ UNCHANGED <<command, before, left, outcome>>

(* The command arrives: the local build is read, which fails when the disk *)
(* does or the manifest has none; an update that knows it asks steam for   *)
(* the newest, everything else goes straight to validate.                  *)
Receive(c) ==
  /\ pc = "idle"
  /\ command' = c
  /\ before' = manifest
  /\ left' = Servers
  /\ \/ pc' = "idle" /\ outcome' = "failed"
     \/ /\ manifest # Torn
        /\ pc' = IF c = "update" /\ manifest # NoManifest THEN "remote" ELSE "remove"
        /\ outcome' = "none"
  /\ UNCHANGED <<up, disk, released, steam>>

Latest == before = released

(* GetRemoteBuild and the comparison. *)
Compare ==
  /\ pc = "remote"
  /\ IF Latest THEN End("latest") ELSE Goto("remove")
  /\ UNCHANGED <<up, disk, released, steam>>

(* RemoveAll, one server after the other. *)
RemoveServer(s) ==
  /\ pc = "remove"
  /\ s \in left
  /\ up' = up \ {s}
  /\ left' = left \ {s}
  /\ UNCHANGED <<disk, released, steam, pc, command, before, outcome>>

Removed ==
  /\ pc = "remove"
  /\ left = {}
  /\ Goto("cleanup")
  /\ UNCHANGED <<up, disk, released, steam>>

Emptied == 0

KeepsManifest == manifest

AfterCleanup == NoManifest

(* cleanupSteamapps. *)
Cleanup ==
  /\ pc = "cleanup"
  /\ manifest' = AfterCleanup
  /\ Goto("launch")
  /\ UNCHANGED <<up, files, build, gameinfo, released, steam>>

(* A step before or after steamcmd fails, or its check finds the command   *)
(* cancelled; docker or the disk may have done their part.  gameinfo.gi or *)
(* the manifest cannot be read, or gameinfo.gi cannot be opened for        *)
(* writing: both are left as they are.                                     *)
Fails ==
  /\ \/ pc \in {"remote", "launch", "patch", "reread"} /\ UNCHANGED <<up, manifest>>
     \/ pc = "remove" /\ UNCHANGED manifest
        /\ \E s \in left : up' \in {up, up \ {s}}
     \/ pc = "cleanup" /\ UNCHANGED up /\ manifest' \in {manifest, AfterCleanup}
  /\ End("failed")
  /\ UNCHANGED <<files, build, gameinfo, released, steam>>
-----------------------------------------------------------------------------
(* runProcessWithLiveOutputUntil starts steamcmd. *)
Launch ==
  /\ pc = "launch"
  /\ steam' = "installing"
  /\ files' = "partial"
  /\ Goto("running")
  /\ UNCHANGED <<up, build, manifest, gameinfo, released>>

(* Steamcmd restores every file, a patched gameinfo.gi too unless it was   *)
(* left as it is; then it writes the manifest.                             *)
Installs ==
  /\ steam = "installing"
  /\ steam' = "installed"
  /\ files' = "whole"
  /\ build' = released
  /\ gameinfo' \in {Stock} \cup ({gameinfo} \cap {Inserted(Stock)})
  /\ UNCHANGED <<up, manifest, released, pc, command, before, left, outcome>>

Records ==
  /\ steam = "installed"
  /\ steam' = "recorded"
  /\ manifest' = build
  /\ UNCHANGED <<up, files, build, gameinfo, released, pc, command, before, left, outcome>>

(* It exits by itself: with status 0 when all is done, else with an error. *)
Exits ==
  /\ steam # "off"
  /\ steam' = "off"
  /\ IF pc = "running" THEN Goto(IF steam = "recorded" THEN "exited" ELSE "aborted")
                       ELSE UNCHANGED <<pc, command, before, left, outcome>>
  /\ UNCHANGED <<up, disk, released>>

(* The stop condition recognises its success message or its last state and *)
(* kills it; or the hour, or the agent's context, is over.                 *)
MarkerSeen ==
  /\ pc = "running"
  /\ steam \in {"installed", "recorded"}
  /\ Goto("killed")
  /\ UNCHANGED <<up, disk, released, steam>>

Aborts ==
  /\ pc \in {"running", "killed", "exited"}
  /\ Goto("aborted")
  /\ UNCHANGED <<up, disk, released, steam>>

(* Killed while it writes the manifest it may leave a part of it.          *)
Halt == /\ steam' = "off"
        /\ manifest' \in IF steam = "installed" THEN {manifest, Torn, build} ELSE {manifest}

(* The kill reaches steamcmd; when a wrapper script was started only the   *)
(* script dies and steamcmd goes on to its end.                            *)
Dies ==
  /\ pc \in {"killed", "aborted"}
  /\ steam # "off"
  /\ Halt
  /\ UNCHANGED <<up, files, build, gameinfo, released, pc, command, before, left, outcome>>

Unwatched == TRUE

(* Both readers have met the end of their pipe: nobody holds the other end. *)
(* An assumption on steamcmd's output is in this: a reader that gives up on *)
(* a line longer than a MiB counts as done too, and with both given up the  *)
(* handler returns, with an error, while steamcmd lives on                 *)
(* (ProcessRunner, NobodyOutlives).                                        *)
Drained == steam = "off"

Returns ==
  /\ pc \in {"exited", "killed", "aborted"}
  /\ Drained
  /\ IF pc = "aborted" THEN End("failed") ELSE Goto("patch")
  /\ UNCHANGED <<up, disk, released, steam>>
-----------------------------------------------------------------------------
(* ensureMetamodPath. *)
Patch ==
  /\ pc = "patch"
  /\ IF Marked(gameinfo) \/ Insertable(gameinfo) THEN Goto("reread") ELSE End("failed")
  /\ gameinfo' = IF ~Marked(gameinfo) /\ Insertable(gameinfo)
                 THEN Inserted(gameinfo) ELSE gameinfo
  /\ UNCHANGED <<up, files, build, manifest, released, steam>>

(* WriteFile truncates the file first: a full disk or a crash leaves the    *)
(* beginning of it.                                                        *)
PatchTears(o) ==
  /\ pc = "patch"
  /\ ~Marked(gameinfo) /\ Insertable(gameinfo)
  /\ \E n \in 0..Len(gameinfo) : gameinfo' = SubSeq(Inserted(gameinfo), 1, n)
  /\ End(o)
  /\ UNCHANGED <<up, files, build, manifest, released, steam>>

(* The build id is read again: one without an id is an error (one that     *)
(* cannot be read too, see Fails), a missing manifest is none.             *)
Reread ==
  /\ pc = "reread"
  /\ IF manifest = Torn THEN End("failed")
     ELSE IF command = "validate" THEN End("validated") ELSE Goto("monitor")
  /\ UNCHANGED <<up, disk, released, steam>>

(* MonitorCheck starts the monitor server and then the others, and removes *)
(* a monitor server that failed.                                           *)
MonitorActs(s) ==
  /\ pc = "monitor"
  /\ up' \in {up \cup {s}, up \ {s}}
  /\ UNCHANGED <<disk, released, steam, pc, command, before, left, outcome>>

MonitorReturns ==
  /\ pc = "monitor"
  /\ End("monitored") \/ End("failed")
  /\ UNCHANGED <<up, disk, released, steam>>
-----------------------------------------------------------------------------
(* Another command starts or removes a server. *)
OtherCommand(s) ==
  /\ pc = "idle"
  /\ up' \in {up \cup {s}, up \ {s}}
  /\ UNCHANGED <<disk, released, steam, pc, command, before, left, outcome>>

Release ==
  /\ released < MaxBuild
  /\ released' = released + 1
  /\ UNCHANGED <<up, disk, steam, pc, command, before, left, outcome>>

(* systemd ends what the agent started with it and starts another agent.   *)
Crash ==
  /\ pc # "idle"
  /\ End("lost")
  /\ Halt
  /\ UNCHANGED <<up, files, build, gameinfo, released>>

Steam == Installs \/ Records \/ Exits \/ Dies \/ Release

Handler == \/ Compare \/ Removed \/ Cleanup \/ Fails \/ Launch
           \/ MarkerSeen \/ Aborts \/ Returns \/ Patch \/ Reread \/ MonitorReturns
           \/ \E s \in Servers : RemoveServer(s) \/ MonitorActs(s)
           \/ \E o \in {"failed", "lost"} : PatchTears(o)

Next == \/ \E c \in {"update", "validate"} : Receive(c)
        \/ Handler \/ Steam \/ Crash
        \/ \E s \in Servers : OtherCommand(s)

Spec == Init /\ [][Next]_vars
-----------------------------------------------------------------------------
(* Steamcmd never works on the install while a server has a container: not *)
(* after a kill either, because the handler outlives every process that    *)
(* still writes to the pipes.                                              *)
NoServerWhileInstalling == steam # "off" => up = {}

(* "Already latest version" is true: the install is whole and has the      *)
(* newest build, also after validates that were killed or lost.            *)
SkipsOnlyWhole ==
  [][pc = "remote" /\ outcome' = "latest"
       => files = "whole" /\ build = released /\ manifest = build]_vars

(* gameinfo.gi is the one steam delivers with a metamod line put in front  *)
(* of its first "Game csgo" line.                                          *)
Patched ==
  \E k \in DOMAIN Stock :
    /\ Stock[k] = "csgo"
    /\ \A j \in 1..(k - 1) : Stock[j] # "csgo"
    /\ gameinfo = [j \in 1..(Len(Stock) + 1) |->
                     IF j < k THEN Stock[j] ELSE IF j = k THEN "metamod" ELSE Stock[j - 1]]

(* CheckUpdate starts servers only on a whole install with the metamod     *)
(* line, whatever earlier runs left on the disk.                           *)
UpdateStartsPatched ==
  [][pc = "monitor" /\ up' # up => files = "whole" /\ Patched]_vars

(* A successful validate repairs: the install is whole and gameinfo.gi has *)
(* its one metamod line before "Game csgo", though an earlier run may have *)
(* died in the middle of writing it.                                       *)
ValidateRepairs ==
  outcome \in {"validated", "monitored"} => files = "whole" /\ Patched

=============================================================================
