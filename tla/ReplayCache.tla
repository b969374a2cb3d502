----------------------------- MODULE ReplayCache -----------------------------
(***************************************************************************)
(* The replay files of one target (internal/runtime/runtime.go): the list  *)
(* cache that the handler, the warmer and background refreshes fill by     *)
(* walking the directory, and the import that adds a file and invalidates  *)
(* the cache.  Game servers write and delete replays in the same           *)
(* directory.  A walk reads the names, then the files, then stores.  The   *)
(* target is enabled and allows uploads and downloads.                     *)
(***************************************************************************)
EXTENDS Naturals, FiniteSets

CONSTANTS
  Names,         \* replay files
  Main,          \* the goroutine that executes commands
  Warm,          \* warmReplayFileLists
  Refreshers,    \* bound: background refreshes at work at a time
  None,          \* no cache entry, no file
  MaxFaults,     \* bound: failures and crashes
  MaxDiskEvents  \* bound: files written or deleted by the game servers

Walkers == {Main, Warm} \cup Refreshers

ASSUME ReplayAssumption ==
  /\ Main # Warm
  /\ Main \notin Refreshers
  /\ Warm \notin Refreshers
  /\ None \notin Names
  /\ \A files \in SUBSET Names : None # files
  /\ {MaxFaults, MaxDiskEvents} \subseteq Nat

VARIABLES
  \* disk
  disk,        \* the target directory: a file is absent, a game server's
               \* ("theirs") or one the agent has imported ("ours")
  \* agent
  cache,       \* the entry of replayLists: the names it holds
  expired,     \* its ExpiresAt is over
  walk,        \* each goroutine's walk: off, begun, reading
  found,       \* names it has read from the directory
  importPc,    \* the handler
  name,        \* the file it imports
  \* history
  imported,    \* files of completed imports that are still there
  overtaken,   \* those a walk had missed that was still to be stored
  unseen,       \* files the import's look at the target cannot have seen
  faults, diskEvents

walks        == <<walk, found>>
importVars   == <<importPc, name>>
cacheHistory == <<imported, overtaken, unseen>>
cacheVars    == <<disk, cache, expired, walks, importVars, cacheHistory, faults, diskEvents>>

CacheTypeOK ==
  /\ disk \in [Names -> {"absent", "theirs", "ours"}]
  /\ cache = None \/ cache \subseteq Names
  /\ expired \in BOOLEAN
  /\ walk \in [Walkers -> {"off", "begun", "reading"}]
  /\ found \in [Walkers -> SUBSET Names]
  /\ importPc \in {"idle", "walk", "download", "stat", "rename", "invalidate", "confirm"}
  /\ importPc = "walk" <=> walk[Main] # "off"
  /\ name \in Names \cup {None}
  /\ importPc \in {"idle", "walk"} <=> name = None
  /\ imported \subseteq Names
  /\ overtaken \subseteq Names
  /\ unseen \subseteq Names
  /\ {faults, diskEvents} \subseteq Nat

(* New starts the warmer before the first command is claimed. *)
CacheInit ==
  /\ disk \in [Names -> {"absent", "theirs"}]
  /\ cache = None
  /\ expired = FALSE
  /\ walk = [w \in Walkers |-> IF w = Warm THEN "begun" ELSE "off"]
  /\ found = [w \in Walkers |-> {}]
  /\ importPc = "idle"
  /\ name = None
  /\ imported = {}
  /\ overtaken = {}
  /\ unseen = {}
  /\ faults = 0
  /\ diskEvents = 0

Present == {n \in Names : disk[n] # "absent"}

Fault == /\ faults < MaxFaults
         /\ faults' = faults + 1

Goto(label) == /\ importPc' = label
               /\ UNCHANGED name

(* The command's result, an error among them, is reported. *)
EndCommand == /\ importPc' = "idle"
              /\ name' = None

Begin(w) == /\ walk' = [walk EXCEPT ![w] = "begun"]
            /\ UNCHANGED found
-----------------------------------------------------------------------------
(* listReplayFileEntries: an entry is served even when it has expired, a   *)
(* refresh is started behind it then.                                      *)
ListCached ==
  /\ importPc = "idle"
  /\ cache # None
  /\ EndCommand
  /\ IF expired THEN \E r \in Refreshers : walk[r] = "off" /\ Begin(r)
                ELSE UNCHANGED walks
  /\ UNCHANGED <<disk, cache, expired, cacheHistory, faults, diskEvents>>

RefreshesBehind ==
  /\ importPc = "idle"
  /\ cache = None
  /\ EndCommand
  /\ Begin(Main)
  /\ UNCHANGED <<disk, cache, expired, cacheHistory, faults, diskEvents>>

(* Without an entry the handler walks itself. *)
ListMissing ==
  /\ importPc = "idle"
  /\ cache = None
  /\ Goto("walk")
  /\ Begin(Main)
  /\ UNCHANGED <<disk, cache, expired, cacheHistory, faults, diskEvents>>

(* filepath.Walk reads the names of the directory. *)
ReadNames(w) ==
  /\ walk[w] = "begun"
  /\ walk' = [walk EXCEPT ![w] = "reading"]
  /\ found' = [found EXCEPT ![w] = Present]
  /\ UNCHANGED <<disk, cache, expired, importVars, cacheHistory, faults, diskEvents>>

Ends(w) == /\ walk' = [walk EXCEPT ![w] = "off"]
           /\ found' = [found EXCEPT ![w] = {}]

(* Every file was still there when it was asked for; the list is stored    *)
(* over whatever the cache holds by now.                                   *)
Store(w) ==
  /\ walk[w] = "reading"
  /\ Ends(w)
  /\ cache' = found[w]
  /\ expired' = FALSE
  /\ IF w = Main THEN EndCommand ELSE UNCHANGED importVars
  /\ UNCHANGED <<disk, cacheHistory, faults, diskEvents>>

(* A file that is gone when its turn comes fails the whole walk, as does   *)
(* any other error; the warmer and a refresh try no further.               *)
WalkFails(w) ==
  /\ walk[w] # "off"
  /\ Ends(w)
  /\ IF found[w] \subseteq Present THEN Fault ELSE UNCHANGED faults
  /\ IF w = Main THEN EndCommand ELSE UNCHANGED importVars
  /\ UNCHANGED <<disk, cache, expired, cacheHistory, diskEvents>>

OnlyMissing == walk[Warm] = "off" /\ cache = None

(* The warmer's ticker: it walks whether or not there is an entry. *)
WarmerMayWalk == walk[Warm] = "off"

WarmerTicks ==
  /\ WarmerMayWalk
  /\ Begin(Warm)
  /\ UNCHANGED <<disk, cache, expired, importVars, cacheHistory, faults, diskEvents>>

Expire ==
  /\ cache # None /\ ~expired
  /\ expired' = TRUE
  /\ UNCHANGED <<disk, cache, walks, importVars, cacheHistory, faults, diskEvents>>
-----------------------------------------------------------------------------
(* ImportReplay; one command runs at a time, so the target's slot is free.  *)
ReceiveImport(n) ==
  /\ importPc = "idle"
  /\ importPc' = "download"
  /\ name' = n
  /\ UNCHANGED <<disk, cache, expired, walks, cacheHistory, faults, diskEvents>>

(* DownloadReplayAsset to a temporary file outside the target, then its     *)
(* size is compared with the limit.                                        *)
Download ==
  /\ importPc = "download"
  /\ Goto("stat") \/ EndCommand
  /\ UNCHANGED <<disk, cache, expired, walks, cacheHistory, faults, diskEvents>>

NothingThere == FALSE

Exists == disk[name] # "absent"

(* A file of that name is not replaced. *)
StatTarget ==
  /\ importPc = "stat"
  /\ IF Exists THEN EndCommand ELSE Goto("rename")
  /\ UNCHANGED <<disk, cache, expired, walks, cacheHistory, faults, diskEvents>>

(* Whatever else os.Stat returns counts as no file of that name. *)
StatFails ==
  /\ importPc = "stat"
  /\ Fault
  /\ unseen' = Names
  /\ Goto("rename")
  /\ UNCHANGED <<disk, cache, expired, walks, imported, overtaken, diskEvents>>

Rename ==
  /\ importPc = "rename"
  /\ unseen' = {}
  /\ disk' = [disk EXCEPT ![name] = "ours"]
  /\ Goto("invalidate")
  /\ UNCHANGED <<cache, expired, walks, imported, overtaken, faults, diskEvents>>

KeepsFresh == IF expired THEN None ELSE cache

(* replayLists.Delete of every key of the target. *)
Invalidated == None

Missed(w, n) == walk[w] = "reading" /\ n \notin found[w]

Invalidate ==
  /\ importPc = "invalidate"
  /\ cache' = Invalidated
  /\ expired' = FALSE
  /\ imported' = imported \cup ({name} \cap Present)
  /\ overtaken' = IF \E w \in Walkers : Missed(w, name) THEN overtaken \cup {name}
                                                        ELSE overtaken \ {name}
  /\ Goto("confirm")
  /\ UNCHANGED <<disk, walks, unseen, faults, diskEvents>>

(* The file is looked at once more; the result says if it is still there. *)
Confirm ==
  /\ importPc = "confirm"
  /\ EndCommand
  /\ UNCHANGED <<disk, cache, expired, walks, cacheHistory, faults, diskEvents>>

(* Any step of an import fails. *)
ImportFails ==
  /\ importPc \in {"download", "stat", "rename", "confirm"}
  /\ Fault
  /\ EndCommand
  /\ unseen' = {}
  /\ UNCHANGED <<disk, cache, expired, walks, imported, overtaken, diskEvents>>
-----------------------------------------------------------------------------
(* A game server writes a replay or somebody deletes one. *)
Creates(n) ==
  /\ diskEvents < MaxDiskEvents
  /\ disk[n] = "absent"
  /\ disk' = [disk EXCEPT ![n] = "theirs"]
  /\ unseen' = IF importPc = "rename" THEN unseen \cup {n} ELSE unseen
  /\ diskEvents' = diskEvents + 1
  /\ UNCHANGED <<cache, expired, walks, importVars, imported, overtaken, faults>>

Deletes(n) ==
  /\ diskEvents < MaxDiskEvents
  /\ disk[n] # "absent"
  /\ disk' = [disk EXCEPT ![n] = "absent"]
  /\ imported' = imported \ {n}
  /\ diskEvents' = diskEvents + 1
  /\ UNCHANGED <<cache, expired, walks, importVars, overtaken, unseen, faults>>

(* The agent dies and is started again: the cache is gone, files stay. *)
Crash ==
  /\ Fault
  /\ cache' = None
  /\ expired' = FALSE
  /\ walk' = [w \in Walkers |-> IF w = Warm THEN "begun" ELSE "off"]
  /\ found' = [w \in Walkers |-> {}]
  /\ importPc' = "idle"
  /\ name' = None
  /\ unseen' = {}
  /\ UNCHANGED <<disk, imported, overtaken, diskEvents>>

Import == \/ \E n \in Names : ReceiveImport(n)
          \/ Download \/ StatTarget \/ StatFails \/ Rename \/ Invalidate \/ Confirm \/ ImportFails

Walking == \E w \in Walkers : ReadNames(w) \/ Store(w) \/ WalkFails(w)

CacheNext ==
  \/ ListCached \/ ListMissing \/ Walking \/ WarmerTicks \/ Expire \/ Import \/ Crash
  \/ \E n \in Names : Creates(n) \/ Deletes(n)

CacheSpec == CacheInit /\ [][CacheNext]_cacheVars

(* A walk over a finite directory ends; the warmer's ticker runs for ever.  *)
FairCacheSpec ==
  /\ CacheSpec
  /\ \A w \in Walkers : WF_cacheVars(ReadNames(w)) /\ WF_cacheVars(Store(w))
  /\ WF_cacheVars(WarmerTicks)
-----------------------------------------------------------------------------
(* After an import the list shows the new replay, or there is none and the *)
(* next list command walks: no entry from before the import survives it.   *)
(* Only a walk that had read the names before the import and is stored     *)
(* after it can hide the file.                                             *)
ImportVisible ==
  cache # None => imported \ overtaken \subseteq cache

(* An import replaces no file that was there when it looked, only one that *)
(* a game server has written between that look and the rename, or one in a *)
(* place that could not be looked at.                                      *)
ImportKeepsTheirs ==
  [][\A n \in Names : disk[n] = "theirs" /\ disk'[n] = "ours" => n \in unseen]_cacheVars

(* However walks, expiry and imports overlap, a file that stays is listed   *)
(* in the end, though nobody asks for a list: the warmer repairs what an    *)
(* older walk has stored over a newer one.                                 *)
ListCatchesUp ==
  \A n \in Names :
    <>[](disk[n] # "absent") => <>[](cache = None \/ n \in cache)
=============================================================================
