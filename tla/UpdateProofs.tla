----------------------------- MODULE UpdateProofs -----------------------------
(***************************************************************************)
(* Proofs about Update, for every set of servers, every gameinfo.gi and    *)
(* every number of builds.                                                 *)
(***************************************************************************)
EXTENDS Update, SequenceTheorems, WellFoundedInduction, TLAPS

(* From the end of the removals to the return of the runner no server has  *)
(* a container, and steamcmd only lives inside that time.                  *)
NobodyHome ==
  /\ pc = "remote" => left = Servers
  /\ pc = "remove" => up \subseteq left
  /\ pc \in {"cleanup", "launch", "running", "killed", "aborted", "exited"} => up = {}
  /\ steam # "off" => pc \in {"running", "killed", "aborted"}

(* A manifest with a build id means a whole install of that build: it is   *)
(* gone before steamcmd touches the install and comes back after it.       *)
ManifestIsTrue ==
  /\ manifest \in Builds => files = "whole" /\ manifest = build
  /\ pc = "launch" \/ steam = "installing" => manifest = NoManifest
  /\ steam \in {"installed", "recorded"} => files = "whole"
  /\ pc = "remote" => before = manifest /\ before \in Builds

(* Steamcmd's gameinfo.gi is the stock one or still the patched one; it    *)
(* reaches ensureMetamodPath like that and leaves it patched.              *)
GameinfoInPlace ==
  /\ steam \in {"installed", "recorded"} \/ pc \in {"exited", "killed", "patch"}
       => gameinfo \in {Stock, Inserted(Stock)}
  /\ pc \in {"exited", "killed", "patch"} => files = "whole"
  /\ pc \in {"reread", "monitor"} \/ outcome \in {"validated", "monitored"}
       => files = "whole" /\ gameinfo = Inserted(Stock)
  /\ pc # "idle" => outcome = "none"

InstallInv == TypeOK /\ NobodyHome /\ ManifestIsTrue /\ GameinfoInPlace
-----------------------------------------------------------------------------
LEMMA BuildsAreNumbers == 1 \in Builds /\ NoManifest \notin Builds /\ Torn \notin Builds
                          /\ NoManifest # Torn
BY UpdateAssumption DEF Builds

(* A set of naturals has its least element. *)
LEMMA NatMin == ASSUME NEW S \in SUBSET Nat, S # {} PROVE /\ Min(S) \in S
                                                    /\ \A y \in S : Min(S) <= y
<1>1. PICK x \in S : \A y \in S : ~(<<y, x>> \in OpToRel(<, Nat))
  BY WFMin, NatLessThanWellFounded
<1>2. ASSUME NEW y \in S PROVE ~(y < x)
  <2>1. <<y, x>> \in OpToRel(<, Nat) <=> <<y, x>> \in Nat \X Nat /\ <<y, x>>[1] < <<y, x>>[2]
    BY Zenon DEF OpToRel
  <2> QED BY <1>1, <2>1
<1>3. \A y \in S : x <= y
  BY <1>2
<1> QED BY <1>3 DEF Min

(* SelectInSeq finds the first "Game csgo" line. *)
LEMMA FirstCsgo ==
  ASSUME NEW s \in Seq(Lines), Insertable(s)
  PROVE  LET k == SelectInSeq(s, LAMBDA l : l = "csgo")
         IN  /\ k \in DOMAIN s
             /\ s[k] = "csgo"
             /\ \A j \in 1..(k - 1) : s[j] # "csgo"
<1> DEFINE I == {j \in 1..Len(s) : s[j] = "csgo"}
           k == SelectInSeq(s, LAMBDA l : l = "csgo")
<1>1. DOMAIN s = 1..Len(s) /\ Len(s) \in Nat
  OBVIOUS
<1>2. I # {} /\ I \in SUBSET Nat
  BY <1>1 DEF Insertable
<1>3. k = Min(I)
  BY <1>2 DEF SelectInSeq
<1> HIDE DEF I, k
<1>4. k \in I /\ \A j \in I : k <= j
  BY <1>2, <1>3, NatMin
<1>5. k \in 1..Len(s) /\ s[k] = "csgo"
  BY <1>4 DEF I
<1>6. ASSUME NEW j \in 1..(k - 1), s[j] = "csgo" PROVE FALSE
  <2>1. j \in 1..Len(s) /\ j < k
    BY <1>1, <1>5
  <2>2. j \in I
    BY <1>6, <2>1 DEF I
  <2> QED BY <1>1, <1>4, <1>5, <2>1, <2>2
<1> QED BY <1>1, <1>5, <1>6 DEF k

(* What u \o v holds. *)
LEMMA Join ==
  ASSUME NEW S, NEW u \in Seq(S), NEW v \in Seq(S), NEW w, w = u \o v
  PROVE  /\ w \in Seq(S)
         /\ Len(w) = Len(u) + Len(v)
         /\ \A j \in 1..Len(u) : w[j] = u[j]
         /\ \A j \in 1..Len(v) : w[Len(u) + j] = v[j]
<1>1. Len(u) \in Nat /\ Len(v) \in Nat
  BY LenProperties
<1> QED BY <1>1, ConcatProperties

(* InsertAt moves the lines from k on by one. *)
LEMMA InsertIs ==
  ASSUME NEW s \in Seq(Lines), NEW k \in DOMAIN s
  PROVE  /\ InsertAt(s, k, "metamod") \in Seq(Lines)
         /\ InsertAt(s, k, "metamod") =
              [j \in 1..(Len(s) + 1) |->
                 IF j < k THEN s[j] ELSE IF j = k THEN "metamod" ELSE s[j - 1]]
<1>1. Len(s) \in Nat /\ k \in 1..Len(s) /\ \A j \in 1..Len(s) : s[j] \in Lines
  BY LenProperties
<1>2. PICK a : a = SubSeq(s, 1, k - 1)
  OBVIOUS
<1>3. PICK m : m = <<"metamod">>
  OBVIOUS
<1>4. PICK b : b = SubSeq(s, k, Len(s))
  OBVIOUS
<1>5. PICK am : am = a \o m
  OBVIOUS
<1>6. PICK t : t = am \o b
  OBVIOUS
<1>7. a \in Seq(Lines) /\ m \in Seq(Lines) /\ b \in Seq(Lines)
  BY <1>1, <1>2, <1>3, <1>4, SubSeqProperties DEF Lines
<1>8. /\ Len(a) = k - 1
      /\ \A j \in 1..(k - 1) : a[j] = s[j]
  BY <1>1, <1>2, SubSeqProperties
<1>9. Len(m) = 1 /\ m[1] = "metamod"
  BY <1>3
<1>10. /\ Len(b) = Len(s) - k + 1
       /\ \A j \in 1..(Len(s) - k + 1) : b[j] = s[k + j - 1]
  BY <1>1, <1>4, SubSeqProperties
<1>11. /\ am \in Seq(Lines)
       /\ Len(am) = Len(a) + Len(m)
       /\ \A j \in 1..Len(a) : am[j] = a[j]
       /\ \A j \in 1..Len(m) : am[Len(a) + j] = m[j]
  BY <1>5, <1>7, Join
<1>12. am \in Seq(Lines)
  BY <1>11
<1>13. /\ t \in Seq(Lines)
       /\ Len(t) = Len(am) + Len(b)
       /\ \A j \in 1..Len(am) : t[j] = am[j]
       /\ \A j \in 1..Len(b) : t[Len(am) + j] = b[j]
  BY <1>6, <1>7, <1>12, Join
<1>14. Len(am) = k /\ Len(t) = Len(s) + 1
  <2>1. Len(s) \in Int /\ k \in Int
    BY <1>1
  <2>2. Len(am) = (k - 1) + 1
    BY <1>8, <1>9, <1>11
  <2>3. Len(t) = Len(am) + (Len(s) - k + 1)
    BY <1>10, <1>13
  <2> QED BY <2>1, <2>2, <2>3
<1>15. ASSUME NEW j \in 1..(Len(s) + 1)
       PROVE  t[j] = IF j < k THEN s[j] ELSE IF j = k THEN "metamod" ELSE s[j - 1]
  <2>1. CASE j < k
    <3>1. j \in 1..Len(am) /\ j \in 1..Len(a) /\ j \in 1..(k - 1)
      BY <2>1, <1>1, <1>8, <1>14
    <3> QED BY <2>1, <3>1, <1>8, <1>11, <1>13
  <2>2. CASE j = k
    <3>1. j \in 1..Len(am) /\ 1 \in 1..Len(m) /\ Len(a) + 1 = j
      BY <2>2, <1>1, <1>8, <1>9, <1>14
    <3>2. am[j] = m[1]
      BY <3>1, <1>11
    <3> QED BY <2>2, <3>1, <3>2, <1>1, <1>9, <1>13
  <2>3. CASE j > k
    <3> DEFINE h == j - k
    <3>1. h \in 1..(Len(s) - k + 1) /\ k + h = j /\ k + h - 1 = j - 1
      BY <2>3, <1>1
    <3>2. h \in 1..Len(b) /\ Len(am) + h = j
      BY <3>1, <1>10, <1>14
    <3> HIDE DEF h
    <3>3. t[j] = b[h] /\ b[h] = s[j - 1]
      BY <3>1, <3>2, <1>10, <1>13
    <3> QED BY <2>3, <3>3, <1>1
  <2> QED BY <2>1, <2>2, <2>3, <1>1
<1>16. t = [j \in 1..(Len(s) + 1) |-> t[j]]
  BY <1>13, <1>14
<1>17. InsertAt(s, k, "metamod") = t
  BY <1>2, <1>3, <1>4, <1>5, <1>6 DEF InsertAt
<1> QED BY <1>13, <1>15, <1>16, <1>17

(* insertMetamodSearchPath puts the line before the first "Game csgo".     *)
LEMMA InsertedIs ==
  ASSUME NEW s \in Seq(Lines), Insertable(s)
  PROVE  /\ Inserted(s) \in Seq(Lines)
         /\ Len(Inserted(s)) = Len(s) + 1
         /\ \E k \in DOMAIN s :
              /\ s[k] = "csgo"
              /\ \A j \in 1..(k - 1) : s[j] # "csgo"
              /\ Inserted(s) = [j \in 1..(Len(s) + 1) |->
                                 IF j < k THEN s[j] ELSE IF j = k THEN "metamod" ELSE s[j - 1]]
<1> DEFINE k == SelectInSeq(s, LAMBDA l : l = "csgo")
<1>1. k \in DOMAIN s /\ s[k] = "csgo" /\ \A j \in 1..(k - 1) : s[j] # "csgo"
  BY FirstCsgo
<1>2. Inserted(s) = InsertAt(s, k, "metamod")
  BY DEF Inserted
<1> HIDE DEF k
<1>3. /\ Inserted(s) \in Seq(Lines)
      /\ Inserted(s) = [j \in 1..(Len(s) + 1) |->
                         IF j < k THEN s[j] ELSE IF j = k THEN "metamod" ELSE s[j - 1]]
  BY <1>1, <1>2, InsertIs
<1>4. Len(Inserted(s)) = Len(s) + 1
  BY <1>3
<1> QED BY <1>1, <1>3, <1>4

(* The stock file can be patched, and patched it is as UpdateStartsPatched *)
(* and ValidateRepairs want it.                                            *)
LEMMA StockFacts == /\ Stock \in Seq(Lines) /\ Insertable(Stock) /\ ~Marked(Stock)
                    /\ Inserted(Stock) \in Seq(Lines) /\ Marked(Inserted(Stock))
                    /\ gameinfo = Inserted(Stock) => Patched
<1>1. Stock \in Seq(Lines) /\ Insertable(Stock) /\ ~Marked(Stock)
  BY UpdateAssumption DEF Insertable, Marked
<1>2. PICK k \in DOMAIN Stock :
        /\ Stock[k] = "csgo"
        /\ \A j \in 1..(k - 1) : Stock[j] # "csgo"
        /\ Inserted(Stock) = [j \in 1..(Len(Stock) + 1) |->
                       IF j < k THEN Stock[j] ELSE IF j = k THEN "metamod" ELSE Stock[j - 1]]
  BY <1>1, InsertedIs
<1>3. k \in 1..(Len(Stock) + 1)
  BY <1>1
<1>4. Marked(Inserted(Stock))
  BY <1>2, <1>3 DEF Marked
<1>5. gameinfo = Inserted(Stock) => Patched
  BY <1>2 DEF Patched
<1> QED BY <1>1, <1>4, <1>5, InsertedIs

-----------------------------------------------------------------------------
LEMMA InstallInit == Init => InstallInv
<1> SUFFICES ASSUME Init PROVE InstallInv
  OBVIOUS
<1>1. TypeOK
  BY BuildsAreNumbers, StockFacts DEF Init, TypeOK, Manifests
<1> QED BY <1>1, BuildsAreNumbers
        DEF Init, InstallInv, NobodyHome, ManifestIsTrue, GameinfoInPlace

(* The types are kept by every step. *)
LEMMA TypeStep == TypeOK /\ [Next]_vars => TypeOK'
<1> SUFFICES ASSUME TypeOK, [Next]_vars PROVE TypeOK'
  OBVIOUS
<1> USE DEF TypeOK, Manifests, disk, End, Goto
<1>1. CASE Steam
  <2>1. ASSUME Release PROVE TypeOK'
    BY <2>1, UpdateAssumption DEF Release, Builds
  <2>2. ASSUME Installs PROVE TypeOK'
    BY <2>2, StockFacts DEF Installs
  <2> QED BY <1>1, <2>1, <2>2 DEF Steam, Records, Exits, Dies, Halt
<1>2. CASE Handler
  <2>1. ASSUME NEW s \in Servers, RemoveServer(s) \/ MonitorActs(s) PROVE TypeOK'
    BY <2>1 DEF RemoveServer, MonitorActs
  <2>2. ASSUME NEW o \in {"failed", "lost"}, PatchTears(o) PROVE TypeOK'
    <3>1. Inserted(gameinfo) \in Seq(Lines)
          /\ Len(Inserted(gameinfo)) = Len(gameinfo) + 1
      BY <2>2, InsertedIs DEF PatchTears
    <3>2. PICK n \in 0..Len(gameinfo) : gameinfo' = SubSeq(Inserted(gameinfo), 1, n)
      BY <2>2 DEF PatchTears
    <3>3. gameinfo' \in Seq(Lines)
      BY <3>1, <3>2
    <3> QED BY <2>2, <3>3 DEF PatchTears
  <2>3. ASSUME Fails PROVE TypeOK'
    BY <2>3 DEF Fails, AfterCleanup
  <2>4. ASSUME Patch PROVE TypeOK'
    BY <2>4, InsertedIs DEF Patch
  <2> QED BY <1>2, <2>1, <2>2, <2>3, <2>4
          DEF Handler, Compare, Removed, Cleanup, AfterCleanup, Launch, MarkerSeen,
              Aborts, Returns, Reread, MonitorReturns
<1>3. ASSUME Crash PROVE TypeOK'
  BY <1>3 DEF Crash, Halt
<1>4. ASSUME NEW s \in Servers, OtherCommand(s) PROVE TypeOK'
  BY <1>4 DEF OtherCommand
<1>5. ASSUME NEW c \in {"update", "validate"}, Receive(c) PROVE TypeOK'
  BY <1>5 DEF Receive
<1>6. CASE UNCHANGED vars
  BY <1>6 DEF vars
<1> QED BY <1>1, <1>2, <1>3, <1>4, <1>5, <1>6 DEF Next

(* No step lets a server and steamcmd meet. *)
LEMMA NobodyHomeStep == InstallInv /\ [Next]_vars => NobodyHome'
<1> SUFFICES ASSUME InstallInv, [Next]_vars PROVE NobodyHome'
  OBVIOUS
<1> USE DEF InstallInv, TypeOK, NobodyHome, disk, End, Goto
<1>1. CASE Steam
  BY <1>1 DEF Steam, Installs, Records, Exits, Dies, Halt, Release
<1>2. CASE Handler
  <2>1. ASSUME NEW s \in Servers, RemoveServer(s) PROVE NobodyHome'
    BY <2>1 DEF RemoveServer
  <2>2. ASSUME NEW s \in Servers, MonitorActs(s) PROVE NobodyHome'
    BY <2>2 DEF MonitorActs
  <2>3. ASSUME NEW o \in {"failed", "lost"}, PatchTears(o) PROVE NobodyHome'
    BY <2>3 DEF PatchTears
  <2>4. ASSUME Fails PROVE NobodyHome'
    BY <2>4 DEF Fails
  <2>5. ASSUME Returns PROVE NobodyHome'
    BY <2>5 DEF Returns, Drained
  <2> QED BY <1>2, <2>1, <2>2, <2>3, <2>4, <2>5
          DEF Handler, Compare, Removed, Cleanup, Launch, MarkerSeen, Aborts, Patch,
              Reread, MonitorReturns
<1>3. ASSUME Crash PROVE NobodyHome'
  BY <1>3 DEF Crash, Halt
<1>4. ASSUME NEW s \in Servers, OtherCommand(s) PROVE NobodyHome'
  BY <1>4 DEF OtherCommand
<1>5. ASSUME NEW c \in {"update", "validate"}, Receive(c) PROVE NobodyHome'
  BY <1>5 DEF Receive
<1>6. CASE UNCHANGED vars
  BY <1>6 DEF vars
<1> QED BY <1>1, <1>2, <1>3, <1>4, <1>5, <1>6 DEF Next

(* No step, a kill or a crash included, leaves a manifest that lies. *)
LEMMA ManifestStep == InstallInv /\ [Next]_vars => ManifestIsTrue'
<1> SUFFICES ASSUME InstallInv, [Next]_vars PROVE ManifestIsTrue'
  OBVIOUS
<1> USE BuildsAreNumbers DEF InstallInv, ManifestIsTrue, disk, End, Goto
<1>1. CASE Steam
  <2>1. ASSUME Installs PROVE ManifestIsTrue'
    BY <2>1 DEF Installs, NobodyHome, Builds
  <2>2. ASSUME Records PROVE ManifestIsTrue'
    BY <2>2 DEF Records, NobodyHome, Builds
  <2>3. ASSUME Exits PROVE ManifestIsTrue'
    BY <2>3 DEF Exits, Builds
  <2>4. ASSUME Dies PROVE ManifestIsTrue'
    BY <2>4 DEF Dies, Halt, Builds
  <2>5. ASSUME Release PROVE ManifestIsTrue'
    BY <2>5 DEF Release, Builds
  <2> QED BY <1>1, <2>1, <2>2, <2>3, <2>4, <2>5 DEF Steam
<1>2. CASE Handler
  <2>1. ASSUME NEW s \in Servers, RemoveServer(s) \/ MonitorActs(s)
        PROVE  ManifestIsTrue'
    BY <2>1 DEF RemoveServer, MonitorActs, Builds
  <2>2. ASSUME NEW o \in {"failed", "lost"}, PatchTears(o) PROVE ManifestIsTrue'
    BY <2>2 DEF PatchTears, Builds
  <2>3. ASSUME Fails PROVE ManifestIsTrue'
    BY <2>3 DEF Fails, AfterCleanup, NobodyHome, Builds
  <2>4. ASSUME Cleanup PROVE ManifestIsTrue'
    BY <2>4 DEF Cleanup, AfterCleanup, NobodyHome, Builds
  <2>5. ASSUME Launch PROVE ManifestIsTrue'
    BY <2>5 DEF Launch, NobodyHome, Builds
  <2> QED BY <1>2, <2>1, <2>2, <2>3, <2>4, <2>5
          DEF Handler, Compare, Removed, MarkerSeen, Aborts, Returns, Patch, Reread,
              MonitorReturns, Builds
<1>3. ASSUME Crash PROVE ManifestIsTrue'
  BY <1>3 DEF Crash, Halt, Builds
<1>4. ASSUME NEW s \in Servers, OtherCommand(s) PROVE ManifestIsTrue'
  BY <1>4 DEF OtherCommand, Builds
<1>5. ASSUME NEW c \in {"update", "validate"}, Receive(c) PROVE ManifestIsTrue'
  BY <1>5 DEF Receive, TypeOK, Manifests, Builds, NobodyHome
<1>6. CASE UNCHANGED vars
  BY <1>6 DEF vars, Builds
<1> QED BY <1>1, <1>2, <1>3, <1>4, <1>5, <1>6 DEF Next
(* What steamcmd delivers reaches the patch untouched, and the patched      *)
(* file the end of the command.                                            *)
LEMMA GameinfoStep == InstallInv /\ [Next]_vars => GameinfoInPlace'
<1> SUFFICES ASSUME InstallInv, [Next]_vars PROVE GameinfoInPlace'
  OBVIOUS
<1> USE DEF InstallInv, GameinfoInPlace, disk, End, Goto
<1>1. CASE Steam
  <2>1. ASSUME Installs PROVE GameinfoInPlace'
    BY <2>1 DEF Installs, NobodyHome
  <2>2. ASSUME Exits PROVE GameinfoInPlace'
    BY <2>2 DEF Exits, NobodyHome, ManifestIsTrue
  <2>3. ASSUME Dies PROVE GameinfoInPlace'
    BY <2>3 DEF Dies, Halt
  <2> QED BY <1>1, <2>1, <2>2, <2>3 DEF Steam, Records, Release
<1>2. CASE Handler
  <2>1. ASSUME NEW s \in Servers, RemoveServer(s) \/ MonitorActs(s)
        PROVE  GameinfoInPlace'
    BY <2>1 DEF RemoveServer, MonitorActs
  <2>2. ASSUME NEW o \in {"failed", "lost"}, PatchTears(o) PROVE GameinfoInPlace'
    BY <2>2 DEF PatchTears, NobodyHome
  <2>3. ASSUME Patch PROVE GameinfoInPlace'
    BY <2>3, StockFacts DEF Patch, NobodyHome
  <2>4. ASSUME Launch PROVE GameinfoInPlace'
    BY <2>4 DEF Launch
  <2>5. ASSUME MarkerSeen PROVE GameinfoInPlace'
    BY <2>5 DEF MarkerSeen, ManifestIsTrue
  <2>6. ASSUME Fails PROVE GameinfoInPlace'
    BY <2>6 DEF Fails, NobodyHome
  <2> QED BY <1>2, <2>1, <2>2, <2>3, <2>4, <2>5, <2>6
          DEF Handler, Compare, Removed, Cleanup, Aborts, Returns, Reread, MonitorReturns
<1>3. ASSUME Crash PROVE GameinfoInPlace'
  BY <1>3 DEF Crash, Halt
<1>4. ASSUME NEW s \in Servers, OtherCommand(s) PROVE GameinfoInPlace'
  BY <1>4 DEF OtherCommand
<1>5. ASSUME NEW c \in {"update", "validate"}, Receive(c) PROVE GameinfoInPlace'
  BY <1>5 DEF Receive
<1>6. CASE UNCHANGED vars
  BY <1>6 DEF vars
<1> QED BY <1>1, <1>2, <1>3, <1>4, <1>5, <1>6 DEF Next
-----------------------------------------------------------------------------
(* The facts about the install that hold between any two steps of an        *)
(* update, a validate, steamcmd and a crash.                               *)
THEOREM InstallInvariant == Spec => []InstallInv
<1>1. InstallInv /\ [Next]_vars => InstallInv'
  BY TypeStep, NobodyHomeStep, ManifestStep, GameinfoStep DEF InstallInv
<1> QED BY InstallInit, <1>1, PTL DEF Spec

(* Every variable has its type; gameinfo.gi stays a sequence of lines.     *)
THEOREM UpdateTypeCorrect == Spec => []TypeOK
BY InstallInvariant, PTL DEF InstallInv

(* CheckUpdate and CheckValidate never let steamcmd work on the install     *)
(* while a server has a container.                                         *)
THEOREM InstallsAlone == Spec => []NoServerWhileInstalling
<1>1. InstallInv => NoServerWhileInstalling
  BY DEF InstallInv, NobodyHome, NoServerWhileInstalling
<1> QED BY InstallInvariant, <1>1, PTL

(* CheckUpdate answers "Already latest version" only for a whole install of *)
(* the newest build.                                                       *)
THEOREM SkipIsSafe == Spec => SkipsOnlyWhole
<1> DEFINE Skip == pc = "remote" /\ outcome' = "latest"
                     => files = "whole" /\ build = released /\ manifest = build
<1>1. InstallInv /\ [Next]_vars => [Skip]_vars
  <2> SUFFICES ASSUME InstallInv, Next, pc = "remote", outcome' = "latest"
               PROVE  files = "whole" /\ build = released /\ manifest = build
    OBVIOUS
  <2>1. manifest = before /\ manifest = build /\ files = "whole" /\ pc # "idle"
    BY DEF InstallInv, ManifestIsTrue
  <2>2. before = released
    <3>1. outcome = "none"
      BY DEF InstallInv, GameinfoInPlace
    <3>2. CASE Compare
      BY <3>1, <3>2 DEF Compare, Latest, Goto
    <3>3. CASE Handler /\ ~Compare
      BY <3>1, <3>3 DEF Handler, Removed, Cleanup, Fails, Launch, MarkerSeen, Aborts, Returns,
                        Patch, Reread, MonitorReturns, RemoveServer, MonitorActs,
                        PatchTears, End, Goto
    <3>4. CASE Steam \/ Crash
      BY <3>1, <3>4 DEF Steam, Installs, Records, Exits, Dies, Release, Crash, End, Goto
    <3> QED BY <2>1, <3>2, <3>3, <3>4 DEF Next, Receive, OtherCommand
  <2> QED BY <2>1, <2>2
<1> QED BY InstallInvariant, <1>1, PTL DEF Spec, SkipsOnlyWhole
(* A validate that succeeds, or an update that comes to its end, leaves a   *)
(* whole install and gameinfo.gi with its one metamod line in place.       *)
THEOREM ValidateIsRepair == Spec => []ValidateRepairs
<1>1. InstallInv => ValidateRepairs
  BY StockFacts DEF InstallInv, GameinfoInPlace, ValidateRepairs
<1> QED BY InstallInvariant, <1>1, PTL

(* CheckUpdate starts servers only on a whole and patched install.         *)
THEOREM StartsArePatched == Spec => UpdateStartsPatched
<1>1. InstallInv /\ [Next]_vars
        => [pc = "monitor" /\ up' # up => files = "whole" /\ Patched]_vars
  BY StockFacts DEF InstallInv, GameinfoInPlace
<1> QED BY InstallInvariant, <1>1, PTL DEF Spec, UpdateStartsPatched
=============================================================================
