-------------------------- MODULE ServerConfigProofs --------------------------
(***************************************************************************)
(* Proofs about ServerConfig, for every file, any number of servers, modes,*)
(* settings, ports and variables.                                          *)
(***************************************************************************)
EXTENDS ServerConfig, SequenceTheorems, TLAPS

(* How far the load has come. *)
Loaded(places, n) ==
  LET around == file.around
      Offers(place) == place \in places /\ n \in around.dotenv[place]
                       /\ place \notin around.unreadable
  IN  IF n \in around.process THEN "process"
      ELSE IF Offers("beside") THEN "beside"
      ELSE IF Offers("here") THEN "here" ELSE "unset"

Progress ==
  /\ Len(servers) <= Len(file.servers)
  /\ stage \in Places \cup {"resolve", "targets"} => servers = <<>>
  /\ stage = "beside" => \A n \in Names : environment[n] = Loaded({}, n)
  /\ stage = "here" => \A n \in Names : environment[n] = Loaded({"beside"}, n)
  /\ stage \notin Places \cup {"refused"} => \A n \in Names : environment[n] = Loaded(Places, n)
  /\ stage \in {"targets", "expand", "validate", "loaded"}
       => \A n \in file.needed \ file.fallback : IsSet(n)

LoadInv == TypeOK /\ MostSpecificWins /\ Progress
-----------------------------------------------------------------------------
(* Types. *)
LEMMA FileTypes ==
  ASSUME file \in File
  PROVE  /\ file.defaults \in Layer
         /\ file.servers \in Seq(Server)
         /\ file.targets \in Seq(Target)
         /\ \A k \in ModeKeys : /\ file.modes[k].layer \in Layer
                                /\ file.modes[k].groups \in Seq(ModeKeys)
         /\ file.around \in Environment
         /\ file.needed \subseteq Names /\ file.fallback \subseteq Names
BY DEF File, Mode

LEMMA ServerTypes ==
  ASSUME NEW s \in Server
  PROVE  /\ s.layer \in Layer
         /\ s.mode \in ModeKeys \cup {None}
         /\ s.groups \in Seq(ModeKeys)
BY DEF Server

LEMMA NoLayerType == NoLayer \in Layer
BY DEF NoLayer, Layer

LEMMA ModeTypes ==
  ASSUME file \in File, NEW s \in Server
  PROVE  /\ ModeOf(s) \in ModeKeys \cup {None}
         /\ LayerOf(ModeOf(s)) \in Layer
         /\ Groups(s) \in Seq(ModeKeys)
<1>1. s.groups # <<>> => Head(s.groups) \in ModeKeys
  BY ServerTypes, HeadTailProperties
<1>2. ModeOf(s) \in ModeKeys \cup {None}
  BY <1>1, ServerTypes DEF ModeOf
<1>3. LayerOf(ModeOf(s)) \in Layer
  BY <1>2, FileTypes, NoLayerType DEF LayerOf
<1>4. Groups(s) \in Seq(ModeKeys)
  <2>1. CASE s.groups # <<>>
    BY <2>1, ServerTypes DEF Groups
  <2>2. CASE s.groups = <<>> /\ s.mode # None
    <3>1. s.mode \in ModeKeys
      BY <2>2, ServerTypes
    <3>2. <<s.mode>> \in Seq(ModeKeys) /\ file.modes[s.mode].groups \in Seq(ModeKeys)
      BY <3>1, FileTypes
    <3> QED BY <2>2, <3>2 DEF Groups
  <2>3. CASE s.groups = <<>> /\ s.mode = None
    <3>1. Groups(s) = <<>>
      BY <2>3 DEF Groups
    <3> QED BY <3>1
  <2> QED BY <2>1, <2>2, <2>3
<1> QED BY <1>2, <1>3, <1>4

LEMMA CopiesType == ASSUME NEW S, NEW l \in S, NEW n \in Nat
                    PROVE  Copies(l, n) \in Seq(S) /\ Len(Copies(l, n)) = n
BY DEF Copies
-----------------------------------------------------------------------------
(* Ports: what was appended comes off the end again.                       *)
LEMMA TrailingComesOff ==
  ASSUME NEW S, NEW x \in Seq(S), NEW y \in Seq(S)
  PROVE  WithoutTrailing(x \o y, Len(y)) = x
<1> DEFINE z == x \o y
<1>1. /\ z \in Seq(S) /\ Len(z) = Len(x) + Len(y)
      /\ \A i \in 1..Len(x) : z[i] = x[i]
  BY ConcatProperties
<1>2. Len(x) \in Nat /\ Len(y) \in Nat
  OBVIOUS
<1> HIDE DEF z
<1>3. WithoutTrailing(z, Len(y)) = SubSeq(z, 1, Len(x))
  BY <1>1, <1>2 DEF WithoutTrailing
<1>4. SubSeq(z, 1, Len(x)) \in Seq(S) /\ Len(SubSeq(z, 1, Len(x))) = Len(x)
      /\ \A i \in 1..Len(x) : SubSeq(z, 1, Len(x))[i] = z[i]
  BY <1>1, <1>2, SubSeqProperties
<1>5. SubSeq(z, 1, Len(x)) = x
  BY <1>1, <1>4, SeqEqual
<1> QED BY <1>3, <1>5 DEF z

Cur(s, m, d) == WithMode(WithDefaults(Decoded(s), d), m, Decoded(s))

LEMMA DecodedIs ==
  ASSUME NEW s \in Layer
  PROVE  /\ Decoded(s).given = s.given \cup {"restart"}
         /\ Decoded(s).flags = s.flags
         /\ Decoded(s).env = s.env
         /\ Decoded(s).ports = s.ports
BY DEF Decoded, Layer

LEMMA PortsAddUp ==
  ASSUME NEW s \in Layer, NEW m \in Layer, NEW d \in Layer
  PROVE  /\ Cur(s, m, d).ports = Copies("defaults", d.ports) \o Copies("mode", m.ports)
                                   \o Copies("server", s.ports)
         /\ Cur(s, m, d).ports \in Seq(Given)
<1> DEFINE D == Copies("defaults", d.ports)
           M == Copies("mode", m.ports)
           S == Copies("server", s.ports)
<1>1. d.ports \in Nat /\ m.ports \in Nat /\ s.ports \in Nat
  BY DEF Layer
<1>2. D \in Seq(Given) /\ M \in Seq(Given) /\ S \in Seq(Given) /\ Len(S) = s.ports
  BY <1>1, CopiesType DEF Given
<1>3. m.ports = 0 => M = <<>>
  BY <1>1, <1>2, CopiesType DEF Copies
<1>4. WithDefaults(Decoded(s), d).ports = D \o S
  BY DecodedIs DEF WithDefaults
<1>5. Cur(s, m, d).ports = IF m.ports = 0 THEN D \o S
                           ELSE WithoutTrailing(D \o S, s.ports) \o M \o S
  BY <1>4, DecodedIs DEF Cur, WithMode
<1> HIDE DEF D, M, S
<1>6. WithoutTrailing(D \o S, s.ports) = D
  BY <1>2, TrailingComesOff
<1>7. D \o M \in Seq(Given) /\ (M = <<>> => D \o M = D)
  BY <1>2, ConcatProperties, ConcatEmptySeq
<1>8. (D \o M) \o S \in Seq(Given)
  BY <1>2, <1>7, ConcatProperties
<1>9. Cur(s, m, d).ports = D \o M \o S
  BY <1>3, <1>5, <1>6, <1>7
<1> QED BY <1>8, <1>9 DEF D, M, S

(* Values, switches and environments before anything is derived.           *)
LEMMA CurType ==
  ASSUME NEW s \in Layer, NEW m \in Layer, NEW d \in Layer
  PROVE  /\ Cur(s, m, d).from \in [Scalars -> Given]
         /\ Cur(s, m, d).flags \in [Flags -> {"on", "off"}]
         /\ Cur(s, m, d).env \in [Vars -> Given]
BY DecodedIs DEF Cur, WithMode, WithDefaults, Given, Layer, BuiltIn

LEMMA CurDecides ==
  ASSUME NEW s \in Layer, NEW m \in Layer, NEW d \in Layer
  PROVE  /\ \A f \in Scalars \ {"restart"} :
              Cur(s, m, d).from[f] = Speaks(f \in s.given, f \in m.given, f \in d.given)
         /\ \A v \in Vars : Cur(s, m, d).env[v] = Speaks(v \in s.env, v \in m.env, v \in d.env)
         /\ \A x \in Flags : Cur(s, m, d).flags[x] = Choice(s, m, d, x)
<1> DEFINE W == WithDefaults(Decoded(s), d)
<1>1. ASSUME NEW f \in Scalars \ {"restart"}
      PROVE  Cur(s, m, d).from[f] = Speaks(f \in s.given, f \in m.given, f \in d.given)
  BY <1>1, DecodedIs DEF Cur, WithMode, WithDefaults, LeftOpen, Speaks
<1>2. ASSUME NEW v \in Vars
      PROVE  Cur(s, m, d).env[v] = Speaks(v \in s.env, v \in m.env, v \in d.env)
  BY <1>2, DecodedIs DEF Cur, WithMode, WithDefaults, Speaks
<1>3. ASSUME NEW x \in Flags
      PROVE  Cur(s, m, d).flags[x] = Choice(s, m, d, x)
  BY <1>3, DecodedIs DEF Cur, WithMode, WithDefaults, Choice
<1> QED BY <1>1, <1>2, <1>3

(* Deriving fills only what nobody has said.                               *)
Unfinished == [from  : [Scalars -> Given \cup {"derived"}],
               flags : [Flags -> {"on", "off"}],
               env   : [Vars -> Given],
               ports : Seq(Given)]

LEMMA DerivesOnly ==
  ASSUME NEW c \in Unfinished, NEW f \in Scalars, NEW possible \in BOOLEAN
  PROVE  /\ Derives(c, f, possible) \in Unfinished
         /\ \A g \in Scalars : c.from[g] # "none" => Derives(c, f, possible).from[g] = c.from[g]
         /\ Derives(c, f, possible).ports = c.ports
BY DEF Derives, Unfinished

LEMMA DerivesNames ==
  ASSUME NEW c \in Expanded, NEW f \in Scalars, NEW possible \in BOOLEAN
  PROVE  /\ Derives(c, f, possible) \in Expanded
         /\ \A g \in Scalars : c.from[g] # "none" => Derives(c, f, possible).from[g] = c.from[g]
         /\ Derives(c, f, possible).flags = c.flags
         /\ Derives(c, f, possible).env = c.env
         /\ Derives(c, f, possible).ports = c.ports
BY DEF Derives, Expanded

LEMMA GivenIsKnown == Seq(Given) \subseteq Seq(Given \cup {"own"}) /\ "own" \notin Given
                      /\ Copies("own", 2) \in Seq(Given \cup {"own"})
<1>1. Seq(Given) \subseteq Seq(Given \cup {"own"})
  BY SeqMonotonic
<1>2. Copies("own", 2) \in Seq(Given \cup {"own"})
  BY CopiesType
<1> QED BY <1>1, <1>2 DEF Given

LEMMA FinalizedFollows ==
  ASSUME file \in File, NEW s \in Server
  PROVE  LET mode == LayerOf(ModeOf(s))
             cur  == WithMode(WithDefaults(Decoded(s.layer), file.defaults), mode, Decoded(s.layer))
         IN  /\ Finalized(cur, s) \in Expanded
             /\ FollowsLayers(Finalized(cur, s), s.layer, mode, file.defaults)
<1> DEFINE l == s.layer
           m == LayerOf(ModeOf(s))
           d == file.defaults
           c == Cur(l, m, d)
           named   == Derives(c, "label", ModeOf(s) # None)
           config  == Derives(named, "exec", s.slot /\ Groups(s) # <<>>)
           command == Derives(config, "command", TRUE)
           fin     == Finalized(c, s)
<1>1. l \in Layer /\ m \in Layer /\ d \in Layer
  BY ServerTypes, ModeTypes, FileTypes
<1>2. {"label", "exec", "command"} \subseteq Scalars
  BY ConfigAssumption
<1>3. c \in Unfinished
  <2> HIDE DEF l, m, d
  <2>0. /\ Cur(l, m, d).from \in [Scalars -> Given]
        /\ Cur(l, m, d).flags \in [Flags -> {"on", "off"}]
        /\ Cur(l, m, d).env \in [Vars -> Given]
    BY <1>1, CurType
  <2>1. /\ Cur(l, m, d).from \in [Scalars -> Given \cup {"derived"}]
        /\ Cur(l, m, d).ports \in Seq(Given)
    BY <1>1, <2>0, PortsAddUp
  <2>2. Cur(l, m, d) = [from |-> Cur(l, m, d).from, flags |-> Cur(l, m, d).flags,
                        env |-> Cur(l, m, d).env, ports |-> Cur(l, m, d).ports]
    BY DEF Cur, WithMode
  <2> QED BY <2>0, <2>1, <2>2 DEF Unfinished
<1> HIDE DEF c
<1>4. named \in Unfinished /\ \A g \in Scalars : c.from[g] # "none" => named.from[g] = c.from[g]
  BY <1>2, <1>3, DerivesOnly
<1> HIDE DEF named
<1>5. config \in Unfinished /\ \A g \in Scalars : named.from[g] # "none" => config.from[g] = named.from[g]
  <2>1. (s.slot /\ Groups(s) # <<>>) \in BOOLEAN
    BY DEF Server
  <2> QED BY <1>2, <1>4, <2>1, DerivesOnly
<1> HIDE DEF config
<1>6. command \in Unfinished /\ \A g \in Scalars : config.from[g] # "none" => command.from[g] = config.from[g]
  BY <1>2, <1>5, DerivesOnly
<1> HIDE DEF command
<1>7. /\ fin.from = command.from /\ fin.flags = c.flags /\ fin.env = c.env
      /\ fin.ports = IF c.ports = <<>> /\ s.port THEN Copies("own", 2) ELSE c.ports
      /\ fin.groups = Groups(s)
      /\ fin = [from |-> fin.from, flags |-> fin.flags, env |-> fin.env, ports |-> fin.ports,
                groups |-> fin.groups]
  BY DEF Finalized, command, config, named
<1> HIDE DEF fin
<1>8. fin \in Expanded
  <2>1. fin.from \in [Scalars -> Given \cup {"derived"}]
    BY <1>6, <1>7 DEF Unfinished
  <2>2. fin.flags \in [Flags -> {"on", "off"}] /\ fin.env \in [Vars -> Given \cup {"proxy"}]
    BY <1>3, <1>7 DEF Unfinished
  <2>3. fin.ports \in Seq(Given \cup {"own"})
    BY <1>3, <1>7, GivenIsKnown DEF Unfinished
  <2>4. fin.groups \in Seq(ModeKeys)
    BY <1>7, ModeTypes
  <2> QED BY <1>7, <2>1, <2>2, <2>3, <2>4 DEF Expanded
<1>9. FollowsLayers(fin, l, m, d)
  <2> HIDE DEF l, m, d
  <2>1. \A g \in Scalars : c.from[g] # "none" => fin.from[g] = c.from[g]
    BY <1>4, <1>5, <1>6, <1>7
  <2>2. \A g \in Scalars \ {"restart"} :
          Decided(Speaks(g \in l.given, g \in m.given, g \in d.given), fin.from[g])
    BY <1>1, <2>1, CurDecides DEF c, Decided
  <2>3. \A v \in Vars : Decided(Speaks(v \in l.env, v \in m.env, v \in d.env), fin.env[v])
    BY <1>1, <1>7, CurDecides DEF c, Decided
  <2>4. \A x \in Flags : fin.flags[x] = Choice(l, m, d, x)
    BY <1>1, <1>7, CurDecides DEF c
  <2>5. c.ports = Copies("defaults", d.ports) \o Copies("mode", m.ports) \o Copies("server", l.ports)
    BY <1>1, PortsAddUp DEF c
  <2> QED BY <1>7, <2>2, <2>3, <2>4, <2>5 DEF FollowsLayers
<1> QED BY <1>8, <1>9 DEF fin, c, Cur

LEMMA DerivedFollows ==
  ASSUME file \in File, NEW i \in DOMAIN servers, servers[i] \in Expanded,
         NEW s \in Layer, NEW m \in Layer, NEW d \in Layer,
         FollowsLayers(servers[i], s, m, d)
  PROVE  Derived(i) \in Expanded /\ FollowsLayers(Derived(i), s, m, d)
<1> DEFINE c == servers[i]
           e == [v \in Vars |-> IF c.env[v] = "none" /\ file.proxy /\ v \in ProxyVars
                                THEN "proxy" ELSE c.env[v]]
           x == [c EXCEPT !.env = e]
           possible == file.servers[i].slot /\ (c.from["label"] # "none" \/ c.groups # <<>>)
<1>1. "name" \in Scalars
  BY ConfigAssumption
<1>2. e \in [Vars -> Given \cup {"proxy"}] /\ \A v \in Vars : c.env[v] # "none" => e[v] = c.env[v]
  BY DEF Expanded
<1> HIDE DEF e
<1>3. x \in Expanded /\ x.from = c.from /\ x.flags = c.flags /\ x.env = e /\ x.ports = c.ports
  BY <1>2 DEF Expanded
<1> HIDE DEF x, possible
<1>4. Derived(i) = Derives(x, "name", possible)
  BY DEF Derived, x, e, possible
<1> QED
  <2> HIDE DEF c
  <2>1. possible \in BOOLEAN
    BY DEF possible
  <2>2. /\ Derived(i) \in Expanded
        /\ \A g \in Scalars : c.from[g] # "none" => Derived(i).from[g] = c.from[g]
        /\ Derived(i).flags = c.flags /\ Derived(i).env = e /\ Derived(i).ports = c.ports
    BY <1>1, <1>3, <1>4, <2>1, DerivesNames
  <2>3. FollowsLayers(c, s, m, d)
    BY DEF c
  <2>4. \A g \in Scalars \ {"restart"} :
          Decided(Speaks(g \in s.given, g \in m.given, g \in d.given), Derived(i).from[g])
    BY <2>2, <2>3 DEF FollowsLayers, Decided
  <2>5. \A v \in Vars : Decided(Speaks(v \in s.env, v \in m.env, v \in d.env), Derived(i).env[v])
    BY <1>2, <2>2, <2>3 DEF FollowsLayers, Decided
  <2> QED BY <2>2, <2>3, <2>4, <2>5 DEF FollowsLayers
-----------------------------------------------------------------------------
LEMMA Mapped == ASSUME NEW S, NEW T, NEW s \in Seq(S), NEW F,
                       F = [i \in DOMAIN s |-> F[i]], \A i \in DOMAIN s : F[i] \in T
                PROVE  F \in Seq(T) /\ Len(F) = Len(s) /\ DOMAIN F = DOMAIN s
<1>1. DOMAIN s = 1..Len(s) /\ Len(s) \in Nat
  BY LenProperties
<1>2. F \in [1..Len(s) -> T]
  BY <1>1
<1> QED BY <1>1, <1>2

LEMMA LoadInit == Init => LoadInv
<1> SUFFICES ASSUME Init PROVE LoadInv
  OBVIOUS
<1>1. file \in File
  BY ConfigAssumption DEF Init
<1>2. servers = <<>> /\ Len(servers) = 0 /\ DOMAIN servers = {} /\ servers \in Seq(Expanded)
  BY DEF Init
<1>3. Len(file.servers) \in Nat
  BY <1>1, FileTypes
<1>4. TypeOK
  BY <1>1, <1>2, FileTypes DEF Init, TypeOK, Places
<1>5. MostSpecificWins
  BY <1>2 DEF MostSpecificWins
<1>6. Progress
  BY <1>2, <1>3 DEF Init, Progress, Loaded, Places
<1> QED BY <1>4, <1>5, <1>6 DEF LoadInv

(* A stage that leaves the servers alone. *)
LEMMA ServersStay ==
  ASSUME MostSpecificWins, UNCHANGED <<file, servers>>
  PROVE  MostSpecificWins'
BY DEF MostSpecificWins, LayerOf, ModeOf

LEMMA AddsBeside ==
  ASSUME TypeOK, Progress, stage = "beside", Adds("beside"), UNCHANGED file
  PROVE  /\ environment' \in [Names -> {"unset", "process"} \cup Places]
         /\ "beside" \notin file.around.unreadable =>
              \A n \in Names : environment'[n] = Loaded({"beside"}, n)'
BY DEF TypeOK, Progress, Adds, Loaded, IsSet, Places

LEMMA AddsHere ==
  ASSUME TypeOK, Progress, stage = "here", UNCHANGED file,
         IF "here" \in file.around.unreadable THEN UNCHANGED environment ELSE Adds("here")
  PROVE  /\ environment' \in [Names -> {"unset", "process"} \cup Places]
         /\ \A n \in Names : environment'[n] = Loaded(Places, n)'
BY DEF TypeOK, Progress, Adds, Loaded, IsSet, Places

LEMMA LoadStep == LoadInv /\ [Next]_vars => LoadInv'
<1> SUFFICES ASSUME LoadInv, [Next]_vars PROVE LoadInv'
  OBVIOUS
<1>0. TypeOK /\ MostSpecificWins /\ Progress /\ file \in File /\ file.servers \in Seq(Server)
  BY FileTypes DEF LoadInv, TypeOK
<1>1. CASE LoadBeside
  <2>1. TypeOK' /\ Progress'
    BY <1>0, <1>1, AddsBeside DEF LoadBeside, TypeOK, Progress, Loaded, Places
  <2> QED BY <1>0, <1>1, <2>1, ServersStay DEF LoadBeside, LoadInv
<1>2. CASE LoadHere
  <2>1. TypeOK' /\ Progress'
    BY <1>0, <1>2, AddsHere DEF LoadHere, TypeOK, Progress, Places
  <2> QED BY <1>0, <1>2, <2>1, ServersStay DEF LoadHere, LoadInv
<1>3. CASE ResolveEnv
  <2>1. TypeOK' /\ Progress'
    BY <1>0, <1>3 DEF ResolveEnv, TypeOK, Progress, Loaded, IsSet, Places
  <2> QED BY <1>0, <1>3, <2>1, ServersStay DEF ResolveEnv, LoadInv
<1>4. CASE EnablesTargets
  <2>1. \A i \in DOMAIN targets : targets[i] \in Target
    BY <1>0, ElementOfSeq, LenProperties DEF TypeOK
  <2>2. \A i \in DOMAIN targets : [targets[i] EXCEPT !.enabled = @ \/ targets[i].path] \in Target
    BY <2>1 DEF Target
  <2>3. targets' = [i \in DOMAIN targets |-> [targets[i] EXCEPT !.enabled = @ \/ targets[i].path]]
    BY <1>4 DEF EnablesTargets
  <2>4. targets \in Seq(Target)
    BY <1>0 DEF TypeOK
  <2>5. targets' = [i \in DOMAIN targets |-> targets'[i]] /\ \A i \in DOMAIN targets : targets'[i] \in Target
    BY <2>2, <2>3
  <2>6. targets' \in Seq(Target)
    BY <2>4, <2>5, Mapped
  <2>7. TypeOK' /\ Progress'
    BY <1>0, <1>4, <2>6 DEF EnablesTargets, TypeOK, Progress, Loaded, IsSet, Places
  <2> QED BY <1>0, <1>4, <2>7, ServersStay DEF EnablesTargets, LoadInv
<1>5. CASE Expand
  <2> DEFINE k == Len(servers) + 1
             s == file.servers[k]
             cur == WithMode(WithDefaults(Decoded(s.layer), file.defaults),
                             LayerOf(ModeOf(s)), Decoded(s.layer))
             new == Finalized(cur, s)
  <2>1. /\ stage = "expand" /\ Len(servers) < Len(file.servers)
        /\ servers' = Append(servers, new)
        /\ UNCHANGED <<file, environment, targets, stage>>
    BY <1>5 DEF Expand
  <2>2. servers \in Seq(Expanded) /\ Len(servers) \in Nat /\ Len(file.servers) \in Nat
    BY <1>0 DEF TypeOK
  <2>3. s \in Server
    BY <1>0, <2>1, <2>2, ElementOfSeq
  <2> HIDE DEF s
  <2>4. new \in Expanded /\ FollowsLayers(new, s.layer, LayerOf(ModeOf(s)), file.defaults)
    BY <1>0, <2>3, FinalizedFollows
  <2> HIDE DEF new
  <2>5. /\ servers' \in Seq(Expanded) /\ Len(servers') = k
        /\ \A i \in 1..Len(servers) : servers'[i] = servers[i]
        /\ servers'[k] = new
    BY <2>1, <2>2, <2>4, AppendProperties
  <2>6. ASSUME NEW i \in DOMAIN servers'
        PROVE  FollowsLayers(servers'[i], file.servers[i].layer,
                             LayerOf(ModeOf(file.servers[i])), file.defaults)
    <3>1. i \in 1..Len(servers) \/ i = k
      BY <2>2, <2>5, LenProperties
    <3>2. CASE i \in 1..Len(servers)
      BY <1>0, <2>2, <2>5, <3>2, LenProperties DEF MostSpecificWins
    <3>3. CASE i = k
      BY <2>4, <2>5, <3>3 DEF s
    <3> QED BY <3>1, <3>2, <3>3
  <2>7. MostSpecificWins'
    BY <2>1, <2>6 DEF MostSpecificWins, LayerOf, ModeOf
  <2>8. TypeOK'
    BY <1>0, <2>1, <2>5 DEF TypeOK
  <2>9. Progress'
    BY <1>0, <2>1, <2>2, <2>5 DEF Progress, Loaded, IsSet, Places
  <2> QED BY <2>7, <2>8, <2>9 DEF LoadInv
<1>6. CASE Derive
  <2>1. /\ stage = "expand" /\ stage' = "validate"
        /\ servers' = [i \in DOMAIN servers |-> Derived(i)]
        /\ UNCHANGED <<file, environment, targets>>
    BY <1>6 DEF Derive
  <2>2. servers \in Seq(Expanded) /\ \A i \in DOMAIN servers : servers[i] \in Expanded
    BY <1>0, ElementOfSeq, LenProperties DEF TypeOK
  <2>3. \A i \in DOMAIN servers : file.servers[i] \in Server
    BY <1>0, <2>2, ElementOfSeq, LenProperties DEF Progress
  <2>4. ASSUME NEW i \in DOMAIN servers
        PROVE  /\ Derived(i) \in Expanded
               /\ FollowsLayers(Derived(i), file.servers[i].layer,
                                LayerOf(ModeOf(file.servers[i])), file.defaults)
    <3>1. /\ file.servers[i].layer \in Layer /\ file.defaults \in Layer
          /\ LayerOf(ModeOf(file.servers[i])) \in Layer
      BY <1>0, <2>3, ServerTypes, ModeTypes, FileTypes
    <3> QED BY <1>0, <2>2, <3>1, DerivedFollows DEF MostSpecificWins
  <2>5. /\ \A i \in DOMAIN servers : servers'[i] = Derived(i)
        /\ servers' = [i \in DOMAIN servers |-> servers'[i]]
    BY <2>1
  <2>6. servers' \in Seq(Expanded) /\ Len(servers') = Len(servers) /\ DOMAIN servers' = DOMAIN servers
    BY <2>2, <2>4, <2>5, Mapped
  <2>7. MostSpecificWins'
    BY <2>1, <2>4, <2>5, <2>6 DEF MostSpecificWins, LayerOf, ModeOf
  <2>8. TypeOK'
    BY <1>0, <2>1, <2>6 DEF TypeOK
  <2>9. Progress'
    BY <1>0, <2>1, <2>6 DEF Progress, Loaded, IsSet, Places
  <2> QED BY <2>7, <2>8, <2>9 DEF LoadInv
<1>7. CASE Validate
  <2>1. TypeOK' /\ Progress'
    BY <1>0, <1>7 DEF Validate, TypeOK, Progress, Loaded, IsSet, Places
  <2> QED BY <1>0, <1>7, <2>1, ServersStay DEF Validate, LoadInv
<1>8. CASE UNCHANGED vars
  <2>1. TypeOK' /\ Progress'
    BY <1>0, <1>8 DEF vars, TypeOK, Progress, Loaded, IsSet
  <2> QED BY <1>0, <1>8, <2>1, ServersStay DEF vars, LoadInv
<1> QED BY <1>1, <1>2, <1>3, <1>4, <1>5, <1>6, <1>7, <1>8 DEF Next

LEMMA LoadedIsFirst == LoadInv => ConfigInv
<1> SUFFICES ASSUME LoadInv PROVE EnvironmentFirst
  BY DEF LoadInv, ConfigInv
<1>1. servers # <<>> /\ stage \notin Places \cup {"refused"}
        => stage \in {"targets", "expand", "validate", "loaded"}
  BY DEF LoadInv, TypeOK, Progress, Places
<1> QED BY <1>1 DEF LoadInv, Progress, EnvironmentFirst, Loaded, Places

(* Of a configuration that is loaded, each server follows the most specific *)
(* layer that speaks and has each layer's ports once; the environment it    *)
(* was resolved in is the process's own before that of the .env files.      *)
THEOREM LayersDecide == Spec => []ConfigInv
<1>1. Spec => []LoadInv
  BY LoadInit, LoadStep, PTL DEF Spec
<1> QED BY <1>1, LoadedIsFirst, PTL
=============================================================================
