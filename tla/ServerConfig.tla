---------------------------- MODULE ServerConfig -----------------------------
(***************************************************************************)
(* Load of internal/config/config.go: two .env files add to the            *)
(* environment, references to it are resolved, and of the decoded file each *)
(* server is expanded from the defaults, its mode and its own settings,    *)
(* derived values are filled in, and the whole is validated.  A value is   *)
(* modelled by where it comes from, a list by where its elements do.       *)
(***************************************************************************)
EXTENDS Naturals, Sequences

CONSTANTS
  Names,         \* of environment variables
  Scalars,       \* settings of one value, "command" and "template" among them
  Flags,         \* settings that are on or off
  Vars,          \* keys of an environment
  ProxyVars,     \* those that docker_proxy_url fills
  Keys,          \* server keys
  ModeKeys,
  None,          \* no key
  Files          \* the decoded files to load

Layer == [given : SUBSET Scalars, flags : [Flags -> {"unset", "on", "off"}],
          env : SUBSET Vars, ports : Nat]

(* A mode may name groups; a server may have a mode, groups, and a slot    *)
(* above zero, a port above zero.                                          *)
Mode == [layer : Layer, groups : Seq(ModeKeys)]

Server == [layer : Layer, key : Keys \cup {None}, mode : ModeKeys \cup {None},
           groups : Seq(ModeKeys), slot : BOOLEAN, port : BOOLEAN]

Target == [key : Keys \cup {None}, path : BOOLEAN, enabled : BOOLEAN]

(* The .env beside the file and the one in the working directory. *)
Places == {"beside", "here"}

Environment == [process : SUBSET Names, dotenv : [Places -> SUBSET Names],
                unreadable : SUBSET Places]

(* needed: references ${NAME}; with a fallback: ${NAME:-text}. *)
File == [around : Environment, needed : SUBSET Names, fallback : SUBSET Names,
         defaults : Layer, modes : [ModeKeys -> Mode], servers : Seq(Server),
         targets : Seq(Target), proxy : BOOLEAN, api : BOOLEAN]

ASSUME ConfigAssumption ==
  /\ {"image", "name", "command", "template", "label", "exec", "restart"} \subseteq Scalars
  /\ ProxyVars \subseteq Vars
  /\ None \notin Keys \cup ModeKeys
  /\ Files \subseteq File
  /\ \A f \in Files :
       /\ f.defaults.given \cap {"name", "exec"} = {}
       /\ \A k \in ModeKeys :
            f.modes[k].layer.given \cap {"name", "exec", "image", "restart"} = {}

VARIABLES
  file,          \* as it is written, with what is around it
  environment,   \* where each variable of the process comes from
  servers, targets,
  stage

vars == <<file, environment, servers, targets, stage>>

Given == {"none", "defaults", "mode", "server"}

(* "derived" is computed by the agent, "own" is the server's single port.   *)
Expanded == [from : [Scalars -> Given \cup {"derived"}],
             flags : [Flags -> {"on", "off"}],
             env : [Vars -> Given \cup {"proxy"}],
             ports : Seq(Given \cup {"own"}),
             groups : Seq(ModeKeys)]

TypeOK ==
  /\ file \in File
  /\ environment \in [Names -> {"unset", "process"} \cup Places]
  /\ servers \in Seq(Expanded)
  /\ targets \in Seq(Target)
  /\ stage \in Places \cup {"resolve", "targets", "expand", "validate", "loaded", "refused"}

Init ==
  /\ file \in Files
  /\ environment = [n \in Names |-> IF n \in file.around.process THEN "process" ELSE "unset"]
  /\ servers = <<>>
  /\ targets = file.targets
  /\ stage = "beside"
-----------------------------------------------------------------------------
(* loadDotenv sets what is not set yet. *)
IsSet(n) == environment[n] # "unset"

Adds(place) ==
  environment' = [n \in Names |-> IF n \in file.around.dotenv[place] /\ ~IsSet(n)
                                  THEN place ELSE environment[n]]

LoadBeside ==
  /\ stage = "beside"
  /\ IF "beside" \in file.around.unreadable
     THEN stage' = "refused" /\ UNCHANGED environment
     ELSE stage' = "here" /\ Adds("beside")
  /\ UNCHANGED <<file, servers, targets>>

(* Errors of the second one are ignored. *)
LoadHere ==
  /\ stage = "here"
  /\ stage' = "resolve"
  /\ IF "here" \in file.around.unreadable THEN UNCHANGED environment ELSE Adds("here")
  /\ UNCHANGED <<file, servers, targets>>

(* resolveEnv *)
ResolveEnv ==
  /\ stage = "resolve"
  /\ stage' = IF \A n \in file.needed \ file.fallback : IsSet(n)
              THEN "targets" ELSE "refused"
  /\ UNCHANGED <<file, environment, servers, targets>>
-----------------------------------------------------------------------------
(* normalize starts with the targets: one with a path is enabled, said so  *)
(* or not.                                                                 *)
EnablesTargets ==
  /\ stage = "targets"
  /\ targets' = [i \in DOMAIN targets |->
                   [targets[i] EXCEPT !.enabled = @ \/ targets[i].path]]
  /\ stage' = "expand"
  /\ UNCHANGED <<file, environment, servers>>

Copies(layer, n) == [k \in 1..n |-> layer]

(* UnmarshalYAML: a server starts after the monitor unless it says no; it  *)
(* always has a restart policy, its own or a built-in one.                 *)
Decoded(layer) == [layer EXCEPT !.given = @ \cup {"restart"}]

BuiltIn(x) == IF x = "start" THEN "on" ELSE "off"

(* applyDefaults: what the server leaves open comes from the defaults.      *)
WithDefaults(s, d) ==
  [from  |-> [f \in Scalars |-> CASE f \in s.given -> "server"
                                  [] f \in d.given \ s.given -> "defaults"
                                  [] OTHER -> "none"],
   flags |-> [x \in Flags |-> CASE s.flags[x] # "unset" -> s.flags[x]
                                [] s.flags[x] = "unset" /\ d.flags[x] # "unset" -> d.flags[x]
                                [] OTHER -> BuiltIn(x)],
   env   |-> [v \in Vars |-> CASE v \in s.env -> "server"
                               [] v \in d.env \ s.env -> "defaults"
                               [] OTHER -> "none"],
   ports |-> Copies("defaults", d.ports) \o Copies("server", s.ports)]

(* withoutTrailingPorts *)
WithoutTrailing(values, n) ==
  IF Len(values) < n THEN values ELSE SubSeq(values, 1, Len(values) - n)

SeesDefaults(cur, s, f) == cur.from[f] = "none"

(* applyMode looks at the server as it was in the file, not at cur, which  *)
(* the defaults have already filled.                                       *)
LeftOpen(cur, s, f) == f \notin s.given

WithMode(cur, m, s) ==
  [from  |-> [f \in Scalars |-> IF f \in m.given /\ LeftOpen(cur, s, f)
                                THEN "mode" ELSE cur.from[f]],
   flags |-> [x \in Flags |-> IF m.flags[x] # "unset" /\ s.flags[x] = "unset"
                              THEN m.flags[x] ELSE cur.flags[x]],
   env   |-> [v \in Vars |-> IF v \in m.env \ s.env THEN "mode" ELSE cur.env[v]],
   ports |-> IF m.ports = 0 THEN cur.ports
             ELSE WithoutTrailing(cur.ports, s.ports)
                    \o Copies("mode", m.ports) \o Copies("server", s.ports)]

NoLayer == [given |-> {}, flags |-> [x \in Flags |-> "unset"], env |-> {}, ports |-> 0]

(* applyServerDefaults: a server without a mode takes its first group for  *)
(* it; a mode that is not in the file has no settings.                     *)
ModeOf(s) == IF s.mode = None /\ s.groups # <<>> THEN Head(s.groups) ELSE s.mode

LayerOf(k) == IF k = None THEN NoLayer ELSE file.modes[k].layer

Groups(s) == CASE s.groups # <<>> -> s.groups
               [] s.groups = <<>> /\ s.mode # None ->
                    IF file.modes[s.mode].groups # <<>> THEN file.modes[s.mode].groups
                                                       ELSE <<s.mode>>
               [] OTHER -> <<>>

Derives(cur, f, possible) ==
  [cur EXCEPT !.from[f] = IF cur.from[f] = "none" /\ possible THEN "derived" ELSE @]

(* finalizeServer: the mode for the label kepcs.mod, the name of the       *)
(* config file, the port of the server, the command from its template.     *)
Finalized(cur, s) ==
  LET named   == Derives(cur, "label", ModeOf(s) # None)
      config  == Derives(named, "exec", s.slot /\ Groups(s) # <<>>)
      command == Derives(config, "command", TRUE)
  IN  [from   |-> command.from,
       flags  |-> cur.flags,
       env    |-> cur.env,
       ports  |-> IF cur.ports = <<>> /\ s.port THEN Copies("own", 2) ELSE cur.ports,
       groups |-> Groups(s)]

Expand ==
  /\ stage = "expand"
  /\ Len(servers) < Len(file.servers)
  /\ LET s    == file.servers[Len(servers) + 1]
         raw  == Decoded(s.layer)
         cur  == WithDefaults(raw, file.defaults)
         mode == LayerOf(ModeOf(s))
     IN  servers' = Append(servers, Finalized(WithMode(cur, mode, raw), s))
  /\ UNCHANGED <<file, environment, targets, stage>>

(* The rest of normalize: the proxy, and container names.                  *)
Derived(i) ==
  LET s == file.servers[i]
      proxied == [servers[i] EXCEPT !.env = [v \in Vars |->
                    IF servers[i].env[v] = "none" /\ file.proxy /\ v \in ProxyVars
                    THEN "proxy" ELSE servers[i].env[v]]]
  IN  Derives(proxied, "name",
              s.slot /\ (servers[i].from["label"] # "none" \/ servers[i].groups # <<>>))

Derive ==
  /\ stage = "expand"
  /\ Len(servers) = Len(file.servers)
  /\ servers' = [i \in DOMAIN servers |-> Derived(i)]
  /\ stage' = "validate"
  /\ UNCHANGED <<file, environment, targets>>

Distinct(seq) == \A i, j \in DOMAIN seq : seq[i].key = seq[j].key => i = j

Valid ==
  /\ file.api
  /\ \A i \in DOMAIN targets : targets[i].key # None /\ targets[i].path
  /\ Distinct(targets)
  /\ \A i \in DOMAIN servers : /\ file.servers[i].key # None
                               /\ servers[i].from["name"] # "none"
                               /\ servers[i].from["image"] # "none"
  /\ Distinct(file.servers)

Validate ==
  /\ stage = "validate"
  /\ stage' = IF Valid THEN "loaded" ELSE "refused"
  /\ UNCHANGED <<file, environment, servers, targets>>

Next == \/ LoadBeside \/ LoadHere \/ ResolveEnv
        \/ EnablesTargets \/ Expand \/ Derive \/ Validate

Spec == Init /\ [][Next]_vars
-----------------------------------------------------------------------------
(* Of the layers that say something the most specific one decides: the     *)
(* server before its mode, the mode before the defaults, and all of them   *)
(* before anything the agent derives.  Ports add up, in that order, each   *)
(* layer's once.  Only the restart policy of the defaults never counts.    *)
Speaks(s, m, d) == IF s THEN "server" ELSE IF m THEN "mode" ELSE IF d THEN "defaults" ELSE "none"

Decided(saying, from) == saying # "none" => from = saying

Choice(s, m, d, x) == IF s.flags[x] # "unset" THEN s.flags[x]
                      ELSE IF m.flags[x] # "unset" THEN m.flags[x]
                      ELSE IF d.flags[x] # "unset" THEN d.flags[x] ELSE BuiltIn(x)

FollowsLayers(cur, s, m, d) ==
  /\ \A f \in Scalars \ {"restart"} :
       Decided(Speaks(f \in s.given, f \in m.given, f \in d.given), cur.from[f])
  /\ \A v \in Vars : Decided(Speaks(v \in s.env, v \in m.env, v \in d.env), cur.env[v])
  /\ \A x \in Flags : cur.flags[x] = Choice(s, m, d, x)
  /\ LET all == Copies("defaults", d.ports) \o Copies("mode", m.ports)
                  \o Copies("server", s.ports)
     IN  all # <<>> => cur.ports = all

MostSpecificWins ==
  \A i \in DOMAIN servers :
    LET s == file.servers[i]
    IN  FollowsLayers(servers[i], s.layer, LayerOf(ModeOf(s)), file.defaults)

(* The process's own environment comes before the .env beside the file,    *)
(* that before the one in the working directory; an expanded file has no   *)
(* reference left open.                                                    *)
EnvironmentFirst ==
  LET around == file.around
      Offers(n, place) == n \in around.dotenv[place] /\ place \notin around.unreadable
  IN  stage \notin Places \cup {"refused"} =>
        /\ \A n \in Names :
             environment[n] = IF n \in around.process THEN "process"
                              ELSE IF Offers(n, "beside") THEN "beside"
                              ELSE IF Offers(n, "here") THEN "here" ELSE "unset"
        /\ servers # <<>> => \A n \in file.needed : n \in file.fallback \/ IsSet(n)

ConfigInv == TypeOK /\ MostSpecificWins /\ EnvironmentFirst
=============================================================================
