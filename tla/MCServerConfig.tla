--------------------------- MODULE MCServerConfig ----------------------------
(* An instance of ServerConfig for TLC: families of files that vary what    *)
(* can interact, one at a time.                                            *)
EXTENDS ServerConfig, FiniteSets

CONSTANTS a, b, pvp, kz

AllScalars == {"image", "name", "command", "template", "label", "exec", "restart"}
AllFlags   == {"stdin", "start"}
TwoVars    == {"TZ", "HTTP_PROXY"}
OneProxy   == {"HTTP_PROXY"}
TwoNames   == {"API_KEY", "NODE"}
TwoKeys    == {a, b}
TwoModes   == {pvp, kz}

Says(given, env, ports, flags) ==
  [given |-> given, env |-> env, ports |-> ports, flags |-> flags]

Silent == [x \in AllFlags |-> "unset"]
Empty  == Says({}, {}, 0, Silent)
Plain  == [layer |-> Says({"image"}, {}, 0, Silent), key |-> a, mode |-> pvp,
           groups |-> <<>>, slot |-> TRUE, port |-> TRUE]

Alone == [process |-> {}, dotenv |-> [p \in Places |-> {}], unreadable |-> {}]

Written(d, m, ss, ts, proxy) ==
  [around |-> Alone, needed |-> {}, fallback |-> {},
   defaults |-> d, servers |-> ss, targets |-> ts, proxy |-> proxy, api |-> TRUE,
   modes |-> [k \in TwoModes |-> [layer |-> IF k = pvp THEN m ELSE Empty, groups |-> <<>>]]]

With(layer) == <<[Plain EXCEPT !.layer = layer]>>

Values == {Written(Says(d, {}, 0, Silent), Says(m, {}, 0, Silent),
                   With(Says(s \cup {"image"}, {}, 0, Silent)), <<>>, FALSE) :
             d \in SUBSET {"command", "template", "label", "restart"},
             m \in SUBSET {"command", "template", "label"},
             s \in SUBSET {"command", "template", "label"}}

Lists == {Written(Says({}, e[1], p[1], Silent), Says({}, e[2], p[2], Silent),
                  With(Says({"image"}, e[3], p[3], Silent)), <<>>, proxy) :
            e \in [1..3 -> SUBSET TwoVars], p \in [1..3 -> 0..2], proxy \in BOOLEAN}

Switches == {Written(Says({}, {}, 0, d), Says({}, {}, 0, m),
                     With(Says({"image"}, {}, 0, s)), <<>>, FALSE) :
               d, m, s \in [AllFlags -> {"unset", "on", "off"}]}

OneServer == {[layer |-> Says(g, {}, 0, Silent), key |-> k, mode |-> m, groups |-> gs,
               slot |-> sl, port |-> FALSE] :
                g \in {{"image"}, {"image", "name"}, {"label"}}, k \in {a, b, None},
                m \in {None, kz}, gs \in {<<>>, <<pvp, kz>>}, sl \in BOOLEAN}

Fleets == {Written(Empty, Empty, <<Plain, s>>, <<>>, FALSE) : s \in OneServer}

Replays == {Written(Empty, Empty, <<Plain>>, ts, FALSE) :
              ts \in [1..2 -> [key : {a, b, None}, path : BOOLEAN, enabled : BOOLEAN]]}

Surroundings == {[Written(Empty, Empty, <<Plain>>, <<>>, FALSE)
                    EXCEPT !.around = e, !.needed = TwoNames, !.fallback = f] :
                   e \in Environment, f \in SUBSET TwoNames}

SomeFiles == Surroundings \cup Values \cup Lists \cup Switches \cup Fleets \cup Replays
=============================================================================
