--------------------------- MODULE MCServerActions ---------------------------
(* An instance of ServerActions for TLC. *)
EXTENDS ServerActions, TLC

CONSTANTS s1, s2, s3, bad, k1, k2

ThreeServers == {s1, s2, s3}
TwoContainers == {k1, k2}

(* Nothing in the configuration keeps two servers from sharing a name. *)
Names == s1 :> k1 @@ s2 :> k2 @@ s3 :> k1

Batch(a, keys) == [action |-> a, batch |-> TRUE, keys |-> keys]
Single(a, k)   == [action |-> a, batch |-> FALSE, keys |-> <<k>>]

Batches == {Batch(a, <<s1, s2>>) : a \in Actions}
           \cup {Batch(a, <<s1, s3>>) : a \in {"start", "restart"}}
Odd     == {Batch("start", <<s1, bad>>), Batch("restart", <<s2, s1, s2>>)}
Singles == {Single(a, s1) : a \in Actions} \cup {Single("stop", bad)}

AllRequests == Batches \cup Odd \cup Singles
=============================================================================
