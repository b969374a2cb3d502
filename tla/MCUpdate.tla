------------------------------ MODULE MCUpdate ------------------------------
(* An instance of Update for TLC. *)
EXTENDS Update, TLC

CONSTANTS s1, s2

TwoServers == {s1, s2}

(* Two "Game csgo" lines: only the first is the place to insert.           *)
StockFile == <<"other", "csgo", "other", "csgo">>
=============================================================================
