--------------------------- MODULE MCReplayPaging ----------------------------
(* An instance of ReplayPaging for TLC. *)
EXTENDS ReplayPaging

FourPaths == 1..4
SameNames == [p \in FourPaths |-> IF p = 4 THEN 1 ELSE 2]
NotTheThird == {1, 2, 4}
TwoTimes == {1, 2}
SmallPages == {1, 2}
AskedNumbers == {-9, 0, 1, 2, 5, 7, 9}
=============================================================================
