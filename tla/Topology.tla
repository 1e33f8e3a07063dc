------------------------------ MODULE Topology ------------------------------
(***************************************************************************)
(* The four positions of a bughouse game (services/core/game/models.py):   *)
(* who plays with whom, against whom, on which board and in which colour.  *)
(***************************************************************************)
EXTENDS Integers

Positions == 0 .. 3
Boards == {0, 1}
Colours == {"white", "black"}
Teams == {"team_a", "team_b"}

PartnerPos == [p \in Positions |->
                 CASE p = 0 -> 1 [] p = 1 -> 0 [] p = 2 -> 3 [] p = 3 -> 2]

TeamOfPos(p) == IF p \in {0, 1} THEN "team_a" ELSE "team_b"

OtherTeam(team) == IF team = "team_a" THEN "team_b" ELSE "team_a"

PosToBoard(p) == p % 2

OtherColour(c) == IF c = "white" THEN "black" ELSE "white"

PosToColour(p, flip) ==
    LET natural == IF p \in {0, 3} THEN "white" ELSE "black" IN
    IF flip THEN OtherColour(natural) ELSE natural

PosFor(b, c, flip) ==
    CHOOSE p \in Positions : PosToBoard(p) = b /\ PosToColour(p, flip) = c
=============================================================================
