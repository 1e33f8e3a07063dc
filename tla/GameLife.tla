------------------------------ MODULE GameLife ------------------------------
(***************************************************************************)
(* What a game promises its players, whatever its timers, bots and calls   *)
(* do: moves are made while it is played, it is decided once, after that   *)
(* no move is made and the result stays, and it is closed once.            *)
(***************************************************************************)
EXTENDS Naturals

CONSTANTS
    Results,        \* the ways a game can end
    NoResult        \* the game is not decided

VARIABLES
    phase,          \* "playing", "decided" or "closed"
    outcome,        \* its result
    plies           \* how many moves were made on its two boards

lifeVars == <<phase, outcome, plies>>

LifeInit ==
    /\ phase = "playing"
    /\ outcome = NoResult
    /\ plies = 0

Move ==
    /\ phase = "playing"
    /\ plies' = plies + 1
    /\ UNCHANGED <<phase, outcome>>

Decide ==
    /\ phase = "playing"
    /\ phase' = "decided"
    /\ outcome' \in Results
    /\ UNCHANGED plies

Close ==
    /\ phase = "decided"
    /\ phase' = "closed"
    /\ UNCHANGED <<outcome, plies>>

LifeSpec == LifeInit /\ [][Move \/ Decide \/ Close]_lifeVars
=============================================================================
