------------------------------- MODULE MCGame -------------------------------
(* Small instances of Game for TLC.                                        *)
EXTENDS Game

(* A human with three bots, two humans who each have a bot as partner, and *)
(* four bots.                                                              *)
LineUpsInPlay == {{0, 2, 3}, {0, 3}, Positions}

TeamOfBots == {{2, 3}}

FewMoves == [b \in Boards |-> IF b = 0 THEN 4 ELSE 3]
=============================================================================
