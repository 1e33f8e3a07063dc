----------------------------- MODULE MCBotAdmin -----------------------------
(* BotAdmin with administrators that are interchangeable.                  *)
EXTENDS BotAdmin, TLC

Symmetry == Permutations(Admins)
=============================================================================
