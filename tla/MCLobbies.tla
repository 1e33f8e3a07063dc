----------------------------- MODULE MCLobbies -----------------------------
(* Small instances of Lobbies for TLC.                                     *)
EXTENDS Lobbies, TLC

Symmetry == Permutations(Users) \cup Permutations(LobbyIds)
=============================================================================
