--------------------------- MODULE ActivePlayers ---------------------------
(***************************************************************************)
(* The Redis set active_player: the names of the humans who are online and *)
(* in no lobby and no game, and of the bots that a superuser enabled.  The *)
(* websocket endpoint and the core's Notifier write the humans, BotService *)
(* writes the bots; each write is one atomic SADD or SREM of one name.     *)
(***************************************************************************)
VARIABLE available

Sadd(name) == available' = available \cup {name}

Srem(name) == available' = available \ {name}
=============================================================================
