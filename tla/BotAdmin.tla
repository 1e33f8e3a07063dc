------------------------------ MODULE BotAdmin ------------------------------
(***************************************************************************)
(* BotService.update (services/backend/services/bot.py), by which          *)
(* superusers enable bots and their engines, and CoreServiceServicer.      *)
(* SyncBot (services/core/main.py), by which the core follows.  The flags  *)
(* are two Redis sets, written one after the other; the core keeps a copy  *)
(* of one of them, BotEngine._engine_on, and seats bots that are enabled   *)
(* when it asks.                                                           *)
(*                                                                         *)
(* An action is the code from one Redis command or gRPC call to the next.  *)
(* What the core does with its copy is EnginePool, and how it walks the    *)
(* lobbies Lobbies.                                                        *)
(***************************************************************************)
EXTENDS ActivePlayers

CONSTANTS
    Bots,           \* names in env_config.bots
    Admins          \* requests of superusers that may run at the same time

VARIABLES
    engineOn,       \* Redis set bot:engine_on
    known,          \* BotEngine._engine_on
    update,         \* the calls of BotService.update, SyncBot included
    seated,         \* bots that sit in an idle lobby
    coming,         \* bots that will: the answer to their invitation says
                    \* that they are enabled, or they sit in a lobby that
                    \* will come back from the queue or a game
    raced,          \* HISTORY: bots whose flags two updates wrote together,
                    \* or whose update failed between its writes
    behind,         \* HISTORY: syncs of the core crossed, or one failed
    late            \* HISTORY: bots in a seat they took after they were
                    \* disabled, or from which their eviction failed

botVars == <<engineOn, known, update, seated, coming, raced, behind,
             late>>

Settings == {"on", "off", "keep"}

(* pc: the await an update is suspended at.                                *)
(*   enabled, engine              the reads of the flags it does not set   *)
(*   write, write_engine          the writes of both                       *)
(*   sync, apply, check, evict    in SyncBot: smembers, its answer, the    *)
(*                                test whether the bot is available, and   *)
(*                                the eviction                             *)
(* got is what smembers answered.  alone: no other update of the bot ran   *)
(* at any time since this one began.                                       *)
Update == [pc : {"none", "enabled", "engine", "write", "write_engine",
                 "sync", "apply", "check", "evict"},
           bot : Bots, enabled : Settings, engine : Settings,
           got : SUBSET Bots, alone : BOOLEAN]

BotTypeOK ==
    /\ engineOn \in SUBSET Bots /\ known \in SUBSET Bots
    /\ update \in [Admins -> Update]
    /\ \A a \in Admins :
          update[a].pc = "write_engine" =>
             (update[a].enabled = "off" => update[a].engine = "off")
    /\ seated \in SUBSET Bots /\ coming \in SUBSET Bots
    /\ raced \in SUBSET Bots /\ behind \in BOOLEAN /\ late \in SUBSET Bots

----------------------------------------------------------------------------
Flag(set, b) == IF b \in set THEN "on" ELSE "off"

Writing(a) ==
    update[a].pc \in {"enabled", "engine", "write", "write_engine"}

OthersWriting(a, b) == {x \in Admins \ {a} : Writing(x) /\ update[x].bot = b}

(* Mutant: the engine keeps its setting when the bot is disabled.          *)
DecidedEngineKept(call, enabled, engine) ==
    [call EXCEPT !.pc = "write", !.enabled = enabled, !.engine = engine]

(* The engine cannot run for a disabled bot: what is asked for is refused, *)
(* what is kept is switched off.                                           *)
Decided(call, enabled, engine) ==
    IF enabled = "off" /\ call.engine = "on"
    THEN [call EXCEPT !.pc = "none"]
    ELSE [call EXCEPT !.pc = "write", !.enabled = enabled,
                      !.engine = IF enabled = "off" THEN "off" ELSE engine]

(* The call up to its first suspension.                                    *)
Request(call) ==
    CASE call.enabled = "keep" -> [call EXCEPT !.pc = "enabled"]
      [] call.enabled # "keep" /\ call.engine = "keep" -> [call EXCEPT !.pc = "engine"]
      [] OTHER -> Decided(call, call.enabled, call.engine)

BeginUpdate(a, b) ==
    /\ update[a].pc = "none"
    /\ \E enabled, engine \in Settings :
         LET others == OthersWriting(a, b)
             call == Request([pc |-> "none", bot |-> b, enabled |-> enabled,
                              engine |-> engine, got |-> {},
                              alone |-> others = {}])
         IN  /\ call.pc # "none"
             /\ update' = [x \in Admins |->
                             IF x = a THEN call
                             ELSE IF x \in others
                                  THEN [update[x] EXCEPT !.alone = FALSE]
                                  ELSE update[x]]
             /\ raced' = IF others = {} THEN raced ELSE raced \cup {b}
    /\ UNCHANGED <<available, engineOn, known, seated, coming, behind,
                   late>>

SetUpdate(a, call) == update' = [update EXCEPT ![a] = call]

UpdateGoto(a, pc) == SetUpdate(a, [update[a] EXCEPT !.pc = pc])

ReadEnabled(a) ==
    LET call == update[a]
        enabled == Flag(available, call.bot)
    IN  /\ call.pc = "enabled"
        /\ SetUpdate(a, IF call.engine = "keep"
                        THEN [call EXCEPT !.pc = "engine", !.enabled = enabled]
                        ELSE Decided(call, enabled, call.engine))
        /\ UNCHANGED <<available, engineOn, known, seated, coming,
                       raced, behind, late>>

ReadEngine(a) ==
    LET call == update[a] IN
    /\ call.pc = "engine"
    /\ SetUpdate(a, Decided(call, call.enabled, Flag(engineOn, call.bot)))
    /\ UNCHANGED <<available, engineOn, known, seated, coming, raced,
                   behind, late>>

WriteEnabled(a) ==
    /\ update[a].pc = "write"
    /\ IF update[a].enabled = "on" THEN Sadd(update[a].bot) ELSE Srem(update[a].bot)
    /\ UpdateGoto(a, "write_engine")
    /\ UNCHANGED <<engineOn, known, seated, coming, raced, behind, late>>

(* Mutant: the core is told of engines that start only.                    *)
WriteEngineTellsOfStarts(a) ==
    LET b == update[a].bot IN
    /\ update[a].pc = "write_engine"
    /\ engineOn' = IF update[a].engine = "on" THEN engineOn \cup {b}
                                             ELSE engineOn \ {b}
    /\ raced' = IF update[a].alone THEN raced \ {b} ELSE raced
    /\ UpdateGoto(a, IF update[a].engine = "on" THEN "sync" ELSE "none")
    /\ UNCHANGED <<available, known, seated, coming, behind, late>>

WriteEngine(a) ==
    LET b == update[a].bot IN
    /\ update[a].pc = "write_engine"
    /\ engineOn' = IF update[a].engine = "on" THEN engineOn \cup {b}
                                             ELSE engineOn \ {b}
    /\ raced' = IF update[a].alone THEN raced \ {b} ELSE raced
    /\ UpdateGoto(a, "sync")
    /\ UNCHANGED <<available, known, seated, coming, behind, late>>

(* A Redis error, or the backend is killed.  Nobody tells the core.        *)
UpdateFails(a) ==
    LET b == update[a].bot IN
    /\ Writing(a)
    /\ UpdateGoto(a, "none")
    /\ raced' = IF update[a].pc = "write_engine" THEN raced \cup {b} ELSE raced
    /\ late' = IF update[a].pc = "write_engine" THEN late \cup (seated \cap {b}) ELSE late
    /\ UNCHANGED <<available, engineOn, known, seated, coming, behind>>

----------------------------------------------------------------------------
(* SyncBot                                                                 *)

(* engine.sync asks for the set.  Two answers may be used in either order. *)
SyncRead(a) ==
    /\ update[a].pc = "sync"
    /\ SetUpdate(a, [update[a] EXCEPT !.pc = "apply", !.got = engineOn])
    /\ behind' = (\E x \in Admins \ {a} : update[x].pc = "apply")
    /\ UNCHANGED <<available, engineOn, known, seated, coming, raced,
                   late>>

SyncApply(a) ==
    /\ update[a].pc = "apply"
    /\ known' = update[a].got
    /\ SetUpdate(a, [update[a] EXCEPT !.pc = "check", !.got = {}])
    /\ UNCHANGED <<available, engineOn, seated, coming, raced, behind,
                   late>>

CheckAvailable(a) ==
    /\ update[a].pc = "check"
    /\ UpdateGoto(a, IF update[a].bot \in available THEN "none" ELSE "evict")
    /\ UNCHANGED <<available, engineOn, known, seated, coming, raced,
                   behind, late>>

(* Mutant: an error while the first eviction is published ends the loop.   *)
EvictBotStops(a) ==
    LET b == update[a].bot IN
    /\ update[a].pc = "evict"
    /\ seated' \in {seated, seated \ {b}}
    /\ late' = late \ {b}
    /\ UpdateGoto(a, "none")
    /\ UNCHANGED <<available, engineOn, known, coming, raced, behind>>

EvictBot(a) ==
    LET b == update[a].bot IN
    /\ update[a].pc = "evict"
    /\ seated' = seated \ {b}
    /\ late' = late \ {b}
    /\ UpdateGoto(a, "none")
    /\ UNCHANGED <<available, engineOn, known, coming, raced, behind>>

(* The gRPC call fails, which is ignored: Redis is the source of truth.    *)
SyncFails(a) ==
    /\ update[a].pc \in {"sync", "apply", "check", "evict"}
    /\ UpdateGoto(a, "none")
    /\ behind' = (behind \/ update[a].pc \in {"sync", "apply"})
    /\ late' = late \cup (seated \cap {update[a].bot})
    /\ UNCHANGED <<available, engineOn, known, seated, coming, raced>>

(* smembers fails, which counts as the empty set.                          *)
SyncReadFails(a) ==
    /\ update[a].pc = "sync"
    /\ SetUpdate(a, [update[a] EXCEPT !.pc = "apply", !.got = {}])
    /\ behind' = TRUE
    /\ UNCHANGED <<available, engineOn, known, seated, coming, raced,
                   late>>

----------------------------------------------------------------------------
(* Seats in lobbies                                                        *)

(* InviteManager.send asks whether the bot is enabled ...                  *)
InviteRead(b) ==
    /\ b \in available
    /\ b \notin coming
    /\ coming' = coming \cup {b}
    /\ UNCHANGED <<available, engineOn, known, update, seated, raced, behind,
                   late>>

(* ... and a lobby that is queued keeps its bots.                          *)
LobbyQueued(b) ==
    /\ b \in seated
    /\ seated' = seated \ {b}
    /\ coming' = coming \cup {b}
    /\ late' = late \ {b}
    /\ UNCHANGED <<available, engineOn, known, update, raced, behind>>

(* Either brings the bot into an idle lobby, whatever its flag says then,  *)
(* or does not: the seat was taken, the lobby dissolved.                   *)
TakesSeat(b) ==
    /\ b \in coming
    /\ coming' = coming \ {b}
    /\ \/ /\ seated' = seated \cup {b}
          /\ late' = IF b \in available THEN late ELSE late \cup {b}
       \/ UNCHANGED <<seated, late>>
    /\ UNCHANGED <<available, engineOn, known, update, raced, behind>>

(* The bot is kicked, or its lobby dissolved.                              *)
Unseat(b) ==
    /\ b \in seated
    /\ seated' = seated \ {b}
    /\ late' = late \ {b}
    /\ UNCHANGED <<available, engineOn, known, update, coming, raced, behind>>

(* The core starts again: no lobbies, and one sync before it serves.       *)
CoreSyncs ==
    /\ known' = engineOn
    /\ update' = [a \in Admins |->
                    IF update[a].pc \in {"apply", "check", "evict"}
                    THEN [update[a] EXCEPT !.pc = "none", !.got = {}]
                    ELSE update[a]]
    /\ seated' = {} /\ coming' = {}
    /\ behind' = FALSE /\ late' = {}
    /\ UNCHANGED <<available, engineOn, raced>>

(* The stack stops and starts; bootstrap deletes both sets with one DEL,   *)
(* whose failure is logged only.                                           *)
StackStarts ==
    /\ \/ available' = {} /\ engineOn' = {} /\ raced' = {}
       \/ /\ raced' = raced \cup {update[a].bot : a \in {x \in Admins : update[x].pc = "write_engine"}}
          /\ UNCHANGED <<available, engineOn>>
    /\ known' = engineOn'
    /\ update' = [a \in Admins |-> [update[a] EXCEPT !.pc = "none", !.got = {}]]
    /\ seated' = {} /\ coming' = {}
    /\ behind' = FALSE /\ late' = {}

----------------------------------------------------------------------------
BotInit ==
    /\ available = {}
    /\ engineOn = {} /\ known = {}
    /\ update \in [Admins -> {c \in Update :
                     /\ c.pc = "none" /\ c.enabled = "keep" /\ c.engine = "keep"
                     /\ c.got = {} /\ c.alone}]
    /\ seated = {} /\ coming = {}
    /\ raced = {} /\ behind = FALSE /\ late = {}

SyncStep(a) ==
    SyncRead(a) \/ SyncApply(a) \/ CheckAvailable(a) \/ EvictBot(a)

BotStep ==
    \/ \E a \in Admins, b \in Bots : BeginUpdate(a, b)
    \/ \E a \in Admins :
          \/ ReadEnabled(a) \/ ReadEngine(a) \/ WriteEnabled(a) \/ WriteEngine(a)
          \/ SyncStep(a)
          \/ UpdateFails(a) \/ SyncFails(a) \/ SyncReadFails(a)
    \/ \E b \in Bots :
          InviteRead(b) \/ LobbyQueued(b) \/ TakesSeat(b) \/ Unseat(b)

BotNext == BotStep \/ CoreSyncs \/ StackStarts

BotSpec == BotInit /\ [][BotNext]_<<available, botVars>>

----------------------------------------------------------------------------
Unwritten(b) == \A a \in Admins : update[a].bot = b => ~Writing(a)

(* The engine cannot run for a disabled bot: between the writes of an      *)
(* update it may, and after two updates together, but one update alone     *)
(* repairs that.                                                           *)
EngineNeedsEnabled ==
    \A b \in Bots \ raced :
        Unwritten(b) /\ b \in engineOn => b \in available

(* Redis is the source of truth: once no update is running, the core has   *)
(* the engines on that Redis has on, whatever updates and restarts of the  *)
(* core came in between, unless two syncs crossed or one failed.           *)
CoreFollowsRedis ==
    (~behind /\ \A a \in Admins : update[a].pc \in {"none", "check", "evict"})
        => known = engineOn

(* A disabled bot is dropped from every idle lobby, unless it took a seat  *)
(* late.                                                                   *)
DisabledIsEvicted ==
    \A b \in Bots \ late :
        (\A a \in Admins : update[a].pc = "none") /\ b \notin available
            => b \notin seated
=============================================================================
