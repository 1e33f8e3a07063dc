# Bughouse: a TLA+ model of the game server

Bughouse is played by two teams of two on two boards; pieces captured on one
board feed the partner's. This project models the server that forms lobbies,
matches them and runs the games. The specifications are written from the
Python code under `src/`; `PROJECT.json` says which lines each definition
stands for.

## The system

Two processes and two stores. The **backend** (FastAPI) authenticates users,
serves the HTTP API and holds one websocket per online user; it forwards each
game message as one gRPC call. The **core** (one asyncio process) keeps
lobbies, the queue, games and the engine pool in memory and publishes events
through Redis. **Redis** also holds who is online, who is available, and which
bots have the engine on. The **database** holds users and finished games.

| Part | State | Operations | Hard because |
|---|---|---|---|
| LobbyManager | `_lobbies`, `_user_to_lobby`, Lobby objects | create, join_at, leave, kick, add_bot, remove_bot, evict, set_config, mark_*, release_from_game | every operation awaits Redis or the database between its checks and its last write; handlers keep objects that were deleted |
| InviteManager | `_invites` | send, accept, reject, cleanups | invitations outlive the lobby's state |
| QueueManager | `_entries`, loop task | enqueue, cancel, tick | the tick starts games (awaits) while it walks snapshots; enqueue loads users one by one while the lobby changes |
| Ranker | none | find_best_assignment | combinatorics of topology-preserving placements |
| GameManager, Clocks, Boards | games, per-board clock tasks, abort timers, bot tasks | create, move, resign, flag, chat, finish, persist | four players, two boards, timers and bot tasks race to move and to finish |
| BotEngine | pool, queue, engine-on set, lock | sync, choose, retire, shutdown | searches end while the pool is being unloaded |
| Notifier, websocket | Redis lock `ws:online:<user>` with a TTL, set `active_player` | connect, refresh, disconnect, mark_busy, mark_idle_if_online | tests and writes of presence by two processes; keys that expire |
| BotService, SyncBot | Redis sets of enabled bots and engines, the core's copy | update, sync, evict | two writes without a transaction, calls that cross |
| AuthService | users, links to provider accounts, OAuth states and revocations in Redis | register, callback, complete, unlink, logout_all, edit | looking before writing in concurrent transactions; Redis and the database fail separately |
| Bootstrap | none | clear_stale_presence | what a stop of the stack leaves in Redis |

What makes each part correct:

* **lobbies**: a user sits at most once, in the lobby `_user_to_lobby` names; a
  seat is given to one user; a lobby lives exactly while a human sits in it; its
  leader is a human in it; queued lobbies do not change;
* **queue**: only queued lobbies are matched, each once, and lobbies that can be
  matched are; a queued lobby can always be cancelled;
* **games**: one result, persisted once; moves alternate per board and are
  recorded in the order they were made; a finished game frees its players and
  lobbies; bots move when they can;
* **engine pool**: one search per process; failed processes are replaced; calls
  return; nothing leaks;
* **presence**: available means online and idle; a user is neither locked out
  by a dead connection nor served by two;
* **bots**: an engine is on only for an enabled bot, the core follows Redis, a
  disabled bot leaves the lobbies;
* **accounts**: an address and a provider account belong to one user, a login
  is as the owner of the account, a logout everywhere is final.

## How asyncio is modelled

Code between two real suspensions (a database load, a Redis command or publish,
a process start or stop, a get on an empty queue, a sleep) runs without
interleaving, and one action is exactly such a stretch. A call in flight is a
record that names the await it is suspended at and the local variables it goes
on with. An action therefore often has the name of an operation with *Resume*
or *Begin*. An `await` that cannot suspend (a registered bot's seat, an
uncontended lock) is not a step.

## Modules

* **Lobbies** – LobbyManager, InviteManager and the handlers of
  `CoreServiceServicer` that call them. `lobby` is the heap of Lobby objects
  and `live` the keys of `_lobbies`: a handler that waits keeps the object after
  the key is gone. `rpc[u]` is the call the connection of `u` waits for; the
  endpoint reads the next message only after the reply, so there is one per
  user. (After a lock that expired late, see Presence, two endpoints of one user
  may run for a moment, and two calls; Lobbies does not have that.) `evict` is the loop of SyncBot over lobbies. The ids of lobbies are
  reused when nothing refers to the old object, as a new object would be
  equal to it.
  `Disconnects` is the set of awaits at which a dropped connection may cancel
  the call. **LobbiesProofs** proves its invariants, its action properties and that
  it implements Membership.
* **Membership** – what the lobbies promise their users whatever their handlers
  wait for: who is in which lobby, who sits there, who leads it, which are open.
  Lobbies implements it with `_user_to_lobby`, the humans in the seats, the leaders and
  `_lobbies` as its variables. It promises no more than the code keeps: a
  seat may be given twice (the `out` of Enter), and a lobby entered after it was closed.
* **Topology**, **Ranker** – positions, boards and colours of a game, and which
  queue entries can form one. **RankerProofs** proves what placements promise.
* **Matchmaking** – extends Lobbies with QueueManager: `entries`, the local
  variables `load` of enqueue (the loop over seats loads one human at a time
  and sees the seats as they are when it comes to them; after the last load the
  session commits, and the entry takes the seats as they are by then), the local
  variables
  `tick` of `_do_tick`, and `games`, of which only the lobbies to return matter
  here. StartMatchmaking and EnqueueResume of Lobbies become BeginEnqueue,
  LoadNext and FinishEnqueue, CancelMatchmaking becomes CancelQueued, MarkInGame
  becomes Fire and ReleaseFromGame becomes GameEnds. A new lobby never has an
  id that the queue, a tick or a game still knows (`Known`).
  **MatchmakingProofs** proves its invariants.
* **EnginePool** – BotEngine. `queues` holds every queue object `_load` ever
  made, because `choose` and `_retire` keep a reference to theirs.
  **EnginePoolProofs** proves its safety.
* **Game** – one game of GameManager with its Clocks, from the moment
  create_game has put it in `_games`. `made` counts the moves pushed on a board
  and `count` those recorded in `game.moves`; they differ while a move waits in
  stop_and_apply. `clock` is `Clocks._active`, `armed` the abort watchdogs,
  `think` the tasks in `_bot_move` before they push, and `call` the calls of
  `_apply_move` after they pushed, with the await each is in. `own` says that
  `_bot_tasks` still holds the task, so that the next scheduling of its board
  cancels it. Chess is reduced to what the handlers ask a board: `position[b]`
  says whether the player to move can move, sits, is mated or has reached a
  draw. A capture may give the partner of the capturer, who sits, a move.
* **GameLife** – the abstract specification of a game: played, decided once,
  closed. **GameProofs** – the safety of Game and its refinement, proved.
* **ActivePlayers** – the Redis set `active_player` and its two commands, which
  Presence and BotAdmin share: enabled bots are members like available humans.
* **Presence** – the websocket endpoint from SET NX to its finally block, the
  TTL of the lock, and the Redis commands of mark_busy and mark_idle_if_online,
  which the core runs for a request of the user, of the leader who kicks, or of
  its own tasks. Of lobbies and games it keeps what get_sync reports: a lobby
  may be dissolved under a user who lost the seat or was still joining ("gone",
  which get_sync reports as IDLE); a game either keeps its lobby closed ("held")
  or does not ("loose": the queue fired a stale entry, so the players may be
  anywhere, and in a later game as well). StartGame is the mapping and the mark of
  create_game for one player, EndGame is `_detach_game`, and ReturnToLobbies what
  `_return_to_lobbies` does to who played a loose game (`due`), some awaits later:
  it marks the user idle if the lobby of the entry is gone, and does nothing if
  it lives. Restarts of the core alone and of the whole stack, with the clearing by
  bootstrap, which may fail. **PresenceProofs** proves its safety.
* **BotAdmin** – BotService.update, one step per read and write of the two sets,
  and the SyncBot it calls: the read of the set, its use, and the eviction. A
  bot may be invited at any time and is seated after the answer; lobbies in the
  queue or a game come back with their bots. What the core does with its copy is
  EnginePool, how it walks the lobbies Lobbies. **BotAdminProofs** proves it.
* **Accounts** – the requests of AuthService that write, and the edit of a user,
  as database transactions at READ COMMITTED: `wrote` is what a request has
  flushed and not committed, a statement that meets a key or row another open
  transaction writes waits (it is not enabled), and the unique indexes are
  checked when it goes on. The commit comes after the response, since the
  session is a dependency of the request. Redis holds OAuth states and
  revocations. Anything may fail at any point, which rolls back what was not
  committed and leaves what was written to Redis. **AccountsProofs** proves it.
* **MCLobbies**, **MCMatchmaking**, **MCEnginePool**, **MCGame**, **MCBotAdmin**,
  **MCAccounts** – instances for TLC. Presence needs none.

Three kinds of variables exist only for properties and are marked HISTORY.
`disturbed`, `raced`, `behind` and `late` mark the users and bots about whom two
writes met in an order the code leaves open, from the moment this happens to the
moment the code repairs it; `alone` and `stale` do so within one request, and
`stranded` names the users a step of the core left idle without a mark. They
read and never restrict the rest of the state, so every such behaviour is in the
model, and the properties say that there is no other way to go wrong:

* `disturbed` (Presence): an idle mark in flight meets the end of the
  connection, a busy mark, or a user who is elsewhere by now; a busy mark meets
  the first snapshot or the SADD after it; a command fails; a lock expires under
  a connection that lives or an endpoint ends without its finally block; the core
  restarts while the set has the name of a user who was in a lobby or game.
* `stranded` (Presence): the user came to be in no lobby and no game by a step
  that marks nobody: the end of a game the queue fired from a stale entry, the
  dissolution of a lobby whose seat somebody else had taken, a join that ends in a
  dissolved lobby, a restart of the core. The user stays unavailable until the
  next mark or connection adds the name; AvailableIsExact says that exactly these
  are idle and not available.
* `raced` (BotAdmin): two updates of one bot ran together, or one failed between
  its writes. One later update that runs alone repairs the flags.
* `behind` (BotAdmin): two syncs crossed, or one failed: the next one repairs it.
* `late` (BotAdmin): the bot sat down after it was disabled (its invitation was
  answered before, or its lobby was in the queue or a game), or its eviction
  failed.
* `stale` (Accounts): a link was deleted between a request's look and its answer.

Definitions introduced by a comment `Mutant` are plausible errors that are not
in the code. They are used by no specification; each shows that a property
notices the error when it is put in the place of the definition after it.

## What the runs check

All runs that say `CHECK_DEADLOCK FALSE` do so because the system may really
stop: users can all be mapped to a dissolved lobby (see the findings), and after
shutdown nothing happens.

| Run | Question | Instance |
|---|---|---|
| Lobbies_bots | Lobbies implements Membership; seats, leaders, invitations of a queued lobby, and that a deserted lobby is dissolved (under fairness of calls in flight) | 2 users, 1 bot, 1 lobby object, seats 1 and 2 for invitations; connections drop in every call but leave and StartMatchmaking |
| Matchmaking_mixed | A snapshot of complete lobbies is re-validated; lobbies that can be matched are | 5 queued lobbies of sizes 1, 3, 1, 4, 4; the leaders of one single and one complete lobby act |
| Matchmaking_forming | A queued lobby keeps its entry and a leader who can cancel; types and dissolving over the whole life of a lobby, with joins and leaves during enqueue, and connections that drop at any await | 4 users, 1 bot, 1 lobby with two humans and a bot at first; requests of three users |
| Game_play | Clocks run for the player to move and stop with the game, something always times a game, only who has the turn moves, a game is decided once (it implements GameLife) and ends | a human and three bots, two humans who each have a bot as partner, and four bots; 4 and 3 moves on the boards, one cancelled call |
| EnginePool_races | Exclusive use of processes, no stopped process is handed out, nothing lost before the first unload, `choose` waits for its own process alone | pool of 2, 3 processes of which one may stall, 2 searches, 2 syncs and shutdown, 2 loads |
| Presence | Available is online and idle; only a late refresh takes the lock from a live connection; locks of dead connections go, connections without their lock end, idle users who are not stranded become available | 1 user, 2 connections, 2 marks in flight |
| BotAdmin | The flags of a bot agree, the core follows them, a disabled bot sits in no idle lobby | 1 bot, 2 superusers, each edits as often as they like |
| Accounts | One owner of addresses and provider accounts, logins as the owner, final logouts, no half account | 2 users, 2 addresses, 1 provider account, 1 OAuth state, 2 requests at a time, 2 logouts per user |

Why the bounds are enough: every race found here needs one lobby object, two
calls in flight and one seat. That a user is never in two lobbies, which
Lobbies_bots cannot show with one object, is proved for any number
(SeatedIsMapped). One bot sits in several seats, so
evictions suspend between seats. Five queued lobbies give the tick two complete
games and a group with two alternative matches, so every snapshot is used after
a suspension. A pool of two with one spare process has partial loads, partial
unloads and a replacement in flight at the same time; two loads are one more
than are needed for a reference to an old queue. In Game the first two moves of
a board are special (the abort timer, the start of the clock), from the third
on each does the same: four moves on one board have two such moves overlap, and
three on the other are enough for it to be behind or ahead. The
line-ups give boards played by two bots and boards on which a bot and a
human alternate, whose humans may resign or drop. All properties also hold with
four humans at the same bounds (a million states), and the safety properties with
five moves on both boards and no cancelled call (2.2 million states); both are
left out of the runs for their time. In Presence no action about a user reads
what is kept about another one, except that a connection has one user, so one
user, an old and a new connection and two marks that are not ordered are all
there is to meet; the safety properties are proved for all constants. In
BotAdmin a bot's flags and seats do not depend on another bot, and the set
a sync carries is used bot by bot; an update meets at most one other one to be
raced. In Accounts every conflict is between two requests over one key; the
second user and address are those a login may be mistaken for, and two logouts
make two older secrets. Requests repeat without a bound in all three.

Runs that end in a violation state what a comment, a message or a test says:

| Run | What happens |
|---|---|
| Lobbies_join | an accept completes after another accept took the seat, or after the last human left: the user is mapped to a lobby without a seat in it, or sits in a lobby that is not live, and can neither leave nor create |
| Matchmaking_stale | a lobby cancels while the tick publishes an earlier game of its group, and is put in a game |
| Game_sits | a bot captures; its opponent replies while that move is published, which cancels the bot's task; its partner, a bot that sits and could drop the captured piece now, is not woken and loses on time |
| EnginePool_drain | an unload (or shutdown) with a search in flight never ends, because the search retires its worker instead of returning it |

`DesertedIsClosing`, `DesertedGoes` and `QueuedHasNoInvites` are checked and
proved for connections that drop anywhere but in leave and StartMatchmaking: a
call cancelled there skips the rest of the handler and breaks all three. This is
listed as a hazard, and so is that no property catches the lobby that is left
without humans. In Game, GameIsTimed and GameComesToAnEnd ask for no dropped connection for the same reason: the call
that mates may be cut before `_finish`, after it stopped the clock. A bot's task
that mates may be cancelled by a wake-up as well; that only happens on a board
two bots play, and GameIsTimed shows that a board where a human plays stays
timed. It and GameComesToAnEnd ask for a human, because with four bots
both boards may lose their last moves that way (TLC finds it with six moves on
each). `BotMoves` waits until the bot's previous move has left `_apply_move`: a
bot sleeps for bot_move_delay_min (400 ms by default) before it moves again.

## Fairness

* `Fairness` of Lobbies: a call in flight goes on. Redis and the database answer
  or fail, and the event loop runs every ready task. Requests themselves are
  never forced.
* `MatchFairness`: the same for the calls of the queue, and the loop, which
  sleeps and ticks for ever (`_run_loop` catches every error).
* `GuardFairness` of EnginePool: a search ends or meets its hang guard, and a
  process that answers quits when it is told. Nothing is assumed of the processes
  in `Stalling`: `_retire` awaits `engine.quit()` without a timeout, so that a
  stalled one keeps the call of `choose` that retires it waiting; nor of the start
  of a process, nor of sync. ChooseWaitsForItsOwn says that these two waits are
  the only ones. `ProcessFairness`, that every process does as it is told, is
  assumed by EnginePool_drain alone: DrainEnds fails even so.
* `GameFairness`: every task of a game goes on, and time passes, so that a clock
  that is not stopped and an abort timer that is not cleared go off. No player
  is forced to move or to resign.
* `PresenceFairness`: the tasks of an endpoint go on (a refresh that fails ends
  the connection), a key with a TTL runs out, and marks in flight are written or
  fail. No client is forced to leave or to stay.
* `SyncFairness`: the awaits of sync end; strong fairness for the lock because
  `asyncio.Lock` serves waiters in order. Only DrainEnds uses it, and fails in
  spite of it.

BotAdmin and Accounts state no liveness: the code promises none, and every
request may fail.

## What is proved

With TLAPS, for every value of the constants, under the named assumptions of the
modules (different kinds of names are disjoint, None is neither, bounds are
numbers). Fairness is never used.

**Lobbies.** `TypeCorrect`, `SeatedUsersAreMapped`, `OneSeatEach`: always TypeOK,
SeatedIsMapped and OneSeatPerHuman, wherever connections drop. The last two are not
inductive alone. `create` and `join_at` check the map before an await, so the
invariant must say that whoever waits in `create` or `join` is not mapped and
not seated, which in turn holds because a user has one call at a time, and that
nobody else can change the map entry of a user except a kick, which needs the
user to be seated. The invariant also says that the lobbies and users a
suspended call carries are real ones (`CallsOK`).

`LeadershipGoesToMembers` and `OnlyDesertedDissolve` (the action properties) follow
from types: only the end of a leave changes a leader, and it asks the seats in the
same step. `DesertedAreClosing` (if leave is not in Disconnects) is inductive: only
BeginLeave clears the seat of a human, and starts a leave of that lobby.
`QueuedAreClosed` (if queued is not in Disconnects) needs `CallFits`: the leader
whose invite, kick, enqueue or queued call is in flight is still the leader, so
that an invitation is never added to a lobby that somebody else has put in the queue
meanwhile, and no two leaders have such calls in one lobby. That a kick is of a member
of the leader's own lobby is SeatedIsMapped.

`LobbiesKeepMembership` (Lobbies implements Membership, wherever connections drop)
uses the invariant of SeatedIsMapped for Found, Enter and Exit: the one seat that
leave clears is all of the user, and who comes in was outside also after the
load. Succeed needs `AwayInv`: who leaves is outside until the call ends, and who kicks
still leads the lobby, so that leave replaces a leader only when it is the leader's own
leave. The end of a kick never does, although it asks `leader == username`.

**Ranker.** `TopologyHolds`, `PosForInverts`, `PlacementSeatsEverybody`: partners
sit on different boards in different colours, the players of a board are
opponents, and every placement the ranker accepts gives each position to one
seat and keeps partners together.

**Game.** `GameTypeCorrect`, `ClocksOfMovers`, `QuietAfterEnds`,
`MoversHaveTheTurn` and `GameImplementsLife` (Game implements GameLife), for
any line-ups and any number of moves and cancelled calls. ClockOfMover is not
inductive alone: a push changes the turn at once, and only a move that finds
two recorded moves stops the clock. The invariant adds that a clock runs, or is
waited for, only on a board with two recorded moves, so a push that leaves the
clock alone finds it off; and since the colour is read from the board after the
await, whoever overtook whom, it is the mover's. The refinement needs
QuietAfterEnd (a finished game has no bot that could still push) and that
`_finish` has its stages exactly when there is a result. MoverHasTurn needs
that a board has at most one thinking bot and that it is the one to move
(`TaskInv`), though `_apply_move` does not ask: whatever changes the turn also
replaces the task.

`GamesAreTimed`: not every board is always timed. A bot's call that is about to
end the game has stopped the clock, and may be cancelled when the other board wakes
this one's bot. The invariant therefore watches the boards with a human (`WatchInv`):
a human moves or is to move there, so the task a wake-up cancels is not the one that
stopped the clock (`OwnInv`: only calls of bots can be cancelled). A line-up
of four bots is no contradiction of the code: a leader whose seat was given to
somebody else (Lobbies_join) is still mapped, and may invite bots and queue the
lobby after the new owner of the seat has left. The theorems are about those
line-ups too, GameIsTimed is true of them for want of a human.

**Matchmaking.** `MatchTypeCorrect`, `QueuedAreControllable`,
`MatchDissolvesDeserted`, `MatchKeepsMembership`, `MatchSeatsAgree`. Each step
is one of Lobbies or writes nothing of the lobbies but their states
(`StepKinds`), so the lemmas about Lobbies are used as they stand. QueuedIsControllable needs that what a call found before its await
still holds after it (`HoldsCall`): whoever waits in enqueue is still mapped to the
lobby and leads it, who waits in create, join or leave is mapped to none. A
leader is replaced only by the end of the own leave, which began when the lobby was
idle, and who leaves leads no queued lobby since the map does not send that user to one. The
size of an entry is between 1 and 4 because enqueue counted it before its loads
(`CountedOK`); the seats it stores need not agree with it.

**EnginePool.** `TypeCorrect`, `OneUser`, `AvailableIsRunning`, `FirstPool`, from the
invariants `PoolInvariant` and `WholeInvariant`, for any pool, number of processes,
searches, syncs and loads. `LockInv`: a sync that loads or unloads is the only
holder of the lock and the pool does not count as loaded meanwhile; no other call
has processes of its own. `LoadInv`: the processes of a load run, and are in no queue
and no search yet. `PlaceInv`: a worker is in one queue or one search at most, and
the queue a search refers to is one that was made. `RunInv`: what lies in the
current queue runs. FirstPoolIsWhole is about sizes: a retirement takes a worker out
of the pool and adds the replacement later, so `FirstInv` says that the pool and the
searches that owe it a worker (`Owing`) are together no more than its size;
`SizeInv` bounds what a load starts, and `EmptyInv` says that before the first load
ends there is nothing but what it started.

**Presence.** `PresenceTypeCorrect`, `AvailabilityIsExact`, `OnlyTimeReleases`.
The invariant says of an undisturbed user that there is at most one connection,
that it holds the lock, and for each combination of its stage and the marks in
flight what the set holds and what will still be written: the last writer
leaves the right entry whichever order the commands of both processes take. A
stranded user is idle, and until the name is added no idle mark is
forgotten: who is idle, online, not in the set and about to be added by nobody is
stranded.

**BotAdmin.** `BotTypeCorrect`, `EnginesAreEnabled`, `CoreIsInStep`,
`DisabledSitNowhere`. The invariant follows an update through its stages: what it
decided agrees (an engine is never kept on for a bot switched off), who writes
alone finds the first set as it left it when it writes the second, a sync still
to come will bring the core in line, and a bot that sits without being enabled
is about to be evicted.

**Accounts.** `AccountsTypeCorrect`, `OneOwnerEach`, `LogoutIsFinal`,
`SessionsMatchLinks`, `NoAccountIsHalf`. The invariant says what an open
transaction holds: its keys are not taken by a committed row, no two
open transactions hold the same key or row, and a request that answers for a
user has found, or inserted, the link of its account to that user. LogoutIsFinal
needs that the revocation in Redis precedes the new secret in every order of
requests and failures.

Only model-checked: liveness (DesertedGoes, MatchableIsFired, ChooseWaitsForItsOwn,
BotMoves, the leads-to properties of Game and Presence), which is beyond the prover,
and CompleteWasQueued, which is not true of every instance: when a group starts a
lobby from a stale snapshot while that lobby is in enqueue again, the lobby is in a
game and in the queue at once, and after the game it is idle with an entry that the
next tick starts. TLC finds this with four pairs, one of which cancels, seats two
bots and queues again. In Matchmaking_mixed no lobby of four is ever part of a
group, and the property is about the snapshot of the complete lobbies alone.

## What is not modelled

* Chat, the order of `game.moves`, and the awaits within saving and releasing a
  game: Game takes FinishEnds as one step, what releasing does to lobbies is
  GameEnds of Matchmaking and what it does to players EndGame and ReturnToLobbies
  of Presence.
* In Matchmaking: kick, set_config and the eviction of bots, which Lobbies has. A
  queued lobby is closed to all three; while it is in enqueue a leave stands for
  what a kick or an eviction does to its seats. Matchable is the search of
  the ranker as it is for groups of up to 24 entries, beyond which it tries some.
* A task that is cancelled inside `_retire`: EnginePool lets such a call end as if
  the replacement had not started, and has no process left behind. In
  BotAdmin, a smembers that fails when the core starts.
* Ratings: `create_game` reads them afresh, but a Seat keeps the rating its user
  had when joining, so a lobby that stays together is matched by that one.
* Events and what a client sees: which events are lost between the first
  snapshot and the subscription, and the translation of messages by the
  dispatcher.
* login and refresh, which write nothing: their answers are AccessAccepted and
  RefreshAccepted. Cryptography and the provider are external.
* Scores of matches, chess rules, texts, logging, schemas, queries for pages of
  statistics, HTTP routing, generated code and migrations are left out for good.

A restart of the core loses all of its state by design: it is the initial state
of Lobbies, Matchmaking, EnginePool and Game, and a step of Presence and
BotAdmin, where Redis survives it.

Behaviour the models have but no property is stated against, because nothing in
the repository claims the contrary:

* an entry with a member whose colour was never loaded makes every tick raise
  (`SearchRaises`); a member who leaves during the loads leaves an entry whose
  size is not its number of seats, which is never matched;
* a failing `create_game` strands its lobbies in the state in_game
  (`CreateGameFails`);
* `invalidated_access_token` has no expiry and nothing deletes it, so that after
  logout_all the access tokens of later logins are refused as well;
* the GET and DEL of an OAuth state are two commands: two callbacks may both find
  it. SessionMatchesLink and OneOwner hold all the same;
* tokens may reach the client before the commit that creates their user fails;
* users who were in a lobby or game when only the core restarts, and players of
  a stale entry who had left a lobby that lives on, are unavailable until they
  reconnect or leave another lobby (`stranded`);
* a process that stalls keeps the call of `choose` that retires it, and with it a
  bot's move, waiting until the task is cancelled;
* a start that fails after a retirement makes the pool smaller for good;
* after a seat was given twice, a lobby of four bots and no human can be queued
  and played; if its bots cancel each other's last moves, that game is never
  decided.

## Plan

1. Lobbies, Ranker, Topology, Matchmaking, EnginePool, Game, GameLife, Presence,
   BotAdmin, Accounts: done, and every invariant the runs check is proved.
2. Membership: done, for Lobbies and for Matchmaking. Left is an abstract queue (who
   waits, who plays) that Matchmaking implements. It has to allow what the
   findings show: a match with a lobby that is idle again, or in a second game.
3. Delivery of events, as far as a client depends on it; the steps of saving a
   game.
