------------------------------ MODULE Lobbies ------------------------------
(***************************************************************************)
(* LobbyManager, InviteManager and the lobby part of CoreServiceServicer   *)
(* (services/core/lobby/manager.py, invites.py, main.py), as one asyncio   *)
(* process runs them.                                                      *)
(*                                                                         *)
(* The code between two real suspensions of a handler (a database load, a  *)
(* Redis command or publish) runs without interleaving, so an action is    *)
(* the code from one suspension to the next.  rpc[u] is the call the       *)
(* websocket connection of user u waits for: the endpoint reads a message  *)
(* only after the reply to the previous one, so there is at most one.      *)
(*                                                                         *)
(* A Lobby object outlives its entry in LobbyManager._lobbies: a handler   *)
(* suspended while it holds the object goes on to read and write it.  So   *)
(* lobby is the heap of Lobby objects and live the set of keys of          *)
(* _lobbies.                                                               *)
(***************************************************************************)
EXTENDS Integers, FiniteSets

CONSTANTS
    Users,          \* usernames of humans
    Bots,           \* names in the BotRegistry
    LobbyIds,       \* identities of Lobby objects (uuid4: reused only when
                    \* nothing refers to the old object any more)
    Nobody,         \* None as a seat, a username or a leader
    NoLobby,        \* None as a lobby id
    InviteSlots,    \* BOUND: seat indices that invitations name
    Disconnects     \* BOUND: where a handler may be suspended when the
                    \* connection drops, which cancels it

Slots == 0 .. 3

(* op names the await a handler is suspended at:                           *)
(*   create, join     _load_seat                                           *)
(*   seat_bot         _is_enabled_bot                                      *)
(*   invite           _is_online                                           *)
(*   leave            mark_idle_if_online, and publish_lobby_kicked        *)
(*   cleanup          the publishes before cleanup_for_user(who)           *)
(*   enqueue          the loads of the players in enqueue                  *)
(*   queued           publish_queue_started, before cleanup_for_lobby      *)
Ops == {"none", "create", "join", "seat_bot", "invite", "leave", "cleanup",
        "enqueue", "queued"}

ASSUME ConstantsAssumption ==
    /\ Nobody \notin Users \cup Bots
    /\ Users \cap Bots = {}
    /\ NoLobby \notin LobbyIds
    /\ InviteSlots \subseteq Slots
    /\ Disconnects \subseteq Ops

VARIABLES
    lobby,          \* the Lobby objects
    live,           \* keys of LobbyManager._lobbies
    userToLobby,    \* LobbyManager._user_to_lobby
    invites,        \* InviteManager._invites, keyed by (sender, receiver)
    rpc,            \* the handler each user's connection waits for
    evict           \* the SyncBot handler that evicts a disabled bot

vars == <<lobby, live, userToLobby, invites, rpc, evict>>

Players == Users \cup Bots

LobbyStates == {"idle", "in_queue", "in_game"}

Lobby == [leader : Users \cup {Nobody},
          seats  : [Slots -> Players \cup {Nobody}],
          rated  : BOOLEAN,
          state  : LobbyStates]

Invite == [sender : Users, receiver : Users, lobby : LobbyIds, idx : Slots]

Calls == [op : Ops, lobby : LobbyIds \cup {NoLobby},
          who : Players \cup {Nobody}, idx : Slots]

Call(op, l, who, i) == [op |-> op, lobby |-> l, who |-> who, idx |-> i]

NoCall == Call("none", NoLobby, Nobody, 0)

NoEviction == [bot |-> Nobody, todo |-> {}, cur |-> NoLobby, next |-> 0]

EmptySeats == [i \in Slots |-> Nobody]

BlankLobby == [leader |-> Nobody, seats |-> EmptySeats, rated |-> FALSE,
               state |-> "idle"]

----------------------------------------------------------------------------
(* Queries                                                                 *)

HasHuman(seats) == \E i \in Slots : seats[i] \in Users

HasBot(seats) == \E i \in Slots : seats[i] \in Bots

Taken(seats) == {i \in Slots : seats[i] # Nobody}

(* get_by_user: the live lobby of u, or None.                              *)
LobbyOf(u) == IF userToLobby[u] \in live THEN userToLobby[u] ELSE NoLobby

(* The slot of the first seat, in slot order, that satisfies a test is the *)
(* least element of the set of slots that do.                              *)
First(S) == CHOOSE i \in S : \A j \in S : i <= j

SlotsOf(name, seats) == {i \in Slots : seats[i] = name}

(* Mutant: the next leader is the first occupant, bot or human.            *)
HumanSlotsOrBots(seats) == Taken(seats)

HumanSlots(seats) == {i \in Slots : seats[i] \in Users}

(* Mutant: members may leave and join a lobby in the queue.                *)
MutableInQueue(l) == l \in live /\ lobby[l].state # "in_game"

(* _require_lobby and _ensure_mutable.                                     *)
Mutable(l) == l \in live /\ lobby[l].state = "idle"

(* The checks every call of a leader on the own lobby starts with.         *)
LeadsMutable(u, l) ==
    /\ l = userToLobby[u]
    /\ Mutable(l)
    /\ lobby[l].leader = u

(* Mutant: join_at forgets to ask whether the user is in a lobby.          *)
CanJoinTwice(u, l, i) ==
    /\ Mutable(l)
    /\ lobby[l].seats[i] = Nobody

(* The checks of join_at, all made before _load_seat.                      *)
CanJoin(u, l, i) ==
    /\ Mutable(l)
    /\ userToLobby[u] = NoLobby
    /\ lobby[l].seats[i] = Nobody

(* The seat, config and state checks of enqueue.                           *)
CanQueue(l) ==
    LET size == Cardinality(Taken(lobby[l].seats)) IN
    /\ lobby[l].state = "idle"
    /\ size \in 1 .. 4
    /\ ~(size = 3 /\ lobby[l].rated)
    /\ HasBot(lobby[l].seats) => size = 4 /\ ~lobby[l].rated

(* An object nothing refers to stands for the one Lobby() makes next.      *)
Fresh(l) ==
    /\ l \in LobbyIds \ live
    /\ \A u \in Users : userToLobby[u] # l /\ rpc[u].lobby # l
    /\ \A inv \in invites : inv.lobby # l
    /\ l \notin evict.todo \cup {evict.cur}

NotFrom(name) ==
    {inv \in invites : inv.sender # name /\ inv.receiver # name}

Reply(u) == rpc' = [rpc EXCEPT ![u] = NoCall]

Await(u, op, l, who, i) == rpc' = [rpc EXCEPT ![u] = Call(op, l, who, i)]

SetSeat(l, i, name) ==
    lobby' = [lobby EXCEPT ![l].seats[i] = name]

----------------------------------------------------------------------------
(* Creating, inviting and joining                                          *)

CreateLobby(u) ==
    /\ rpc[u] = NoCall
    /\ userToLobby[u] = NoLobby
    /\ Await(u, "create", NoLobby, u, 0)
    /\ UNCHANGED <<lobby, live, userToLobby, invites, evict>>

CreateResume(u) ==
    /\ rpc[u].op = "create"
    /\ \E l \in LobbyIds :
          /\ Fresh(l)
          /\ lobby' = [lobby EXCEPT ![l] =
                [BlankLobby EXCEPT !.leader = u, !.seats[0] = u]]
          /\ live' = live \cup {l}
          /\ userToLobby' = [userToLobby EXCEPT ![u] = l]
    /\ Reply(u)
    /\ UNCHANGED <<invites, evict>>

(* A bot is seated at once if it is enabled, a human gets an invitation if *)
(* online; either answer comes from Redis.                                 *)
SendInvite(u, name, i) ==
    LET l == LobbyOf(u) IN
    /\ rpc[u] = NoCall
    /\ name # u
    /\ l # NoLobby
    /\ LeadsMutable(u, l)
    /\ lobby[l].seats[i] = Nobody
    /\ name \in Users => LobbyOf(name) = NoLobby
    /\ Await(u, IF name \in Bots THEN "seat_bot" ELSE "invite", l, name, i)
    /\ UNCHANGED <<lobby, live, userToLobby, invites, evict>>

InviteResume(u) ==
    /\ rpc[u].op = "invite"
    /\ invites' =
          {inv \in invites : inv.sender # u \/ inv.receiver # rpc[u].who}
          \cup {[sender |-> u, receiver |-> rpc[u].who,
                 lobby |-> rpc[u].lobby, idx |-> rpc[u].idx]}
    /\ Reply(u)
    /\ UNCHANGED <<lobby, live, userToLobby, evict>>

(* add_bot; _load_seat of a registered bot does not suspend.               *)
SeatBotResume(u) ==
    /\ rpc[u].op = "seat_bot"
    /\ Mutable(rpc[u].lobby)
    /\ lobby[rpc[u].lobby].seats[rpc[u].idx] = Nobody
    /\ ~lobby[rpc[u].lobby].rated
    /\ SetSeat(rpc[u].lobby, rpc[u].idx, rpc[u].who)
    /\ Reply(u)
    /\ UNCHANGED <<live, userToLobby, invites, evict>>

(* accept: the invitation is taken first, whatever join_at then says.      *)
AcceptInvite(u, inv) ==
    /\ rpc[u] = NoCall
    /\ inv.receiver = u
    /\ CanJoin(u, inv.lobby, inv.idx)
    /\ invites' = invites \ {inv}
    /\ Await(u, "join", inv.lobby, u, inv.idx)
    /\ UNCHANGED <<lobby, live, userToLobby, evict>>

(* reject, and an accept that finds the invitation expired or join_at      *)
(* impossible: in each case the invitation is gone and nothing else moves. *)
RejectInvite(u, inv) ==
    /\ rpc[u] = NoCall
    /\ inv.receiver = u
    /\ invites' = invites \ {inv}
    /\ UNCHANGED <<lobby, live, userToLobby, rpc, evict>>

(* The second half of join_at: nothing is checked again after the load.    *)
JoinResume(u) ==
    /\ rpc[u].op = "join"
    /\ SetSeat(rpc[u].lobby, rpc[u].idx, u)
    /\ userToLobby' = [userToLobby EXCEPT ![u] = rpc[u].lobby]
    /\ Await(u, "cleanup", NoLobby, u, 0)
    /\ UNCHANGED <<live, invites, evict>>

(* Mutant: an error of a publish inside leave ends the handler.            *)
RequestOrLeaveFails(u) ==
    /\ rpc[u].op \in {"create", "join", "seat_bot", "invite", "enqueue", "leave"}
    /\ Reply(u)
    /\ UNCHANGED <<lobby, live, userToLobby, invites, evict>>

(* The awaited answer makes the handler fail: no such user, a database     *)
(* error, an invitee offline, a bot disabled, or add_bot refuses.          *)
RequestFails(u) ==
    /\ rpc[u].op \in {"create", "join", "seat_bot", "invite", "enqueue"}
    /\ Reply(u)
    /\ UNCHANGED <<lobby, live, userToLobby, invites, evict>>

----------------------------------------------------------------------------
(* Leaving and kicking                                                     *)

(* Mutant: a kick takes the leader who calls it out of the map.            *)
BeginLeaveOfCaller(u, t) ==
    LET l == userToLobby[t] IN
    /\ l # NoLobby
    /\ Mutable(l)
    /\ SlotsOf(t, lobby[l].seats) # {}
    /\ SetSeat(l, First(SlotsOf(t, lobby[l].seats)), Nobody)
    /\ userToLobby' = [userToLobby EXCEPT ![u] = NoLobby]
    /\ Await(u, "leave", l, t, 0)
    /\ UNCHANGED <<live, invites, evict>>

(* leave(t) up to its first await, inside a call of u.                     *)
BeginLeave(u, t) ==
    LET l == userToLobby[t] IN
    /\ l # NoLobby
    /\ Mutable(l)
    /\ SlotsOf(t, lobby[l].seats) # {}
    /\ SetSeat(l, First(SlotsOf(t, lobby[l].seats)), Nobody)
    /\ userToLobby' = [userToLobby EXCEPT ![t] = NoLobby]
    /\ Await(u, "leave", l, t, 0)
    /\ UNCHANGED <<live, invites, evict>>

LeaveLobby(u) == rpc[u] = NoCall /\ BeginLeave(u, u)

KickUser(u, t) ==
    /\ rpc[u] = NoCall
    /\ t # u
    /\ \E l \in LobbyIds : LeadsMutable(u, l) /\ SlotsOf(t, lobby[l].seats) # {}
    /\ BeginLeave(u, t)

(* remove_bot, which kick calls for a bot.                                 *)
KickBot(u, b) ==
    /\ rpc[u] = NoCall
    /\ \E l \in LobbyIds :
          /\ LeadsMutable(u, l)
          /\ SlotsOf(b, lobby[l].seats) # {}
          /\ SetSeat(l, First(SlotsOf(b, lobby[l].seats)), Nobody)
    /\ Await(u, "cleanup", NoLobby, b, 0)
    /\ UNCHANGED <<live, userToLobby, invites, evict>>

(* Mutant: leave picks a new leader whoever left.                          *)
LeaveAlwaysReelects(u) ==
    LET l == rpc[u].lobby IN
    /\ rpc[u].op = "leave"
    /\ HasHuman(lobby[l].seats)
    /\ lobby' = [lobby EXCEPT ![l].leader =
                    lobby[l].seats[First(HumanSlots(lobby[l].seats))]]
    /\ Await(u, "cleanup", NoLobby, rpc[u].who, 0)
    /\ UNCHANGED <<live, userToLobby, invites, evict>>

(* has_human is asked of the object after the awaits: someone may have     *)
(* joined, or the lobby may have been dissolved, meanwhile.                *)
LeaveRemains(u) ==
    LET l == rpc[u].lobby IN
    /\ rpc[u].op = "leave"
    /\ HasHuman(lobby[l].seats)
    /\ lobby' = IF lobby[l].leader = rpc[u].who
                THEN [lobby EXCEPT ![l].leader =
                        lobby[l].seats[First(HumanSlots(lobby[l].seats))]]
                ELSE lobby
    /\ Await(u, "cleanup", NoLobby, rpc[u].who, 0)
    /\ UNCHANGED <<live, userToLobby, invites, evict>>

(* Mutants: a lobby is dissolved with its leader; it is never dissolved.   *)
LeaderDissolves(u) ==
    LET l == rpc[u].lobby IN
    /\ rpc[u].op = "leave"
    /\ lobby[l].leader = rpc[u].who
    /\ l \in live
    /\ live' = live \ {l}
    /\ invites' = NotFrom(rpc[u].who)
    /\ Reply(u)
    /\ UNCHANGED <<lobby, userToLobby, evict>>

LeaveKeeps(u) ==
    /\ rpc[u].op = "leave"
    /\ ~HasHuman(lobby[rpc[u].lobby].seats)
    /\ rpc[u].lobby \in live
    /\ invites' = NotFrom(rpc[u].who)
    /\ Reply(u)
    /\ UNCHANGED <<lobby, live, userToLobby, evict>>

LeaveDissolves(u) ==
    LET l == rpc[u].lobby IN
    /\ rpc[u].op = "leave"
    /\ ~HasHuman(lobby[l].seats)
    /\ l \in live
    /\ live' = live \ {l}
    /\ invites' = NotFrom(rpc[u].who)
    /\ Reply(u)
    /\ UNCHANGED <<lobby, userToLobby, evict>>

(* del of a key that is gone raises KeyError: the call ends with an        *)
(* internal error and the handler's cleanup_for_user is skipped.           *)
LeaveKeyError(u) ==
    /\ rpc[u].op = "leave"
    /\ ~HasHuman(lobby[rpc[u].lobby].seats)
    /\ rpc[u].lobby \notin live
    /\ Reply(u)
    /\ UNCHANGED <<lobby, live, userToLobby, invites, evict>>

CleanupResume(u) ==
    /\ rpc[u].op = "cleanup"
    /\ invites' = NotFrom(rpc[u].who)
    /\ Reply(u)
    /\ UNCHANGED <<lobby, live, userToLobby, evict>>

----------------------------------------------------------------------------
(* Configuration, queue and game transitions                               *)

SetLobbyConfig(u, rated) ==
    /\ rpc[u] = NoCall
    /\ \E l \in LobbyIds :
          /\ LeadsMutable(u, l)
          /\ lobby' = [lobby EXCEPT ![l].rated = rated]
    /\ UNCHANGED <<live, userToLobby, invites, rpc, evict>>

(* enqueue up to the database loads of the players' sigmas and colours.    *)
StartMatchmaking(u) ==
    LET l == LobbyOf(u) IN
    /\ rpc[u] = NoCall
    /\ l # NoLobby
    /\ lobby[l].leader = u
    /\ CanQueue(l)
    /\ Await(u, "enqueue", l, u, 0)
    /\ UNCHANGED <<lobby, live, userToLobby, invites, evict>>

(* The rest of enqueue, whatever became of the lobby meanwhile.            *)
EnqueueResume(u) ==
    LET l == rpc[u].lobby IN
    /\ rpc[u].op = "enqueue"
    /\ l \in live
    /\ lobby' = [lobby EXCEPT ![l].state = "in_queue"]
    /\ Await(u, "queued", l, u, 0)
    /\ UNCHANGED <<live, userToLobby, invites, evict>>

(* Mutant: StartMatchmaking without cleanup_for_lobby.                     *)
QueuedKeepsInvites(u) ==
    /\ rpc[u].op = "queued"
    /\ Reply(u)
    /\ UNCHANGED <<lobby, live, userToLobby, invites, evict>>

QueuedResume(u) ==
    /\ rpc[u].op = "queued"
    /\ invites' = {inv \in invites : inv.lobby # rpc[u].lobby}
    /\ Reply(u)
    /\ UNCHANGED <<lobby, live, userToLobby, evict>>

CancelMatchmaking(u) ==
    LET l == LobbyOf(u) IN
    /\ rpc[u] = NoCall
    /\ l # NoLobby
    /\ lobby[l].leader = u
    /\ lobby[l].state = "in_queue"
    /\ lobby' = [lobby EXCEPT ![l].state = "idle"]
    /\ UNCHANGED <<live, userToLobby, invites, rpc, evict>>

(* The queue's tick starts a game with the lobby.                          *)
MarkInGame(l) ==
    /\ l \in live
    /\ lobby[l].state = "in_queue"
    /\ lobby' = [lobby EXCEPT ![l].state = "in_game"]
    /\ UNCHANGED <<live, userToLobby, invites, rpc, evict>>

(* The GameManager ends that game.                                         *)
ReleaseFromGame(l) ==
    /\ l \in live
    /\ lobby[l].state = "in_game"
    /\ lobby' = [lobby EXCEPT ![l].state = "idle"]
    /\ UNCHANGED <<live, userToLobby, invites, rpc, evict>>

----------------------------------------------------------------------------
(* Evicting a disabled bot (BOUND: one SyncBot call at a time)             *)

Evictable(l, b) == lobby[l].state = "idle" /\ SlotsOf(b, lobby[l].seats) # {}

(* The loop over the lobbies goes on through those it has nothing to do in *)
(* and suspends in the next one where it removed the bot from a seat.  Its *)
(* order, that of the dict, is abstracted to any order.                    *)
EvictFrom(todo, b, newLive) ==
    /\ live' = newLive
    /\ \/ \E l \in todo, skipped \in SUBSET todo :
             LET i == First(SlotsOf(b, lobby[l].seats)) IN
             /\ Evictable(l, b)
             /\ \A s \in skipped : ~Evictable(s, b)
             /\ SetSeat(l, i, Nobody)
             /\ evict' = [bot |-> b, todo |-> (todo \ skipped) \ {l},
                          cur |-> l, next |-> i + 1]
       \/ /\ \A s \in todo : ~Evictable(s, b)
          /\ evict' = NoEviction
          /\ lobby' = lobby

EvictLater == {i \in SlotsOf(evict.bot, lobby[evict.cur].seats) :
                 i >= evict.next}

EvictBegin(b) ==
    /\ evict = NoEviction
    /\ EvictFrom(live, b, live)
    /\ UNCHANGED <<userToLobby, invites, rpc>>

(* Another seat of the same lobby object, whatever its state is by now.    *)
EvictSeat ==
    /\ evict.cur # NoLobby
    /\ EvictLater # {}
    /\ SetSeat(evict.cur, First(EvictLater), Nobody)
    /\ evict' = [evict EXCEPT !.next = First(EvictLater) + 1]
    /\ UNCHANGED <<live, userToLobby, invites, rpc>>

EvictNextLobby ==
    /\ evict.cur # NoLobby
    /\ EvictLater = {}
    /\ HasHuman(lobby[evict.cur].seats) \/ evict.cur \in live
    /\ EvictFrom(evict.todo, evict.bot,
                 IF HasHuman(lobby[evict.cur].seats) THEN live
                 ELSE live \ {evict.cur})
    /\ UNCHANGED <<userToLobby, invites, rpc>>

(* del of a key that is gone: the rest of the eviction is lost.            *)
EvictKeyError ==
    /\ evict.cur # NoLobby
    /\ EvictLater = {}
    /\ ~HasHuman(lobby[evict.cur].seats)
    /\ evict.cur \notin live
    /\ evict' = NoEviction
    /\ UNCHANGED <<lobby, live, userToLobby, invites, rpc>>

----------------------------------------------------------------------------
(* The connection drops: the backend's client loop is cancelled, gRPC      *)
(* cancels the call, and CancelledError ends the handler where it awaits.  *)
Disconnect(u) ==
    /\ rpc[u].op \in Disconnects
    /\ rpc[u] # NoCall
    /\ Reply(u)
    /\ UNCHANGED <<lobby, live, userToLobby, invites, evict>>

MemberRequest(u) ==
    \/ CreateLobby(u)
    \/ \E name \in Players, i \in InviteSlots : SendInvite(u, name, i)
    \/ \E inv \in invites : AcceptInvite(u, inv) \/ RejectInvite(u, inv)
    \/ LeaveLobby(u)
    \/ \E t \in Users : KickUser(u, t)
    \/ \E b \in Bots : KickBot(u, b)
    \/ \E rated \in BOOLEAN : SetLobbyConfig(u, rated)

Request(u) ==
    \/ MemberRequest(u)
    \/ StartMatchmaking(u)
    \/ CancelMatchmaking(u)

MemberResume(u) ==
    \/ CreateResume(u)
    \/ InviteResume(u)
    \/ SeatBotResume(u)
    \/ JoinResume(u)
    \/ RequestFails(u)
    \/ LeaveRemains(u)
    \/ LeaveDissolves(u)
    \/ LeaveKeyError(u)
    \/ CleanupResume(u)
    \/ QueuedResume(u)

Resume(u) == MemberResume(u) \/ EnqueueResume(u)

Evict ==
    \/ \E b \in Bots : EvictBegin(b)
    \/ EvictSeat
    \/ EvictNextLobby
    \/ EvictKeyError

Init ==
    /\ lobby = [l \in LobbyIds |-> BlankLobby]
    /\ live = {}
    /\ userToLobby = [u \in Users |-> NoLobby]
    /\ invites = {}
    /\ rpc = [u \in Users |-> NoCall]
    /\ evict = NoEviction

Next ==
    \/ \E u \in Users : Request(u) \/ Resume(u) \/ Disconnect(u)
    \/ \E l \in LobbyIds : MarkInGame(l) \/ ReleaseFromGame(l)
    \/ Evict

Spec == Init /\ [][Next]_vars

(* The event loop runs every handler whose awaited answer has come, and    *)
(* Redis and the database answer or fail: a call in flight goes on.        *)
Fairness == \A u \in Users : WF_vars(Resume(u))

FairSpec == Spec /\ Fairness

----------------------------------------------------------------------------
(* Properties                                                              *)

Seated(u, l) == \E i \in Slots : lobby[l].seats[i] = u

Humans(l) == {u \in Users : Seated(u, l)}

LeaveInFlight(l) ==
    \E u \in Users : rpc[u].op = "leave" /\ rpc[u].lobby = l

(* Every variable has its type.                                            *)
TypeOK ==
    /\ lobby \in [LobbyIds -> Lobby]
    /\ live \in SUBSET LobbyIds
    /\ userToLobby \in [Users -> LobbyIds \cup {NoLobby}]
    /\ invites \in SUBSET Invite
    /\ rpc \in [Users -> Calls]
    /\ evict \in [bot : Bots \cup {Nobody}, todo : SUBSET LobbyIds,
                  cur : LobbyIds \cup {NoLobby}, next : 0 .. 4]

(* A human who sits in a lobby object is mapped to it by _user_to_lobby:   *)
(* leave, kick and queries find everybody who is seated, so nobody sits in *)
(* two lobbies, although create and join_at check the map before an await  *)
(* and write it after.                                                     *)
SeatedIsMapped ==
    \A u \in Users, l \in LobbyIds : Seated(u, l) => userToLobby[u] = l

(* Nobody holds two seats of a lobby, so clearing the first one found in   *)
(* leave removes the user.                                                 *)
OneSeatPerHuman ==
    \A u \in Users, l \in LobbyIds, i, j \in Slots :
        lobby[l].seats[i] = u /\ lobby[l].seats[j] = u => i = j

(* A live lobby without a human is on its way out: some handler is inside  *)
(* leave, after the seat was cleared and before has_human is asked.        *)
DesertedIsClosing ==
    \A l \in live : Humans(l) = {} => LeaveInFlight(l)

(* A lobby in the queue has no open invitation, except while the leader's  *)
(* StartMatchmaking has not reached its cleanup: nobody can accept into a  *)
(* lobby that is matched as it stands.                                     *)
QueuedHasNoInvites ==
    \A inv \in invites :
        LET l == inv.lobby IN
        l \in live /\ lobby[l].state = "in_queue"
            => \E u \in Users : rpc[u].op = "queued" /\ rpc[u].lobby = l

(* A lobby is dissolved only when no human sits in it: has_human is asked  *)
(* in the step that deletes it, not before the awaits of leave.            *)
DissolvedOnlyDeserted ==
    [][\A l \in live \ live' : Humans(l) = {}]_vars

(* Leadership only ever passes to a human who sits in the lobby at that    *)
(* moment, never to a bot, and only from someone whose leave is under way. *)
LeadershipPasses ==
    [][\A l \in live \cap live' :
          lobby'[l].leader # lobby[l].leader =>
            /\ lobby'[l].leader \in Humans(l)
            /\ \E u \in Users : rpc[u].op = "leave" /\ rpc[u].lobby = l
                                /\ rpc[u].who = lobby[l].leader]_vars

(* A live lobby that lost its last human does not stay: it is dissolved or *)
(* a human whose join was under way sits in it again.                      *)
DesertedGoes ==
    \A l \in LobbyIds :
        (l \in live /\ Humans(l) = {}) ~> (l \notin live \/ Humans(l) # {})

(* The lobbies as their users know them.                                   *)
Group == INSTANCE Membership WITH
    Persons <- Users,
    Rooms <- LobbyIds,
    Outside <- NoLobby,
    NoLeader <- Nobody,
    place <- userToLobby,
    members <- [l \in LobbyIds |-> Humans(l)],
    leader <- [l \in LobbyIds |-> lobby[l].leader],
    opened <- live

(* In whatever order the halves of create, join, leave and kick meet, each *)
(* user comes in from outside, goes out from a seat, and succeeds a leader *)
(* who has gone: Lobbies implements Membership.                            *)
KeepsMembership == Group!MembershipSpec

(* errors.py, seat_occupied: "Target seat is already occupied", and        *)
(* manager.py: "A lobby only lives while at least one human is seated":    *)
(* whoever is mapped to a lobby, and waits for no call, sits in it, and it *)
(* lives; nobody else was given the seat and the lobby was not dissolved.  *)
MappedIsSeated ==
    \A u \in Users, l \in LobbyIds :
        userToLobby[u] = l /\ rpc[u] = NoCall => Seated(u, l) /\ l \in live
=============================================================================
