---------------------------- MODULE Matchmaking ----------------------------
(***************************************************************************)
(* The lobby service with the QueueManager and the life of games           *)
(* (services/core/queue/manager.py, GameManager.create_game and            *)
(* _return_to_lobbies).                                                    *)
(*                                                                         *)
(* The queue loop is one task; it suspends in create_game only.  While it  *)
(* does, tick holds its local variables: the snapshots of entries it goes  *)
(* on with, which are not refreshed from _entries.                         *)
(***************************************************************************)
EXTENDS Lobbies

CONSTANTS
    NoEntry,        \* no QueueEntry under a lobby id
    Active,         \* BOUND: the users who issue requests
    Requests        \* BOUND: what they ask for beside matchmaking

ASSUME BoundsAssumption ==
    /\ Active \subseteq Users
    /\ Requests \subseteq {"create", "invite", "answer", "leave"}

INSTANCE Ranker

VARIABLES
    entries,        \* QueueManager._entries
    load,           \* the local variables of enqueue, per user
    tick,           \* the local variables of _do_tick
    games           \* games that run

queueVars == <<entries, load, tick, games>>

allVars == <<vars, queueVars>>

Entry == [lobby : LobbyIds, size : 1 .. 4, rated : BOOLEAN,
          seats : [Slots -> Players \cup {Nobody}], known : SUBSET Slots]

ASSUME EntryAssumption == NoEntry \notin Entry

(* next is the slot the loop over the seats comes to next.                 *)
Load == [size : 0 .. 4, next : 0 .. 4, known : SUBSET Slots]

NoLoad == [size |-> 0, next |-> 0, known |-> {}]

(* A game is what it returns to at its end: the lobby ids of its players   *)
(* who are humans.                                                         *)
Game == SUBSET LobbyIds

(* phase: "sleep", "create" (suspended in the loads of create_game) or     *)
(* "publish" (the game exists, its start is being published); loop: the    *)
(* loop of the tick that called _fire.                                     *)
Sleeping == [phase |-> "sleep", loop |-> "none", complete |-> {},
             groups |-> {}, group |-> {}, game |-> {}]

Queued == {l \in LobbyIds : entries[l] # NoEntry}

----------------------------------------------------------------------------
(* enqueue and cancel                                                      *)

(* The slot the loop over the seats suspends at when it goes on from slot  *)
(* next: that of the next human, or the last one, after which the session  *)
(* commits.                                                                *)
Awaited(next, seats) ==
    LET humans == {i \in HumanSlots(seats) : i >= next} IN
    IF humans = {} THEN 3 ELSE First(humans)

(* The loop up to there: bots are known at once, the human is awaited.  To *)
(* wait for slot 3 and then for the commit is one suspension, as nothing   *)
(* is read between them.  (Without any human the commit sends nothing and  *)
(* does not suspend; that it may here adds interleavings only.)            *)
Scan(old, seats) ==
    LET last == Awaited(old.next, seats) IN
    [old EXCEPT
        !.next = last + 1,
        !.known = @ \cup {i \in Taken(seats) : old.next <= i /\ i <= last}]

(* StartMatchmaking: everything enqueue checks and counts before the first *)
(* load, which is for the first human.                                     *)
BeginEnqueue(u) ==
    LET seats == lobby[LobbyOf(u)].seats
        counted == [NoLoad EXCEPT !.size = Cardinality(Taken(seats))]
    IN
    /\ StartMatchmaking(u)
    /\ LobbyOf(u) \notin Queued
    /\ load' = [load EXCEPT ![u] = Scan(counted, seats)]
    /\ UNCHANGED <<entries, tick, games>>

(* A load is done, and the loop goes on through the seats as they are now. *)
LoadNext(u) ==
    /\ rpc[u].op = "enqueue"
    /\ load[u].next <= 3
    /\ load' = [load EXCEPT ![u] = Scan(load[u], lobby[rpc[u].lobby].seats)]
    /\ UNCHANGED <<vars, entries, tick, games>>

NewEntry(u) ==
    LET now == lobby[rpc[u].lobby] IN
    [lobby |-> rpc[u].lobby, size |-> load[u].size, rated |-> now.rated,
     seats |-> now.seats,
     known |-> load[u].known]

(* The loads are committed.  The entry takes the seats as they are now: of *)
(* one taken behind the loop nothing is known.  It is stored before        *)
(* mark_in_queue looks for the lobby, and stays when that raises because   *)
(* the lobby is gone.  Without a seat left there is no average rating:     *)
(* ZeroDivisionError, as RequestFails.                                     *)
FinishEnqueue(u) ==
    LET l == rpc[u].lobby IN
    /\ rpc[u].op = "enqueue"
    /\ load[u].next = 4
    /\ Taken(lobby[l].seats) # {}
    /\ entries' = [entries EXCEPT ![l] = NewEntry(u)]
    /\ IF l \in live THEN EnqueueResume(u)
       ELSE Reply(u) /\ UNCHANGED <<lobby, live, userToLobby, invites, evict>>
    /\ load' = [load EXCEPT ![u] = NoLoad]
    /\ UNCHANGED <<tick, games>>

(* cancel asks _entries, not the state of the lobby.                       *)
CancelQueued(u) ==
    LET l == LobbyOf(u) IN
    /\ rpc[u] = NoCall
    /\ l \in Queued
    /\ lobby[l].leader = u
    /\ entries' = [entries EXCEPT ![l] = NoEntry]
    /\ lobby' = [lobby EXCEPT ![l].state = "idle"]
    /\ UNCHANGED <<live, userToLobby, invites, rpc, evict, load, tick, games>>

----------------------------------------------------------------------------
(* The tick                                                                *)

(* _fire: take the entries out one by one and mark their lobbies.  A lobby *)
(* that is gone makes mark_in_game raise, which ends the tick after some   *)
(* of the others were taken out and marked.                                *)
TakeOut(D, marked) ==
    /\ entries' = [l \in LobbyIds |->
                      IF \E e \in D : e.lobby = l THEN NoEntry ELSE entries[l]]
    /\ lobby' = [l \in LobbyIds |->
                    IF \E e \in marked : e.lobby = l
                    THEN [lobby[l] EXCEPT !.state = "in_game"]
                    ELSE lobby[l]]

ReturnsTo(E) == {e.lobby : e \in {x \in E : HumanSlots(x.seats) # {}}}

Fire(E, loop, complete, groups, group) ==
    \/ /\ \A e \in E : e.lobby \in live
       /\ TakeOut(E, E)
       /\ tick' = [phase |-> "create", loop |-> loop,
                   complete |-> complete, groups |-> groups,
                   group |-> group, game |-> {ReturnsTo(E)}]
    \/ \E dead \in E, marked \in SUBSET E :
          /\ dead.lobby \notin live
          /\ \A e \in marked : e.lobby \in live
          /\ TakeOut(marked \cup {dead}, marked)
          /\ tick' = Sleeping

(* Mutant: _fire_complete_lobbies trusts its snapshot.                     *)
FirableSnapshot(e) == Matchable({e})

(* _fire_complete_lobbies asks again whether the lobby is still queued;    *)
(* it asks by lobby id, and goes on with the entry of its own snapshot.    *)
FirableComplete(e) == e.lobby \in Queued /\ Matchable({e})

(* Mutant: the groups leave out lobbies of three as well as full ones.     *)
GroupsWithoutTrios ==
    LET waiting == {entries[l] : l \in Queued}
        ofRated(r) == {e \in waiting : e.size < 3 /\ e.rated = r}
    IN  {ofRated(r) : r \in BOOLEAN} \ {{}}

(* The groups of the entries that are queued now, by configuration.        *)
Groups ==
    LET waiting == {entries[l] : l \in Queued}
        ofRated(r) == {e \in waiting : e.size # 4 /\ e.rated = r}
    IN  {ofRated(r) : r \in BOOLEAN} \ {{}}

NoMatchIn(group) == \A E \in SUBSET group : ~Matchable(E)

(* The loop over the groups.  Nothing asks whether the entries of a group  *)
(* are still in _entries.  A search that raises ends the tick.             *)
GoOnGroups(group, groups) ==
    LET ready == {g \in (IF NoMatchIn(group) THEN groups ELSE {group}) :
                    ~NoMatchIn(g)}
    IN
    \/ \E g \in ready : \E E \in SUBSET g :
          /\ ~SearchRaises(g)
          /\ Matchable(E)
          /\ Fire(E, "groups", {}, groups \ {g}, g \ E)
    \/ /\ ready = {} \/ \E g \in ready : SearchRaises(g)
       /\ tick' = Sleeping
       /\ UNCHANGED <<entries, lobby>>

GoOnComplete(complete) ==
    \/ \E e \in complete, skipped \in SUBSET complete :
          /\ FirableComplete(e)
          /\ ~SearchRaises({e})
          /\ \A s \in skipped : ~FirableComplete(s)
          /\ Fire({e}, "complete", complete \ (skipped \cup {e}), {}, {})
    \/ /\ \E e \in complete : FirableComplete(e) /\ SearchRaises({e})
       /\ tick' = Sleeping
       /\ UNCHANGED <<entries, lobby>>
    \/ /\ \A e \in complete : ~FirableComplete(e)
       /\ GoOnGroups({}, Groups)

(* _do_tick after the sleep, when there is anything to look at.            *)
TickBegin ==
    /\ tick.phase = "sleep"
    /\ \/ \E l \in Queued : entries[l].size = 4 /\ Matchable({entries[l]})
       \/ \E g \in Groups : ~NoMatchIn(g)
    /\ GoOnComplete({e \in {entries[l] : l \in Queued} : e.size = 4})
    /\ UNCHANGED <<live, userToLobby, invites, rpc, evict, load, games>>

(* create_game up to the insertion in _games.                              *)
GameCreated ==
    /\ tick.phase = "create"
    /\ games' = games \cup tick.game
    /\ tick' = [tick EXCEPT !.phase = "publish", !.game = {}]
    /\ UNCHANGED <<vars, entries, load>>

(* A player or the database is missing: the error ends the tick, and the   *)
(* lobbies it has taken out stay marked.                                   *)
CreateGameFails ==
    /\ tick.phase = "create"
    /\ tick' = Sleeping
    /\ UNCHANGED <<vars, entries, load, games>>

TickResume ==
    /\ tick.phase = "publish"
    /\ \/ tick.loop = "complete" /\ GoOnComplete(tick.complete)
       \/ tick.loop = "groups" /\ GoOnGroups(tick.group, tick.groups)
    /\ UNCHANGED <<live, userToLobby, invites, rpc, evict, load, games>>

----------------------------------------------------------------------------
(* _return_to_lobbies of a game that is over: its lobbies become idle,     *)
(* those that still exist, whatever their state is.                        *)
GameEnds(g) ==
    /\ games' = games \ {g}
    /\ lobby' = [l \in LobbyIds |->
                    IF l \in g \cap live
                    THEN [lobby[l] EXCEPT !.state = "idle"]
                    ELSE lobby[l]]
    /\ UNCHANGED <<live, userToLobby, invites, rpc, evict, entries, load, tick>>

(* The requests of Lobbies, as far as they are in bounds.                  *)
LobbyRequest(u) ==
    \/ "create" \in Requests /\ CreateLobby(u)
    \/ /\ "invite" \in Requests
       /\ \E name \in Players, i \in InviteSlots : SendInvite(u, name, i)
    \/ /\ "answer" \in Requests
       /\ \E inv \in invites : AcceptInvite(u, inv) \/ RejectInvite(u, inv)
    \/ "leave" \in Requests /\ LeaveLobby(u)

(* The lobbies the queue, the tick and the games know by id.  Ids are not  *)
(* given twice, so none of these stands for a lobby that is made next.     *)
Known ==
    Queued \cup UNION (games \cup tick.game)
           \cup {e.lobby : e \in tick.complete \cup tick.group \cup UNION tick.groups}

MatchResume(u) ==
    \/ MemberResume(u) /\ (live' \ live) \cap Known = {} /\ UNCHANGED queueVars
    \/ LoadNext(u)
    \/ FinishEnqueue(u)

TickStep == TickBegin \/ GameCreated \/ CreateGameFails \/ TickResume

MatchNext ==
    \/ \E u \in Active :
          \/ LobbyRequest(u) /\ UNCHANGED queueVars
          \/ BeginEnqueue(u)
          \/ CancelQueued(u)
          \/ Disconnect(u) /\ UNCHANGED queueVars
    \/ \E u \in Active : MatchResume(u)
    \/ TickStep
    \/ \E g \in games : GameEnds(g)

MatchInit ==
    /\ Init
    /\ entries = [l \in LobbyIds |-> NoEntry]
    /\ load = [u \in Users |-> NoLoad]
    /\ tick = Sleeping
    /\ games = {}

MatchSpec == MatchInit /\ [][MatchNext]_allVars

(* The loop sleeps and ticks for ever, and calls in flight go on.          *)
MatchFairness ==
    /\ \A u \in Active : WF_allVars(MatchResume(u))
    /\ WF_allVars(TickStep)

----------------------------------------------------------------------------
(* Properties                                                              *)

(* Every variable has its type, the snapshots of a tick included.          *)
MatchTypeOK ==
    /\ TypeOK
    /\ entries \in [LobbyIds -> Entry \cup {NoEntry}]
    /\ load \in [Users -> Load]
    /\ games \in SUBSET Game
    /\ tick.game \in SUBSET Game
    /\ tick.complete \cup tick.group \cup UNION tick.groups \in SUBSET Entry

(* A live lobby that says it is in the queue has its entry there, and its  *)
(* leader can still find it and cancel: no lobby is stranded in the queue. *)
QueuedIsControllable ==
    \A l \in live :
        lobby[l].state = "in_queue" =>
            /\ l \in Queued
            /\ LobbyOf(lobby[l].leader) = l

(* Entries of one configuration that can form a game do not wait for ever: *)
(* whatever the ranker prefers, one tick goes on until no such set is left.*)
CanBeFired(S) ==
    /\ S \subseteq Queued
    /\ Matchable({entries[l] : l \in S})
    /\ \A k, l \in S : entries[k].rated = entries[l].rated

IsFired(S) == CanBeFired(S) ~> ~CanBeFired(S)

(* A tick notices when a full lobby was cancelled while it was starting    *)
(* the game of another one: _fire_complete_lobbies starts queued lobbies   *)
(* only, although it goes through a snapshot.  This holds as long as no    *)
(* group starts a lobby from a stale snapshot (see OnlyQueuedAreFired): a  *)
(* lobby that is queueing again at that moment is then in a game and in    *)
(* the queue, and when the game is over it is idle with an entry.          *)
CompleteWasQueued ==
    [][tick'.phase = "create" /\ tick'.loop = "complete" /\ tick' # tick =>
          \A g \in tick'.game : \A l \in g :
              lobby[l].state = "in_queue"]_allVars

(* test_queue.py, test_cancel_removes_entry_and_marks_lobby_idle: a lobby  *)
(* that cancelled is out of the queue and idle, so it is not put in a game *)
(* until it queues again.                                                  *)
OnlyQueuedAreFired ==
    [][\A l \in LobbyIds :
          lobby'[l].state = "in_game" /\ lobby[l].state # "in_game"
            => lobby[l].state = "in_queue"]_allVars
=============================================================================
