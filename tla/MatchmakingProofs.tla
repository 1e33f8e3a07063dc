------------------------- MODULE MatchmakingProofs -------------------------
(***************************************************************************)
(* Proofs about Matchmaking for every set of users, bots and lobbies, of   *)
(* active users and of requests, wherever a connection may drop.           *)
(*                                                                         *)
(* A step of MatchNext is a step of Lobbies, or one of the queue and of    *)
(* the games that writes nothing of the lobbies but their states           *)
(* (OnlyStates), so the lemmas about Lobbies carry over.                   *)
(*                                                                         *)
(* QueuedIsControllable rests on HoldsCall, what enqueue checked before    *)
(* its loads: the leader who queues the lobby is still its leader, and     *)
(* mapped to it, when the loads are done.  Only the own leave could change *)
(* that, and a user has one call at a time.                                *)
(***************************************************************************)
EXTENDS Matchmaking, LobbiesProofs

(* The local variables of the tick.                                        *)
TickOK ==
    /\ tick.phase \in {"sleep", "create", "publish"}
    /\ tick.complete \in SUBSET Entry
    /\ tick.groups \in SUBSET (SUBSET Entry)
    /\ tick.group \in SUBSET Entry
    /\ tick.game \in SUBSET Game

(* enqueue counted the seats before its first load.                        *)
CountedOK == \A u \in Users : rpc[u].op = "enqueue" => load[u].size \in 1 .. 4

QueueOK ==
    /\ entries \in [LobbyIds -> Entry \cup {NoEntry}]
    /\ load \in [Users -> Load]
    /\ games \in SUBSET Game
    /\ TickOK
    /\ CountedOK

(* What a handler of u found before its await still holds after it.        *)
HoldsCall(u) ==
    /\ rpc[u].op \in {"create", "join"} => userToLobby[u] = NoLobby
    /\ rpc[u].op = "leave" => rpc[u].who = u /\ userToLobby[u] = NoLobby
    /\ rpc[u].op = "enqueue" => /\ userToLobby[u] = rpc[u].lobby
                                /\ lobby[rpc[u].lobby].leader = u

LedByUsers == \A l \in live : lobby[l].leader \in Users

LeaderInv ==
    /\ \A u \in Users : HoldsCall(u)
    /\ LedByUsers
    /\ QueuedIsControllable

(* A step of the queue or of a game: of the lobbies it writes the state of *)
(* some, lets none into the queue, and takes no entry of one that stays.   *)
OnlyStates ==
    /\ UNCHANGED <<live, userToLobby, invites, rpc, evict>>
    /\ lobby' \in [LobbyIds -> Lobby]
    /\ \A k \in LobbyIds : /\ lobby'[k].leader = lobby[k].leader
                           /\ lobby'[k].seats = lobby[k].seats
    /\ \A k \in live : lobby'[k].state = "in_queue" =>
          lobby[k].state = "in_queue" /\ entries'[k] = entries[k]

----------------------------------------------------------------------------
(* What the operators of the model do                                      *)

(* The loop of enqueue suspends at a slot.                                 *)
LEMMA AwaitedIsSlot ==
  ASSUME NEW next, NEW seats
  PROVE  Awaited(next, seats) \in Slots
<1> DEFINE humans == {i \in HumanSlots(seats) : i >= next}
<1>1. humans \in SUBSET Slots
  BY DEF HumanSlots
<1>2. CASE humans = {}
  BY <1>2 DEF Awaited, Slots
<1>3. CASE humans # {}
  <2>1. First(humans) \in Slots
    BY <1>1, <1>3, FirstIsMember
  <2> QED
    BY <1>3, <2>1 DEF Awaited
<1> QED
  BY <1>2, <1>3

(* It keeps its variables typed and the size enqueue counted.              *)
LEMMA ScanType ==
  ASSUME NEW old \in Load, NEW seats
  PROVE  Scan(old, seats) \in Load /\ Scan(old, seats).size = old.size
<1> DEFINE last == Awaited(old.next, seats)
           found == {i \in Taken(seats) : old.next <= i /\ i <= last}
<1>1. last + 1 \in 0 .. 4
  BY AwaitedIsSlot DEF Slots
<1>2. found \in SUBSET Slots
  BY DEF Taken
<1>3. Scan(old, seats) = [old EXCEPT !.next = last + 1, !.known = @ \cup found]
  BY DEF Scan
<1> HIDE DEF last, found
<1> QED
  BY <1>1, <1>2, <1>3 DEF Load

(* Writing the state of some lobbies only.                                 *)
LEMMA MarkFacts ==
  ASSUME TypeInv, NEW S, NEW x \in LobbyStates,
         lobby' = [l \in LobbyIds |-> IF l \in S
                                      THEN [lobby[l] EXCEPT !.state = x]
                                      ELSE lobby[l]]
  PROVE  /\ lobby' \in [LobbyIds -> Lobby]
         /\ \A k \in LobbyIds : /\ lobby'[k].leader = lobby[k].leader
                                /\ lobby'[k].seats = lobby[k].seats
         /\ \A k \in LobbyIds : lobby'[k].state =
                                   IF k \in S THEN x ELSE lobby[k].state
<1>1. ASSUME NEW k \in LobbyIds
      PROVE  /\ lobby'[k] \in Lobby
             /\ lobby'[k].leader = lobby[k].leader
             /\ lobby'[k].seats = lobby[k].seats
             /\ lobby'[k].state = IF k \in S THEN x ELSE lobby[k].state
  <2>1. lobby[k] \in Lobby
    BY DEF TypeInv, TypeOK
  <2>2. CASE k \in S
    <3>1. lobby'[k] = [lobby[k] EXCEPT !.state = x]
      BY <2>2
    <3> QED
      BY <2>1, <2>2, <3>1 DEF Lobby
  <2>3. CASE k \notin S
    BY <2>1, <2>3
  <2> QED
    BY <2>2, <2>3
<1>2. DOMAIN lobby' = LobbyIds /\ lobby' = [k \in LobbyIds |-> lobby'[k]]
  OBVIOUS
<1>3. lobby' \in [LobbyIds -> Lobby]
  BY <1>1, <1>2
<1> QED
  BY <1>1, <1>3, Zenon

(* The entries that are taken out of the queue go, the marked lobbies are  *)
(* in a game.                                                              *)
LEMMA TakeOutFacts ==
  ASSUME TypeInv, QueueOK, NEW D, NEW marked, TakeOut(D, marked),
         \A e \in D \ marked : e.lobby \notin live
  PROVE  /\ entries' \in [LobbyIds -> Entry \cup {NoEntry}]
         /\ lobby' \in [LobbyIds -> Lobby]
         /\ \A k \in LobbyIds : /\ lobby'[k].leader = lobby[k].leader
                                /\ lobby'[k].seats = lobby[k].seats
         /\ \A k \in live : lobby'[k].state = "in_queue" =>
               lobby[k].state = "in_queue" /\ entries'[k] = entries[k]
<1> DEFINE S == {l \in LobbyIds : \E e \in marked : e.lobby = l}
<1>1. lobby' = [l \in LobbyIds |-> IF l \in S
                                   THEN [lobby[l] EXCEPT !.state = "in_game"]
                                   ELSE lobby[l]]
  BY DEF TakeOut
<1>2. \A l \in LobbyIds : l \in S <=> \E e \in marked : e.lobby = l
  OBVIOUS
<1> HIDE DEF S
<1>3. /\ lobby' \in [LobbyIds -> Lobby]
      /\ \A k \in LobbyIds : /\ lobby'[k].leader = lobby[k].leader
                             /\ lobby'[k].seats = lobby[k].seats
      /\ \A k \in LobbyIds : lobby'[k].state =
                                IF k \in S THEN "in_game" ELSE lobby[k].state
  BY <1>1, MarkFacts DEF LobbyStates
<1>4. entries' \in [LobbyIds -> Entry \cup {NoEntry}]
  BY DEF TakeOut, QueueOK
<1>5. ASSUME NEW k \in live, lobby'[k].state = "in_queue"
      PROVE  lobby[k].state = "in_queue" /\ entries'[k] = entries[k]
  <2>1. k \in LobbyIds /\ k \notin S /\ lobby[k].state = "in_queue"
    BY <1>3, <1>5 DEF TypeInv, TypeOK
  <2>2. ~ \E e \in D : e.lobby = k
    BY <1>2, <2>1
  <2>3. entries'[k] = entries[k]
    BY <2>1, <2>2 DEF TakeOut
  <2> QED
    BY <2>1, <2>3
<1> QED
  BY <1>3, <1>4, <1>5, Zenon

(* What a step of the tick leaves of the queue.                            *)
TickEffect ==
    /\ entries' \in [LobbyIds -> Entry \cup {NoEntry}]
    /\ TickOK'
    /\ lobby' \in [LobbyIds -> Lobby]
    /\ \A k \in LobbyIds : /\ lobby'[k].leader = lobby[k].leader
                           /\ lobby'[k].seats = lobby[k].seats
    /\ \A k \in live : lobby'[k].state = "in_queue" =>
          lobby[k].state = "in_queue" /\ entries'[k] = entries[k]

(* _fire leaves a tick of good snapshots, and nobody queued without entry. *)
LEMMA FireFacts ==
  ASSUME TypeInv, QueueOK, NEW E \in SUBSET Entry, NEW loop,
         NEW complete \in SUBSET Entry, NEW groups \in SUBSET (SUBSET Entry),
         NEW group \in SUBSET Entry,
         Fire(E, loop, complete, groups, group)
  PROVE  TickEffect
<1>1. ASSUME TakeOut(E, E),
             tick' = [phase |-> "create", loop |-> loop, complete |-> complete,
                      groups |-> groups, group |-> group,
                      game |-> {ReturnsTo(E)}]
      PROVE  TickEffect
  <2>1. ReturnsTo(E) \in Game
    BY DEF ReturnsTo, Game, Entry
  <2>2. TickOK'
    BY <1>1, <2>1 DEF TickOK
  <2> QED
    BY <1>1, <2>2, TakeOutFacts DEF TickEffect
<1>2. ASSUME NEW dead \in E, NEW marked \in SUBSET E, dead.lobby \notin live,
             TakeOut(marked \cup {dead}, marked), tick' = Sleeping
      PROVE  TickEffect
  <2>1. TickOK'
    BY <1>2 DEF TickOK, Sleeping
  <2>2. \A e \in (marked \cup {dead}) \ marked : e.lobby \notin live
    BY <1>2
  <2> QED
    BY <1>2, <2>1, <2>2, TakeOutFacts DEF TickEffect
<1> QED
  BY <1>1, <1>2, Zenon DEF Fire

(* An error ends the tick and leaves the queue alone.                      *)
LEMMA TickEnds ==
  ASSUME TypeInv, QueueOK, tick' = Sleeping, UNCHANGED <<entries, lobby>>
  PROVE  TickEffect
BY DEF TypeInv, TypeOK, QueueOK, TickOK, Sleeping, TickEffect

LEMMA GroupsType ==
  ASSUME QueueOK
  PROVE  Groups \in SUBSET (SUBSET Entry)
<1> DEFINE waiting == {entries[l] : l \in Queued}
           ofRated(r) == {e \in waiting : e.size # 4 /\ e.rated = r}
<1>1. waiting \subseteq Entry
  BY DEF QueueOK, Queued
<1>2. \A r \in BOOLEAN : ofRated(r) \in SUBSET Entry
  BY <1>1
<1> QED
  BY <1>2 DEF Groups

LEMMA GoOnGroupsEffect ==
  ASSUME TypeInv, QueueOK, NEW group \in SUBSET Entry,
         NEW groups \in SUBSET (SUBSET Entry), GoOnGroups(group, groups)
  PROVE  TickEffect
<1> DEFINE ready == {g \in (IF NoMatchIn(group) THEN groups ELSE {group}) :
                        ~NoMatchIn(g)}
<1>1. ready \in SUBSET (SUBSET Entry)
  OBVIOUS
<1>2. ASSUME NEW g \in ready, NEW E \in SUBSET g,
             Fire(E, "groups", {}, groups \ {g}, g \ E)
      PROVE  TickEffect
  <2>1. /\ E \in SUBSET Entry /\ g \ E \in SUBSET Entry
        /\ groups \ {g} \in SUBSET (SUBSET Entry) /\ {} \in SUBSET Entry
    BY <1>1
  <2> QED
    BY <1>2, <2>1, FireFacts
<1>3. \/ \E g \in ready : \E E \in SUBSET g :
            Fire(E, "groups", {}, groups \ {g}, g \ E)
      \/ tick' = Sleeping /\ UNCHANGED <<entries, lobby>>
  BY Zenon DEF GoOnGroups
<1> HIDE DEF ready
<1> QED
  BY <1>2, <1>3, TickEnds

LEMMA GoOnCompleteEffect ==
  ASSUME TypeInv, QueueOK, NEW complete \in SUBSET Entry,
         GoOnComplete(complete)
  PROVE  TickEffect
<1>1. ASSUME NEW e \in complete, NEW skipped \in SUBSET complete,
             Fire({e}, "complete", complete \ (skipped \cup {e}), {}, {})
      PROVE  TickEffect
  <2>1. /\ {e} \in SUBSET Entry /\ {} \in SUBSET Entry
        /\ complete \ (skipped \cup {e}) \in SUBSET Entry
        /\ {} \in SUBSET (SUBSET Entry)
    OBVIOUS
  <2> QED
    BY <1>1, <2>1, FireFacts
<1>2. \/ \E e \in complete, skipped \in SUBSET complete :
            Fire({e}, "complete", complete \ (skipped \cup {e}), {}, {})
      \/ tick' = Sleeping /\ UNCHANGED <<entries, lobby>>
      \/ GoOnGroups({}, Groups)
  BY Zenon DEF GoOnComplete
<1> QED
  BY <1>1, <1>2, TickEnds, GroupsType, GoOnGroupsEffect

(* Every step of the loop.                                                 *)
LEMMA TickStepEffect ==
  ASSUME TypeInv, QueueOK, TickStep
  PROVE  /\ TickEffect /\ games' \in SUBSET Game
         /\ UNCHANGED <<live, userToLobby, invites, rpc, evict, load>>
<1>1. CASE TickBegin
  <2>1. {e \in {entries[l] : l \in Queued} : e.size = 4} \in SUBSET Entry
    BY DEF QueueOK, Queued
  <2> QED
    BY <1>1, <2>1, GoOnCompleteEffect DEF TickBegin, QueueOK
<1>2. CASE GameCreated
  <2>1. games' \in SUBSET Game /\ TickOK'
    BY <1>2 DEF GameCreated, QueueOK, TickOK
  <2> QED
    BY <1>2, <2>1 DEF GameCreated, TickEffect, vars, QueueOK, TypeInv, TypeOK
<1>3. CASE CreateGameFails
  BY <1>3, TickEnds DEF CreateGameFails, vars, QueueOK
<1>4. CASE TickResume
  <2>1. /\ tick.complete \in SUBSET Entry /\ tick.group \in SUBSET Entry
        /\ tick.groups \in SUBSET (SUBSET Entry)
    BY DEF QueueOK, TickOK
  <2> QED
    BY <1>4, <2>1, GoOnCompleteEffect, GoOnGroupsEffect DEF TickResume, QueueOK
<1> QED
  BY <1>1, <1>2, <1>3, <1>4 DEF TickStep

----------------------------------------------------------------------------
(* The kinds of steps                                                      *)

(* The requests within the bounds are requests of Lobbies.                 *)
LEMMA RequestsAreRequests ==
  ASSUME NEW u \in Users
  PROVE  LobbyRequest(u) => Request(u)
BY DEF LobbyRequest, Request, MemberRequest

LEMMA CancelEffect ==
  ASSUME TypeInv, QueueOK, NEW u \in Users, CancelQueued(u)
  PROVE  /\ OnlyStates /\ entries' \in [LobbyIds -> Entry \cup {NoEntry}]
         /\ UNCHANGED <<load, tick, games>>
<1> DEFINE l == LobbyOf(u)
<1>1. l \in LobbyIds
  BY DEF CancelQueued, Queued
<1>2. lobby' = [lobby EXCEPT ![l].state = "idle"]
  BY DEF CancelQueued
<1>3. lobby' \in [LobbyIds -> Lobby]
  BY <1>1, <1>2, FieldTypes DEF TypeInv, LobbyStates
<1>4. /\ \A k \in LobbyIds : lobby'[k].leader = lobby[k].leader
      /\ \A k \in LobbyIds \ {l} : lobby'[k].state = lobby[k].state
      /\ lobby'[l].state = "idle"
  BY <1>1, <1>2, StateEffects
<1>5. \A k \in LobbyIds : lobby'[k].seats = lobby[k].seats
  BY <1>1, <1>2 DEF TypeInv, TypeOK, Lobby
<1>6. /\ entries' \in [LobbyIds -> Entry \cup {NoEntry}]
      /\ \A k \in LobbyIds \ {l} : entries'[k] = entries[k]
  BY <1>1 DEF CancelQueued, QueueOK
<1>7. /\ UNCHANGED <<live, userToLobby, invites, rpc, evict, load, tick, games>>
      /\ live \subseteq LobbyIds
  BY DEF CancelQueued, TypeInv, TypeOK
<1>8. \A k \in live : lobby'[k].state = "in_queue" =>
         lobby[k].state = "in_queue" /\ entries'[k] = entries[k]
  BY <1>4, <1>6, <1>7
<1> QED
  BY <1>3, <1>4, <1>5, <1>6, <1>7, <1>8 DEF OnlyStates

LEMMA GameEndsEffect ==
  ASSUME TypeInv, QueueOK, NEW g \in games, GameEnds(g)
  PROVE  /\ OnlyStates /\ UNCHANGED <<entries, load, tick>>
         /\ games' \in SUBSET Game
<1> DEFINE S == g \cap live
<1>1. lobby' = [l \in LobbyIds |-> IF l \in S
                                   THEN [lobby[l] EXCEPT !.state = "idle"]
                                   ELSE lobby[l]]
  BY DEF GameEnds
<1> HIDE DEF S
<1>2. /\ lobby' \in [LobbyIds -> Lobby]
      /\ \A k \in LobbyIds : /\ lobby'[k].leader = lobby[k].leader
                             /\ lobby'[k].seats = lobby[k].seats
      /\ \A k \in LobbyIds : lobby'[k].state =
                                IF k \in S THEN "idle" ELSE lobby[k].state
  BY <1>1, MarkFacts DEF LobbyStates
<1>3. /\ UNCHANGED <<live, userToLobby, invites, rpc, evict, entries, load, tick>>
      /\ live \subseteq LobbyIds /\ games' \in SUBSET Game
  BY DEF GameEnds, TypeInv, TypeOK, QueueOK
<1>4. \A k \in live : lobby'[k].state = "in_queue" =>
         lobby[k].state = "in_queue" /\ entries'[k] = entries[k]
  BY <1>2, <1>3
<1> QED
  BY <1>2, <1>3, <1>4 DEF OnlyStates

LEMMA TickIsOnlyStates ==
  ASSUME TypeInv, QueueOK, TickStep
  PROVE  OnlyStates
BY TickStepEffect DEF TickEffect, OnlyStates

(* enqueue goes on as in Lobbies, or fails as a call may there.            *)
LEMMA FinishIsResume ==
  ASSUME NEW u, FinishEnqueue(u)
  PROVE  Resume(u)
BY DEF FinishEnqueue, Resume, MemberResume, RequestFails

(* Every step is one of Lobbies or one that writes only states.            *)
LEMMA StepKinds ==
  ASSUME TypeInv, QueueOK, [MatchNext]_allVars
  PROVE  [Next]_vars \/ OnlyStates
<1>1. Active \subseteq Users
  BY BoundsAssumption
<1>2. ASSUME NEW u \in Active, LobbyRequest(u) \/ BeginEnqueue(u)
      PROVE  Next
  BY <1>1, <1>2, RequestsAreRequests DEF BeginEnqueue, Next, Request
<1>3. ASSUME NEW u \in Active, Disconnect(u) \/ MemberResume(u) \/ FinishEnqueue(u)
      PROVE  Next
  BY <1>1, <1>3, FinishIsResume DEF Next, Resume
<1>4. ASSUME NEW u \in Active, LoadNext(u)
      PROVE  UNCHANGED vars
  BY <1>4 DEF LoadNext
<1>5. CASE UNCHANGED allVars
  BY <1>5 DEF allVars
<1> QED
  BY <1>1, <1>2, <1>3, <1>4, <1>5, CancelEffect, GameEndsEffect,
     TickIsOnlyStates DEF MatchNext, MatchResume

(* A step that writes only states keeps the types of the lobby service.    *)
LEMMA OnlyStatesType ==
  ASSUME TypeInv, OnlyStates
  PROVE  TypeInv'
BY DEF TypeInv, TypeOK, CallsOK, OnlyStates

LEMMA MatchTypeInvNext ==
  ASSUME TypeInv, QueueOK, [MatchNext]_allVars
  PROVE  TypeInv'
BY StepKinds, OnlyStatesType, ConstantsAssumption, TypeInvNext

----------------------------------------------------------------------------
(* Types                                                                   *)

(* Only StartMatchmaking starts an enqueue.                                *)
LEMMA NoNewEnqueue ==
  ASSUME TypeInv, NEW u \in Users,
         LobbyRequest(u) \/ MemberResume(u) \/ FinishEnqueue(u) \/ Disconnect(u)
  PROVE  /\ \A v \in Users \ {u} : rpc'[v] = rpc[v]
         /\ rpc'[u] = rpc[u] \/ rpc'[u].op # "enqueue"
<1>1. rpc \in [Users -> Calls]
  BY DEF TypeInv, TypeOK
<1>2. CASE LobbyRequest(u)
  BY <1>1, <1>2 DEF LobbyRequest, CreateLobby, SendInvite, AcceptInvite,
     RejectInvite, LeaveLobby, BeginLeave, Await, Call
<1>3. CASE MemberResume(u)
  BY <1>1, <1>3 DEF MemberResume, CreateResume, InviteResume, SeatBotResume,
     JoinResume, RequestFails, LeaveRemains, LeaveDissolves, LeaveKeyError,
     CleanupResume, QueuedResume, Await, Reply, NoCall, Call
<1>4. CASE FinishEnqueue(u) \/ Disconnect(u)
  BY <1>1, <1>4 DEF FinishEnqueue, EnqueueResume, Disconnect, Await, Reply,
     NoCall, Call
<1> QED
  BY <1>2, <1>3, <1>4

(* The seats were counted before the first load.                           *)
LEMMA BeginCounts ==
  ASSUME TypeInv, QueueOK, NEW u \in Users, BeginEnqueue(u)
  PROVE  /\ load' \in [Users -> Load] /\ CountedOK'
         /\ UNCHANGED <<entries, tick, games>>
<1> DEFINE seats == lobby[LobbyOf(u)].seats
           counted == [NoLoad EXCEPT !.size = Cardinality(Taken(seats))]
<1>1. Cardinality(Taken(seats)) \in 1 .. 4
  BY DEF BeginEnqueue, StartMatchmaking, CanQueue
<1>2. counted \in Load /\ counted.size \in 1 .. 4
  BY <1>1 DEF NoLoad, Load, Slots
<1>3. load' = [load EXCEPT ![u] = Scan(counted, seats)]
  BY Zenon DEF BeginEnqueue
<1> HIDE DEF counted, seats
<1>4. Scan(counted, seats) \in Load /\ Scan(counted, seats).size \in 1 .. 4
  BY <1>2, ScanType
<1>5. load' \in [Users -> Load] /\ load'[u].size \in 1 .. 4
  BY <1>3, <1>4 DEF QueueOK
<1>6. \A v \in Users \ {u} : load'[v] = load[v] /\ rpc'[v] = rpc[v]
  BY <1>3 DEF QueueOK, BeginEnqueue, StartMatchmaking, Await, TypeInv, TypeOK
<1>7. CountedOK'
  BY <1>5, <1>6 DEF CountedOK, QueueOK
<1> QED
  BY <1>5, <1>7 DEF BeginEnqueue

LEMMA LoadNextType ==
  ASSUME TypeInv, QueueOK, NEW u \in Users, LoadNext(u)
  PROVE  load' \in [Users -> Load] /\ CountedOK'
<1> DEFINE next == Scan(load[u], lobby[rpc[u].lobby].seats)
<1>1. load[u] \in Load
  BY DEF QueueOK
<1>2. next \in Load /\ next.size = load[u].size
  BY <1>1, ScanType
<1>3. load' = [load EXCEPT ![u] = next] /\ UNCHANGED rpc
  BY DEF LoadNext, vars
<1> HIDE DEF next
<1>4. load' \in [Users -> Load] /\ \A v \in Users : load'[v].size = load[v].size
  BY <1>2, <1>3 DEF QueueOK
<1> QED
  BY <1>3, <1>4 DEF CountedOK, QueueOK

(* The entry that enqueue stores.                                          *)
LEMMA NewEntryType ==
  ASSUME TypeInv, QueueOK, NEW u \in Users, FinishEnqueue(u)
  PROVE  NewEntry(u) \in Entry /\ NewEntry(u) # NoEntry /\ rpc[u].lobby \in LobbyIds
<1> DEFINE now == lobby[rpc[u].lobby]
<1>1. rpc[u].op = "enqueue" /\ rpc[u].lobby \in LobbyIds
  BY DEF FinishEnqueue, TypeInv, CallsOK
<1>2. now \in Lobby
  BY <1>1 DEF TypeInv, TypeOK
<1>3. load[u].size \in 1 .. 4 /\ load[u].known \in SUBSET Slots
  BY <1>1 DEF QueueOK, CountedOK, Load
<1>4. NewEntry(u) \in Entry
  BY <1>1, <1>2, <1>3 DEF NewEntry, Entry, Lobby
<1> QED
  BY <1>1, <1>4, EntryAssumption

LEMMA FinishType ==
  ASSUME TypeInv, QueueOK, NEW u \in Users, FinishEnqueue(u)
  PROVE  QueueOK'
<1>1. entries' \in [LobbyIds -> Entry \cup {NoEntry}]
  BY NewEntryType DEF FinishEnqueue, QueueOK
<1>2. /\ load' \in [Users -> Load]
      /\ \A v \in Users \ {u} : load'[v] = load[v] /\ rpc'[v] = rpc[v]
  <2>1. NoLoad \in Load
    BY DEF NoLoad, Load
  <2>2. load' = [load EXCEPT ![u] = NoLoad] /\ load \in [Users -> Load]
    BY DEF FinishEnqueue, QueueOK
  <2> QED
    BY <2>1, <2>2, NoNewEnqueue
<1>3. rpc'[u].op # "enqueue"
  BY DEF FinishEnqueue, EnqueueResume, Await, Reply, NoCall, Call, TypeInv, TypeOK
<1>4. CountedOK'
  BY <1>2, <1>3 DEF CountedOK, QueueOK
<1>5. TickOK' /\ games' \in SUBSET Game
  BY DEF FinishEnqueue, QueueOK, TickOK
<1> QED
  BY <1>1, <1>2, <1>4, <1>5 DEF QueueOK

LEMMA QueueOKNext ==
  ASSUME TypeInv, QueueOK, [MatchNext]_allVars
  PROVE  QueueOK'
<1>1. Active \subseteq Users
  BY BoundsAssumption
<1>2. ASSUME NEW u \in Active, UNCHANGED queueVars,
             LobbyRequest(u) \/ MemberResume(u) \/ Disconnect(u)
      PROVE  QueueOK'
  <2>1. \A v \in Users : rpc'[v] = rpc[v] \/ rpc'[v].op # "enqueue"
    BY <1>1, <1>2, NoNewEnqueue
  <2> QED
    BY <1>2, <2>1 DEF QueueOK, CountedOK, TickOK, queueVars
<1>3. ASSUME NEW u \in Active, BeginEnqueue(u)
      PROVE  QueueOK'
  BY <1>1, <1>3, BeginCounts DEF QueueOK, TickOK
<1>4. ASSUME NEW u \in Active, CancelQueued(u)
      PROVE  QueueOK'
  BY <1>1, <1>4, CancelEffect DEF QueueOK, TickOK, CountedOK, OnlyStates
<1>5. ASSUME NEW u \in Active, LoadNext(u)
      PROVE  QueueOK'
  BY <1>1, <1>5, LoadNextType DEF LoadNext, QueueOK, TickOK
<1>6. CASE TickStep
  BY <1>6, TickStepEffect DEF TickEffect, QueueOK, CountedOK
<1>7. ASSUME NEW g \in games, GameEnds(g)
      PROVE  QueueOK'
  BY <1>7, GameEndsEffect DEF QueueOK, TickOK, CountedOK, OnlyStates
<1>8. CASE UNCHANGED allVars
  BY <1>8 DEF allVars, vars, queueVars, QueueOK, TickOK, CountedOK
<1> QED
  BY <1>1, <1>2, <1>3, <1>4, <1>5, <1>6, <1>7, <1>8, FinishType
     DEF MatchNext, MatchResume

LEMMA MatchTypeInit ==
  ASSUME MatchInit
  PROVE  TypeInv /\ QueueOK
<1>1. TypeInv
  BY TypeInvInit DEF MatchInit
<1>2. NoLoad \in Load
  BY DEF NoLoad, Load
<1>3. TickOK
  BY DEF MatchInit, Sleeping, TickOK
<1>4. CountedOK
  BY DEF MatchInit, Init, NoCall, Call, CountedOK
<1> QED
  BY <1>1, <1>2, <1>3, <1>4 DEF MatchInit, QueueOK

(* Every reachable state of the lobbies and the queue is well typed, for   *)
(* any number of users and lobbies: no entry without its size, no tick     *)
(* that goes on with something that never was an entry.                    *)
THEOREM MatchTypeCorrect == MatchSpec => []MatchTypeOK
<1>1. MatchSpec => [](TypeInv /\ QueueOK)
  BY MatchTypeInit, MatchTypeInvNext, QueueOKNext, PTL DEF MatchSpec
<1>2. TypeInv /\ QueueOK => MatchTypeOK
  BY DEF TypeInv, QueueOK, TickOK, MatchTypeOK
<1> QED
  BY <1>1, <1>2, PTL

(* Whatever the queue, the tick and the games do, no lobby with a human in *)
(* it is dissolved.                                                        *)
THEOREM MatchDissolvesDeserted == MatchSpec => DissolvedOnlyDeserted
<1>1. MatchSpec => [](TypeInv /\ QueueOK)
  BY MatchTypeInit, MatchTypeInvNext, QueueOKNext, PTL DEF MatchSpec
<1>2. TypeInv /\ QueueOK /\ [MatchNext]_allVars
        => [\A l \in live \ live' : Humans(l) = {}]_vars
  <2> SUFFICES ASSUME TypeInv, QueueOK, [MatchNext]_allVars
               PROVE  \A l \in live \ live' : Humans(l) = {}
    OBVIOUS
  <2>1. CASE OnlyStates
    BY <2>1 DEF OnlyStates
  <2> QED
    BY <2>1, StepKinds, DissolveStep
<1> QED
  BY <1>1, <1>2, PTL DEF MatchSpec, DissolvedOnlyDeserted

(* A step that writes only states moves nobody.                            *)
LEMMA OnlyStatesMembers ==
  ASSUME TypeInv, SeatInv, AwayInv, OnlyStates
  PROVE  SeatInv' /\ AwayInv' /\ UNCHANGED Group!membership
<1>1. SeatInv'
  BY ConstantsAssumption, SeatInvKept DEF OnlyStates
<1>2. AwayInv'
  BY AwayKept DEF OnlyStates
<1>3. UNCHANGED Group!membership
  BY SeatsGiveMembers, GroupKept DEF OnlyStates
<1> QED
  BY <1>1, <1>2, <1>3

(* With the queue, the tick and the games, every step is still one that    *)
(* Membership allows: none of them moves a user or hands over a lobby.     *)
THEOREM MatchKeepsMembership == MatchSpec => KeepsMembership
<1>1. MatchSpec => [](TypeInv /\ QueueOK)
  BY MatchTypeInit, MatchTypeInvNext, QueueOKNext, PTL DEF MatchSpec
<1>2. MatchInit => SeatInv /\ AwayInv /\ Group!MembershipInit
  BY ConstantsAssumption, SeatInvInit, MembershipBegins DEF MatchInit
<1>3. TypeInv /\ QueueOK /\ SeatInv /\ AwayInv /\ [MatchNext]_allVars
        => /\ SeatInv' /\ AwayInv'
           /\ [Group!MembershipNext]_(Group!membership)
  BY StepKinds, OnlyStatesMembers, ConstantsAssumption, SeatInvNext, AwayNext,
     MembershipStep
<1> QED
  BY <1>1, <1>2, <1>3, PTL
     DEF MatchSpec, KeepsMembership, Group!MembershipSpec

(* A human who sits in a lobby is mapped to it and has one seat there, as  *)
(* long as the queue and the games run.                                    *)
THEOREM MatchSeatsAgree == MatchSpec => [](SeatedIsMapped /\ OneSeatPerHuman)
<1>1. MatchSpec => [](TypeInv /\ QueueOK)
  BY MatchTypeInit, MatchTypeInvNext, QueueOKNext, PTL DEF MatchSpec
<1>2. MatchInit => SeatInv
  BY ConstantsAssumption, SeatInvInit DEF MatchInit
<1>3. TypeInv /\ QueueOK /\ SeatInv /\ [MatchNext]_allVars => SeatInv'
  <2> SUFFICES ASSUME TypeInv, QueueOK, SeatInv, [MatchNext]_allVars
               PROVE  SeatInv'
    OBVIOUS
  <2>1. CASE OnlyStates
    BY <2>1, ConstantsAssumption, SeatInvKept DEF OnlyStates
  <2> QED
    BY <2>1, StepKinds, ConstantsAssumption, SeatInvNext
<1>4. SeatInv => SeatedIsMapped /\ OneSeatPerHuman
  BY DEF SeatInv
<1> QED
  BY <1>1, <1>2, <1>3, <1>4, PTL DEF MatchSpec

----------------------------------------------------------------------------
(* Who can cancel                                                          *)

(* The live lobby of a user is l exactly if the map says so.               *)
LEMMA LobbyOfIs ==
  ASSUME TypeInv, NEW u, NEW l \in live
  PROVE  LobbyOf(u) = l <=> userToLobby[u] = l
BY ConstantsAssumption DEF LobbyOf, TypeInv, TypeOK

(* Calls about which HoldsCall says nothing.                               *)
LEMMA OtherCallsHold ==
  ASSUME NEW u \in Users,
         rpc'[u].op \notin {"create", "join", "leave", "enqueue"}
  PROVE  HoldsCall(u)'
BY DEF HoldsCall

(* What a step must keep that touches no leader, no map entry and no entry *)
(* of the queue, and lets nobody into it.                                  *)
LEMMA LeaderKept ==
  ASSUME TypeInv, LeaderInv, live' \subseteq live, UNCHANGED userToLobby,
         \A k \in LobbyIds : lobby'[k].leader = lobby[k].leader,
         \A k \in live : lobby'[k].state = "in_queue" =>
            lobby[k].state = "in_queue" /\ entries'[k] = entries[k],
         \A u \in Users : rpc'[u] = rpc[u] \/ HoldsCall(u)'
  PROVE  LeaderInv'
<1>1. live \subseteq LobbyIds
  BY DEF TypeInv, TypeOK
<1>2. ASSUME NEW u \in Users, rpc'[u] = rpc[u]
      PROVE  HoldsCall(u)'
    <2>1. rpc[u].op = "enqueue" => rpc[u].lobby \in LobbyIds
      BY DEF TypeInv, CallsOK
    <2> QED
      BY <1>2, <2>1 DEF LeaderInv, HoldsCall
<1>3. LedByUsers'
  BY <1>1 DEF LeaderInv, LedByUsers
<1>4. ASSUME NEW l \in live', lobby'[l].state = "in_queue"
      PROVE  (l \in Queued)' /\ LobbyOf(lobby[l].leader)' = l
  <2>1. l \in live /\ lobby[l].state = "in_queue" /\ entries'[l] = entries[l]
    BY <1>4
  <2>2. l \in Queued /\ LobbyOf(lobby[l].leader) = l
    BY <2>1 DEF LeaderInv, QueuedIsControllable
  <2>3. userToLobby'[lobby'[l].leader] = l
    BY <1>1, <2>1, <2>2, LobbyOfIs
  <2> QED
    BY <1>1, <1>4, <2>1, <2>2, <2>3 DEF LobbyOf, Queued
<1>5. QueuedIsControllable'
  BY <1>4 DEF QueuedIsControllable
<1> QED
  BY <1>2, <1>3, <1>5 DEF LeaderInv

(* A user whom the map or nothing calls the leader of a queued lobby is    *)
(* mapped by a step: the queued lobbies and their leaders are others.      *)
LEMMA RemappedLeadsNothing ==
  ASSUME TypeInv, LeaderInv, NEW u \in Users,
         \A l \in live : lobby[l].state = "in_queue" => userToLobby[u] # l
  PROVE  \A l \in live : lobby[l].state = "in_queue" =>
            /\ lobby[l].leader \in Users \ {u}
            /\ userToLobby[lobby[l].leader] = l
            /\ l \in Queued
<1> SUFFICES ASSUME NEW l \in live, lobby[l].state = "in_queue"
             PROVE  /\ lobby[l].leader \in Users \ {u}
                    /\ userToLobby[lobby[l].leader] = l
                    /\ l \in Queued
  OBVIOUS
<1>1. l \in Queued /\ LobbyOf(lobby[l].leader) = l /\ lobby[l].leader \in Users
  BY DEF LeaderInv, LedByUsers, QueuedIsControllable
<1>2. userToLobby[lobby[l].leader] = l
  BY <1>1, LobbyOfIs
<1> QED
  BY <1>1, <1>2

(* The same for a step that maps or unmaps such a user u.                  *)
LEMMA LeaderKeptRemap ==
  ASSUME TypeInv, LeaderInv, NEW u \in Users, NEW to,
         userToLobby' = [userToLobby EXCEPT ![u] = to],
         \A l \in live : lobby[l].state = "in_queue" => userToLobby[u] # l,
         live' \subseteq live, UNCHANGED entries,
         \A k \in LobbyIds : Quiet(k),
         \A v \in Users \ {u} : rpc'[v] = rpc[v],
         HoldsCall(u)'
  PROVE  LeaderInv'
<1>1. live \subseteq LobbyIds /\ userToLobby \in [Users -> LobbyIds \cup {NoLobby}]
  BY DEF TypeInv, TypeOK
<1>2. ASSUME NEW v \in Users \ {u}
      PROVE  HoldsCall(v)'
  <2>1. rpc'[v] = rpc[v] /\ userToLobby'[v] = userToLobby[v]
    BY <1>1
  <2>2. rpc[v].op = "enqueue" => rpc[v].lobby \in LobbyIds
    BY DEF TypeInv, CallsOK
  <2> QED
    BY <2>1, <2>2 DEF LeaderInv, HoldsCall, Quiet
<1>3. LedByUsers'
  BY <1>1 DEF LeaderInv, LedByUsers, Quiet
<1>4. ASSUME NEW l \in live', lobby'[l].state = "in_queue"
      PROVE  (l \in Queued)' /\ LobbyOf(lobby[l].leader)' = l
  <2>1. l \in live /\ l \in LobbyIds /\ lobby[l].state = "in_queue"
        /\ lobby'[l].leader = lobby[l].leader
    BY <1>1, <1>4 DEF Quiet
  <2>2. /\ lobby[l].leader \in Users \ {u} /\ l \in Queued
        /\ userToLobby[lobby[l].leader] = l
    BY <2>1, RemappedLeadsNothing
  <2>3. userToLobby'[lobby'[l].leader] = l
    BY <1>1, <2>1, <2>2
  <2> QED
    BY <1>4, <2>1, <2>2, <2>3 DEF LobbyOf, Queued
<1>5. QueuedIsControllable'
  BY <1>4 DEF QueuedIsControllable
<1> QED
  BY <1>2, <1>3, <1>5 DEF LeaderInv

LEMMA LeaderRequest ==
  ASSUME TypeInv, LeaderInv, NEW u \in Users, LobbyRequest(u),
         UNCHANGED entries
  PROVE  LeaderInv'
<1>0. rpc \in [Users -> Calls] /\ \A v \in Users \ {u} : rpc'[v] = rpc[v]
  BY NoNewEnqueue DEF TypeInv, TypeOK
<1>1. CASE LeaveLobby(u)
  <2>1. /\ userToLobby' = [userToLobby EXCEPT ![u] = NoLobby]
        /\ Mutable(userToLobby[u]) /\ UNCHANGED live
    BY <1>1 DEF LeaveLobby, BeginLeave
  <2>2. \A l \in live : lobby[l].state = "in_queue" => userToLobby[u] # l
    BY <2>1 DEF Mutable
  <2>3. \A k \in LobbyIds : Quiet(k)
    BY <1>1, SetSeatQuiet DEF LeaveLobby, BeginLeave
  <2>4. /\ rpc'[u].op = "leave" /\ rpc'[u].who = u
        /\ userToLobby'[u] = NoLobby
    BY <1>0, <1>1, <2>1 DEF LeaveLobby, BeginLeave, Await, Call, TypeInv, TypeOK
  <2>5. HoldsCall(u)'
    BY <2>4 DEF HoldsCall
  <2> QED
    BY <1>0, <2>1, <2>2, <2>3, <2>5, LeaderKeptRemap
<1>2. ASSUME UNCHANGED <<lobby, live, userToLobby>>,
             HoldsCall(u)' \/ rpc'[u] = rpc[u]
      PROVE  LeaderInv'
  BY <1>0, <1>2, LeaderKept
<1>3. CASE CreateLobby(u)
  <2>1. rpc'[u].op = "create" /\ userToLobby'[u] = NoLobby
    BY <1>0, <1>3 DEF CreateLobby, Await, Call
  <2>2. HoldsCall(u)'
    BY <2>1 DEF HoldsCall
  <2> QED
    BY <1>2, <1>3, <2>2 DEF CreateLobby
<1>4. ASSUME NEW name \in Players, NEW i \in InviteSlots, SendInvite(u, name, i)
      PROVE  LeaderInv'
  <2>1. rpc'[u].op \in {"seat_bot", "invite"}
    BY <1>0, <1>4 DEF SendInvite, Await, Call
  <2> QED
    BY <1>2, <1>4, <2>1, OtherCallsHold DEF SendInvite
<1>5. ASSUME NEW inv \in invites, AcceptInvite(u, inv)
      PROVE  LeaderInv'
  <2>1. rpc'[u].op = "join" /\ userToLobby'[u] = NoLobby
    BY <1>0, <1>5 DEF AcceptInvite, CanJoin, Await, Call
  <2>2. HoldsCall(u)'
    BY <2>1 DEF HoldsCall
  <2> QED
    BY <1>2, <1>5, <2>2 DEF AcceptInvite
<1>6. ASSUME NEW inv \in invites, RejectInvite(u, inv)
      PROVE  LeaderInv'
  BY <1>2, <1>6 DEF RejectInvite
<1> QED
  BY <1>1, <1>3, <1>4, <1>5, <1>6 DEF LobbyRequest

(* A new lobby is idle, and its leader led none.                           *)
LEMMA LeaderCreate ==
  ASSUME TypeInv, LeaderInv, NEW u \in Users, CreateResume(u),
         UNCHANGED entries
  PROVE  LeaderInv'
<1>1. PICK l \in LobbyIds :
         /\ Fresh(l)
         /\ lobby' = [lobby EXCEPT ![l] =
               [BlankLobby EXCEPT !.leader = u, !.seats[0] = u]]
         /\ live' = live \cup {l}
         /\ userToLobby' = [userToLobby EXCEPT ![u] = l]
  BY DEF CreateResume
<1>2. /\ live \subseteq LobbyIds /\ lobby \in [LobbyIds -> Lobby]
      /\ userToLobby \in [Users -> LobbyIds \cup {NoLobby}]
      /\ rpc \in [Users -> Calls]
  BY DEF TypeInv, TypeOK
<1>3. /\ \A k \in LobbyIds \ {l} : lobby'[k] = lobby[k]
      /\ lobby'[l].leader = u /\ lobby'[l].state = "idle"
      /\ l \notin live /\ \A v \in Users : rpc[v].lobby # l
  BY <1>1, <1>2 DEF BlankLobby, Fresh
<1>4. /\ \A v \in Users \ {u} : rpc'[v] = rpc[v] /\ userToLobby'[v] = userToLobby[v]
      /\ rpc'[u].op = "none" /\ userToLobby[u] = NoLobby
  BY <1>1, <1>2 DEF CreateResume, Reply, NoCall, Call, LeaderInv, HoldsCall
<1>5. ASSUME NEW v \in Users \ {u}
      PROVE  HoldsCall(v)'
  <2>1. rpc[v].op = "enqueue" => rpc[v].lobby \in LobbyIds \ {l}
    BY <1>3 DEF TypeInv, CallsOK
  <2> QED
    BY <1>3, <1>4, <2>1 DEF LeaderInv, HoldsCall
<1>6. HoldsCall(u)'
  BY <1>4, OtherCallsHold
<1>7. LedByUsers'
  BY <1>1, <1>2, <1>3 DEF LeaderInv, LedByUsers
<1>8. \A k \in live : lobby[k].state = "in_queue" =>
         /\ lobby[k].leader \in Users \ {u}
         /\ userToLobby[lobby[k].leader] = k
         /\ k \in Queued
  <2>1. \A k \in live : userToLobby[u] # k
    BY <1>2, <1>4, ConstantsAssumption
  <2> QED
    BY <2>1, RemappedLeadsNothing
<1>9. ASSUME NEW k \in live', lobby'[k].state = "in_queue"
      PROVE  (k \in Queued)' /\ LobbyOf(lobby[k].leader)' = k
  <2>1. k \in live /\ k \in LobbyIds /\ lobby'[k] = lobby[k]
    BY <1>1, <1>2, <1>3, <1>9
  <2>2. userToLobby'[lobby'[k].leader] = k /\ k \in Queued
    BY <1>4, <1>8, <1>9, <2>1
  <2> QED
    BY <1>9, <2>1, <2>2 DEF LobbyOf, Queued
<1>10. QueuedIsControllable'
  BY <1>9 DEF QueuedIsControllable
<1> QED
  BY <1>5, <1>6, <1>7, <1>10 DEF LeaderInv

(* A lobby whose leader leaves is not in the queue, or the one who leaves  *)
(* does not lead it any more: who leaves is mapped to no lobby.            *)
LEMMA LeaderRemains ==
  ASSUME TypeInv, LeaderInv, NEW u \in Users, LeaveRemains(u),
         UNCHANGED entries
  PROVE  LeaderInv'
<1> DEFINE l == rpc[u].lobby
<1>1. /\ l \in LobbyIds
      /\ \A k \in LobbyIds : lobby'[k].state = lobby[k].state
      /\ \A k \in LobbyIds : lobby'[k].leader # lobby[k].leader =>
            /\ k = l /\ lobby[l].leader = rpc[u].who
            /\ lobby'[l].leader \in Humans(l)
  BY LeaveRemainsFacts
<1>2. /\ rpc[u].who = u /\ userToLobby[u] = NoLobby
      /\ UNCHANGED <<live, userToLobby>>
  BY DEF LeaveRemains, LeaderInv, HoldsCall
<1>3. /\ \A v \in Users \ {u} : rpc'[v] = rpc[v]
      /\ rpc'[u].op = "cleanup" /\ live \subseteq LobbyIds
  BY DEF LeaveRemains, Await, Call, TypeInv, TypeOK
<1>4. ASSUME NEW v \in Users \ {u}
      PROVE  HoldsCall(v)'
  <2>1. rpc[v].op = "enqueue" =>
           rpc[v].lobby \in LobbyIds /\ lobby[rpc[v].lobby].leader = v
    BY DEF TypeInv, CallsOK, LeaderInv, HoldsCall
  <2>2. rpc[v].op = "enqueue" => lobby'[rpc[v].lobby].leader = v
    BY <1>1, <1>2, <2>1
  <2> QED
    BY <1>2, <1>3, <2>2 DEF LeaderInv, HoldsCall
<1>5. HoldsCall(u)'
  BY <1>3, OtherCallsHold
<1>6. LedByUsers'
  BY <1>1, <1>2, <1>3 DEF LeaderInv, LedByUsers, Humans
<1>7. ASSUME NEW k \in live', lobby'[k].state = "in_queue"
      PROVE  (k \in Queued)' /\ LobbyOf(lobby[k].leader)' = k
  <2>1. k \in live /\ k \in LobbyIds /\ lobby[k].state = "in_queue"
    BY <1>1, <1>2, <1>3, <1>7
  <2>2. \A j \in live : userToLobby[u] # j
    BY <1>2, <1>3, ConstantsAssumption
  <2>3. /\ lobby[k].leader \in Users \ {u} /\ k \in Queued
        /\ userToLobby[lobby[k].leader] = k
    BY <2>1, <2>2, RemappedLeadsNothing
  <2>4. lobby'[k].leader = lobby[k].leader
    BY <1>1, <1>2, <2>1, <2>3
  <2> QED
    BY <1>2, <2>1, <2>3, <2>4 DEF LobbyOf, Queued
<1>8. QueuedIsControllable'
  BY <1>7 DEF QueuedIsControllable
<1> QED
  BY <1>4, <1>5, <1>6, <1>8 DEF LeaderInv

LEMMA LeaderResume ==
  ASSUME TypeInv, LeaderInv, NEW u \in Users,
         MemberResume(u) \/ Disconnect(u), UNCHANGED entries
  PROVE  LeaderInv'
<1>0. rpc \in [Users -> Calls] /\ \A v \in Users \ {u} : rpc'[v] = rpc[v]
  BY NoNewEnqueue DEF TypeInv, TypeOK
<1>1. CASE JoinResume(u)
  <2>1. /\ userToLobby' = [userToLobby EXCEPT ![u] = rpc[u].lobby]
        /\ UNCHANGED live /\ userToLobby[u] = NoLobby
    BY <1>1 DEF JoinResume, LeaderInv, HoldsCall
  <2>2. \A l \in live : userToLobby[u] # l
    BY <2>1, ConstantsAssumption DEF TypeInv, TypeOK
  <2>3. \A k \in LobbyIds : Quiet(k)
    BY <1>1, ResumeKeepsLeaders
  <2>4. rpc'[u].op = "cleanup"
    BY <1>0, <1>1 DEF JoinResume, Await, Call
  <2>5. HoldsCall(u)'
    BY <2>4, OtherCallsHold
  <2> QED
    BY <1>0, <2>1, <2>2, <2>3, <2>5, LeaderKeptRemap
<1>2. CASE \/ SeatBotResume(u) \/ RequestFails(u) \/ LeaveDissolves(u)
           \/ LeaveKeyError(u) \/ CleanupResume(u) \/ QueuedResume(u)
           \/ InviteResume(u) \/ Disconnect(u)
  <2>1. \A k \in LobbyIds : Quiet(k)
    BY <1>2, ResumeKeepsLeaders
  <2>2. rpc'[u].op = "none"
    BY <1>0, <1>2 DEF SeatBotResume, RequestFails, LeaveDissolves, LeaveKeyError,
       CleanupResume, QueuedResume, InviteResume, Disconnect, Reply, NoCall, Call
  <2>3. live' \subseteq live /\ UNCHANGED userToLobby
    BY <1>2 DEF SeatBotResume, RequestFails, LeaveDissolves, LeaveKeyError,
       CleanupResume, QueuedResume, InviteResume, Disconnect
  <2>4. HoldsCall(u)'
    BY <2>2, OtherCallsHold
  <2>5. live \subseteq LobbyIds
    BY DEF TypeInv, TypeOK
  <2> QED
    BY <1>0, <2>1, <2>3, <2>4, <2>5, LeaderKept DEF Quiet
<1> QED
  BY <1>1, <1>2, LeaderCreate, LeaderRemains DEF MemberResume

(* enqueue checks that its caller leads the lobby, which it was found by.  *)
LEMMA LeaderBegin ==
  ASSUME TypeInv, LeaderInv, NEW u \in Users, BeginEnqueue(u)
  PROVE  LeaderInv'
<1>1. /\ LobbyOf(u) # NoLobby /\ lobby[LobbyOf(u)].leader = u
      /\ UNCHANGED <<lobby, live, userToLobby, entries>>
      /\ Await(u, "enqueue", LobbyOf(u), u, 0)
  BY DEF BeginEnqueue, StartMatchmaking
<1>2. userToLobby[u] = LobbyOf(u)
  BY <1>1 DEF LobbyOf
<1>3. /\ rpc'[u].op = "enqueue" /\ rpc'[u].lobby = LobbyOf(u)
      /\ \A v \in Users \ {u} : rpc'[v] = rpc[v]
  BY <1>1 DEF Await, Call, TypeInv, TypeOK
<1>4. HoldsCall(u)'
  BY <1>1, <1>2, <1>3 DEF HoldsCall
<1> QED
  BY <1>1, <1>3, <1>4, LeaderKept

(* What it checked still holds when it queues the lobby.                   *)
LEMMA LeaderFinish ==
  ASSUME TypeInv, QueueOK, LeaderInv, NEW u \in Users, FinishEnqueue(u)
  PROVE  LeaderInv'
<1> DEFINE l == rpc[u].lobby
<1>1. /\ l \in LobbyIds /\ userToLobby[u] = l /\ lobby[l].leader = u
      /\ UNCHANGED <<live, userToLobby>> /\ live \subseteq LobbyIds
  BY DEF FinishEnqueue, EnqueueResume, LeaderInv, HoldsCall, TypeInv, TypeOK, CallsOK
<1>2. /\ \A k \in LobbyIds \ {l} : entries'[k] = entries[k]
      /\ entries'[l] # NoEntry
  BY <1>1, NewEntryType DEF FinishEnqueue, QueueOK
<1>3. /\ \A k \in LobbyIds : lobby'[k].leader = lobby[k].leader
      /\ \A k \in LobbyIds \ {l} : lobby'[k].state = lobby[k].state
  <2>1. CASE l \in live
    <3>1. lobby' = [lobby EXCEPT ![l].state = "in_queue"]
      BY <2>1 DEF FinishEnqueue, EnqueueResume
    <3> QED
      BY <1>1, <3>1, StateEffects
  <2>2. CASE l \notin live
    BY <2>2 DEF FinishEnqueue
  <2> QED
    BY <2>1, <2>2
<1>4. /\ \A v \in Users \ {u} : rpc'[v] = rpc[v]
      /\ rpc'[u].op \in {"queued", "none"}
  BY DEF FinishEnqueue, EnqueueResume, Await, Reply, NoCall, Call, TypeInv, TypeOK
<1>5. ASSUME NEW v \in Users \ {u}
      PROVE  HoldsCall(v)'
  <2>1. rpc[v].op = "enqueue" => rpc[v].lobby \in LobbyIds
    BY DEF TypeInv, CallsOK
  <2> QED
    BY <1>1, <1>3, <1>4, <2>1 DEF LeaderInv, HoldsCall
<1>6. HoldsCall(u)'
  BY <1>4, OtherCallsHold
<1>7. LedByUsers'
  BY <1>1, <1>3 DEF LeaderInv, LedByUsers
<1>8. ASSUME NEW k \in live', lobby'[k].state = "in_queue"
      PROVE  (k \in Queued)' /\ LobbyOf(lobby[k].leader)' = k
  <2>1. k \in live /\ k \in LobbyIds /\ lobby'[k].leader = lobby[k].leader
    BY <1>1, <1>3, <1>8
  <2>2. userToLobby[lobby[k].leader] = k /\ entries'[k] # NoEntry
    <3>1. CASE k = l
      BY <1>1, <1>2, <3>1
    <3>2. CASE k # l
      <4>1. k \in Queued /\ LobbyOf(lobby[k].leader) = k
        BY <1>3, <1>8, <2>1, <3>2 DEF LeaderInv, QueuedIsControllable
      <4> QED
        BY <1>2, <2>1, <3>2, <4>1, LobbyOfIs DEF Queued
    <3> QED
      BY <3>1, <3>2
  <2> QED
    BY <1>1, <2>1, <2>2 DEF LobbyOf, Queued
<1>9. QueuedIsControllable'
  BY <1>8 DEF QueuedIsControllable
<1> QED
  BY <1>5, <1>6, <1>7, <1>9 DEF LeaderInv

LEMMA LeaderOnlyStates ==
  ASSUME TypeInv, LeaderInv, OnlyStates
  PROVE  LeaderInv'
BY LeaderKept DEF OnlyStates

LEMMA LeaderNext ==
  ASSUME TypeInv, QueueOK, LeaderInv, [MatchNext]_allVars
  PROVE  LeaderInv'
<1>1. Active \subseteq Users
  BY BoundsAssumption
<1>2. ASSUME UNCHANGED <<vars, entries>>
      PROVE  LeaderInv'
  BY <1>2, LeaderKept DEF vars
<1>3. ASSUME NEW u \in Active, LoadNext(u)
      PROVE  LeaderInv'
  BY <1>2, <1>3 DEF LoadNext
<1>4. CASE UNCHANGED allVars
  BY <1>2, <1>4 DEF allVars, queueVars
<1>5. ASSUME NEW u \in Active, UNCHANGED queueVars,
             LobbyRequest(u) \/ MemberResume(u) \/ Disconnect(u)
      PROVE  LeaderInv'
  BY <1>1, <1>5, LeaderRequest, LeaderResume DEF queueVars
<1>6. ASSUME NEW u \in Active, BeginEnqueue(u) \/ CancelQueued(u) \/ FinishEnqueue(u)
      PROVE  LeaderInv'
  BY <1>1, <1>6, LeaderBegin, LeaderFinish, CancelEffect, LeaderOnlyStates
<1>7. CASE TickStep \/ \E g \in games : GameEnds(g)
  BY <1>7, TickIsOnlyStates, GameEndsEffect, LeaderOnlyStates
<1> QED
  BY <1>3, <1>4, <1>5, <1>6, <1>7 DEF MatchNext, MatchResume

(* A live lobby in the queue has its entry there and a leader who finds it *)
(* and can cancel, for any number of users, bots and lobbies and wherever  *)
(* connections drop, although enqueue stores both after its loads.         *)
THEOREM QueuedAreControllable == MatchSpec => []QueuedIsControllable
<1>1. MatchSpec => [](TypeInv /\ QueueOK)
  BY MatchTypeInit, MatchTypeInvNext, QueueOKNext, PTL DEF MatchSpec
<1>2. MatchInit => LeaderInv
  BY DEF MatchInit, Init, LeaderInv, LedByUsers, HoldsCall, NoCall, Call,
     QueuedIsControllable
<1>3. LeaderInv => QueuedIsControllable
  BY DEF LeaderInv
<1> QED
  BY <1>1, <1>2, <1>3, LeaderNext, PTL DEF MatchSpec
=============================================================================
