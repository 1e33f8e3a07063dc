--------------------------- MODULE LobbiesProofs ---------------------------
(***************************************************************************)
(* Proofs about Lobbies for every set of users, bots and lobby objects,    *)
(* whether or not connections drop.                                        *)
(*                                                                         *)
(* TypeOK is inductive once the arguments of the calls in flight are       *)
(* pinned down (CallsOK).  SeatedIsMapped and OneSeatPerHuman need one     *)
(* more fact, PendingIsUnmapped: the check of _user_to_lobby that create   *)
(* and join_at make before their await still holds after it, because only  *)
(* the user's own call could have broken it.                               *)
(*                                                                         *)
(* The action properties follow from the types.  DesertedIsClosing is      *)
(* inductive.  QueuedHasNoInvites needs to know that a leader whose call   *)
(* is in flight stays the leader (CallFits): only the own leave could      *)
(* change that, and a user has one call at a time.  The two invariants     *)
(* assume that a dropped connection does not cancel the call they rely on. *)
(*                                                                         *)
(* That Lobbies implements Membership needs the same of who leaves or      *)
(* kicks (AwayInv), and no assumption on dropped connections.              *)
(***************************************************************************)
EXTENDS Lobbies, TLAPS

(* The lobby and user a suspended handler goes on with are real ones.      *)
CallsOK ==
    \A u \in Users :
        /\ rpc[u].op \in {"join", "seat_bot", "invite", "leave", "enqueue",
                          "queued"}
              => rpc[u].lobby \in LobbyIds
        /\ rpc[u].op \in {"invite", "leave"} => rpc[u].who \in Users
        /\ rpc[u].op = "seat_bot" => rpc[u].who \in Bots

TypeInv == TypeOK /\ CallsOK

(* A user whose create or join waits for the database is in no lobby.      *)
PendingIsUnmapped ==
    \A u \in Users :
        rpc[u].op \in {"create", "join"} => userToLobby[u] = NoLobby

SeatInv == SeatedIsMapped /\ OneSeatPerHuman /\ PendingIsUnmapped

----------------------------------------------------------------------------
(* The first slot of a nonempty set of slots is one of them.               *)
LEMMA FirstIsMember ==
    ASSUME NEW S \in SUBSET Slots, S # {}
    PROVE  First(S) \in S
<1>1. \E i \in S : \A j \in S : i <= j
  <2>1. CASE 0 \in S
    BY <2>1, SMT DEF Slots
  <2>2. CASE 0 \notin S /\ 1 \in S
    BY <2>2, SMT DEF Slots
  <2>3. CASE 0 \notin S /\ 1 \notin S /\ 2 \in S
    BY <2>3, SMT DEF Slots
  <2>4. CASE 0 \notin S /\ 1 \notin S /\ 2 \notin S
    <3>1. \A j \in S : j = 3
      BY <2>4 DEF Slots
    <3>2. PICK i \in S : TRUE
      OBVIOUS
    <3>3. 3 \in S /\ \A j \in S : 3 <= j
      BY <3>1, <3>2
    <3>4. QED
      BY <3>3
  <2>5. QED
    BY <2>1, <2>2, <2>3, <2>4
<1>2. QED
  BY <1>1 DEF First

(* Writing one seat keeps the heap well typed.                             *)
LEMMA SetSeatType ==
    ASSUME TypeOK,
           NEW l \in LobbyIds, NEW i \in Slots,
           NEW name \in Players \cup {Nobody},
           SetSeat(l, i, name)
    PROVE  lobby' \in [LobbyIds -> Lobby]
<1>1. lobby[l] \in Lobby
  BY DEF TypeOK
<1>2. [lobby[l] EXCEPT !.seats[i] = name] \in Lobby
  BY <1>1 DEF Lobby
<1>3. lobby' = [lobby EXCEPT ![l] = [lobby[l] EXCEPT !.seats[i] = name]]
  BY DEF SetSeat, TypeOK
<1>4. QED
  BY <1>2, <1>3 DEF TypeOK

(* Assigning one of its other fields keeps a Lobby a Lobby.                *)
LEMMA FieldTypes ==
    ASSUME TypeOK, NEW l \in LobbyIds
    PROVE  /\ \A x \in LobbyStates :
                 [lobby EXCEPT ![l].state = x] \in [LobbyIds -> Lobby]
           /\ \A x \in BOOLEAN :
                 [lobby EXCEPT ![l].rated = x] \in [LobbyIds -> Lobby]
           /\ \A x \in Users :
                 [lobby EXCEPT ![l].leader = x] \in [LobbyIds -> Lobby]
<1>1. lobby[l] \in Lobby /\ lobby \in [LobbyIds -> Lobby]
  BY DEF TypeOK
<1>2. ASSUME NEW x \in LobbyStates
      PROVE  [lobby EXCEPT ![l].state = x] \in [LobbyIds -> Lobby]
  <2>1. [lobby[l] EXCEPT !.state = x] \in Lobby
    BY <1>1 DEF Lobby
  <2>2. QED
    BY <1>1, <2>1
<1>3. ASSUME NEW x \in BOOLEAN
      PROVE  [lobby EXCEPT ![l].rated = x] \in [LobbyIds -> Lobby]
  <2>1. [lobby[l] EXCEPT !.rated = x] \in Lobby
    BY <1>1 DEF Lobby
  <2>2. QED
    BY <1>1, <2>1
<1>4. ASSUME NEW x \in Users
      PROVE  [lobby EXCEPT ![l].leader = x] \in [LobbyIds -> Lobby]
  <2>1. [lobby[l] EXCEPT !.leader = x] \in Lobby
    BY <1>1 DEF Lobby
  <2>2. QED
    BY <1>1, <2>1
<1>5. QED
  BY <1>2, <1>3, <1>4

(* A call with well-typed arguments is well typed.                         *)
LEMMA CallType ==
    ASSUME NEW op \in Ops, NEW l \in LobbyIds \cup {NoLobby},
           NEW who \in Players \cup {Nobody}, NEW i \in Slots
    PROVE  Call(op, l, who, i) \in Calls
BY DEF Call, Calls

LEMMA NoCallType == NoCall \in Calls
BY DEF NoCall, Call, Calls, Ops, Slots

LEMMA TypeInvInit == Init => TypeInv
BY NoCallType, SMT
   DEF Init, TypeInv, TypeOK, CallsOK, Lobby, LobbyStates, BlankLobby,
       EmptySeats, NoEviction, NoCall, Call

(* A call that replies and leaves the rest of TypeInv as it was.           *)
LEMMA TypeInvReply ==
    ASSUME TypeInv, NEW u \in Users, Reply(u),
           lobby' \in [LobbyIds -> Lobby], live' \in SUBSET LobbyIds,
           userToLobby' \in [Users -> LobbyIds \cup {NoLobby}],
           invites' \in SUBSET Invite, UNCHANGED evict
    PROVE  TypeInv'
<1>1. rpc' \in [Users -> Calls]
  BY NoCallType DEF TypeInv, TypeOK, Reply
<1>2. CallsOK'
  BY DEF TypeInv, TypeOK, CallsOK, Reply, NoCall, Call
<1>3. QED
  BY <1>1, <1>2 DEF TypeInv, TypeOK

(* A call that suspends again, with arguments CallsOK allows.              *)
LEMMA TypeInvAwait ==
    ASSUME TypeInv, NEW u \in Users, NEW op \in Ops,
           NEW l \in LobbyIds \cup {NoLobby},
           NEW who \in Players \cup {Nobody}, NEW i \in Slots,
           Await(u, op, l, who, i),
           op \in {"join", "seat_bot", "invite", "leave", "enqueue",
                   "queued"} => l \in LobbyIds,
           op \in {"invite", "leave"} => who \in Users,
           op = "seat_bot" => who \in Bots,
           lobby' \in [LobbyIds -> Lobby], live' \in SUBSET LobbyIds,
           userToLobby' \in [Users -> LobbyIds \cup {NoLobby}],
           invites' \in SUBSET Invite, UNCHANGED evict
    PROVE  TypeInv'
<1>1. rpc' \in [Users -> Calls]
  BY CallType DEF TypeInv, TypeOK, Await
<1>2. CallsOK'
  BY DEF TypeInv, TypeOK, CallsOK, Await, Call
<1>3. QED
  BY <1>1, <1>2 DEF TypeInv, TypeOK

LEMMA TypeInvRequest ==
    ASSUME ConstantsAssumption, TypeInv, NEW u \in Users, Request(u)
    PROVE  TypeInv'
<1>0. /\ TypeOK /\ CallsOK
      /\ lobby \in [LobbyIds -> Lobby] /\ live \in SUBSET LobbyIds
      /\ userToLobby \in [Users -> LobbyIds \cup {NoLobby}]
      /\ invites \in SUBSET Invite
      /\ rpc[u] \in Calls
      /\ Users \subseteq Players /\ Bots \subseteq Players /\ 0 \in Slots
      /\ \A name \in Players : NotFrom(name) \in SUBSET Invite
  BY DEF TypeInv, TypeOK, Players, Slots, NotFrom
<1>1. CASE CreateLobby(u)
  BY <1>0, <1>1, TypeInvAwait DEF CreateLobby, Ops
<1>2. ASSUME NEW name \in Players, NEW i \in InviteSlots,
             SendInvite(u, name, i)
      PROVE  TypeInv'
  <2>1. LobbyOf(u) \in LobbyIds
    BY <1>0, <1>2 DEF SendInvite, LobbyOf
  <2>2. name \notin Bots => name \in Users
    BY <1>0 DEF Players
  <2>3. i \in Slots
    BY <1>0 DEF ConstantsAssumption
  <2>4. CASE name \in Bots
    BY <1>0, <1>2, <2>1, <2>3, <2>4, TypeInvAwait DEF SendInvite, Ops
  <2>5. CASE name \notin Bots
    BY <1>0, <1>2, <2>1, <2>2, <2>3, <2>5, TypeInvAwait DEF SendInvite, Ops
  <2>6. QED
    BY <2>4, <2>5
<1>3. ASSUME NEW inv \in invites, AcceptInvite(u, inv)
      PROVE  TypeInv'
  <2>1. inv.lobby \in LobbyIds /\ inv.idx \in Slots
    BY <1>0 DEF Invite
  <2>2. QED
    BY <1>0, <1>3, <2>1, TypeInvAwait DEF AcceptInvite, Ops, Players
<1>4. ASSUME NEW inv \in invites, RejectInvite(u, inv)
      PROVE  TypeInv'
  BY <1>0, <1>4 DEF RejectInvite, TypeInv, TypeOK, CallsOK
<1>5. ASSUME NEW t \in Users, BeginLeave(u, t)
      PROVE  TypeInv'
  <2> DEFINE l == userToLobby[t]
  <2>1. l \in LobbyIds
    BY <1>0, <1>5 DEF BeginLeave
  <2>2. lobby' \in [LobbyIds -> Lobby]
    <3>1. First(SlotsOf(t, lobby[l].seats)) \in Slots
      BY <1>5, FirstIsMember DEF BeginLeave, SlotsOf
    <3>2. SetSeat(l, First(SlotsOf(t, lobby[l].seats)), Nobody)
      BY <1>5 DEF BeginLeave
    <3>3. QED
      BY <1>0, <2>1, <3>1, <3>2, SetSeatType
  <2>3. QED
    BY <1>0, <1>5, <2>1, <2>2, TypeInvAwait DEF BeginLeave, Ops
<1>6. CASE LeaveLobby(u)
  BY <1>0, <1>5, <1>6 DEF LeaveLobby
<1>7. ASSUME NEW t \in Users, KickUser(u, t)
      PROVE  TypeInv'
  BY <1>0, <1>5, <1>7 DEF KickUser
<1>8. ASSUME NEW b \in Bots, KickBot(u, b)
      PROVE  TypeInv'
  <2>1. lobby' \in [LobbyIds -> Lobby]
    BY <1>0, <1>8, FirstIsMember, SetSeatType DEF KickBot, SlotsOf
  <2>2. QED
    BY <1>0, <1>8, <2>1, TypeInvAwait DEF KickBot, Ops
<1>9. ASSUME NEW rated \in BOOLEAN, SetLobbyConfig(u, rated)
      PROVE  TypeInv'
  <2>1. lobby' \in [LobbyIds -> Lobby]
    BY <1>0, <1>9, FieldTypes DEF SetLobbyConfig
  <2>2. QED
    BY <1>0, <1>9, <2>1 DEF SetLobbyConfig, TypeInv, TypeOK, CallsOK
<1>10. CASE StartMatchmaking(u)
  BY <1>0, <1>10, TypeInvAwait DEF StartMatchmaking, LobbyOf, Ops
<1>11. CASE CancelMatchmaking(u)
  <2>1. lobby' \in [LobbyIds -> Lobby]
    BY <1>0, <1>11, FieldTypes DEF CancelMatchmaking, LobbyOf, LobbyStates
  <2>2. QED
    BY <1>0, <1>11, <2>1 DEF CancelMatchmaking, TypeInv, TypeOK, CallsOK
<1>12. QED
  BY <1>1, <1>2, <1>3, <1>4, <1>6, <1>7, <1>8, <1>9, <1>10, <1>11
     DEF Request, MemberRequest

LEMMA TypeInvResume ==
    ASSUME ConstantsAssumption, TypeInv, NEW u \in Users, Resume(u)
    PROVE  TypeInv'
<1>0. /\ TypeOK /\ CallsOK
      /\ lobby \in [LobbyIds -> Lobby] /\ live \in SUBSET LobbyIds
      /\ userToLobby \in [Users -> LobbyIds \cup {NoLobby}]
      /\ invites \in SUBSET Invite
      /\ rpc[u] \in Calls
      /\ Users \subseteq Players /\ Bots \subseteq Players /\ 0 \in Slots
      /\ \A name \in Players : NotFrom(name) \in SUBSET Invite
  BY DEF TypeInv, TypeOK, Players, Slots, NotFrom
<1>1. CASE CreateResume(u)
  <2>1. PICK l \in LobbyIds :
           /\ lobby' = [lobby EXCEPT ![l] =
                 [BlankLobby EXCEPT !.leader = u, !.seats[0] = u]]
           /\ live' = live \cup {l}
           /\ userToLobby' = [userToLobby EXCEPT ![u] = l]
    BY <1>0, <1>1 DEF CreateResume
  <2>2. [BlankLobby EXCEPT !.leader = u, !.seats[0] = u] \in Lobby
    BY <1>0 DEF BlankLobby, EmptySeats, Lobby, LobbyStates, Players, Slots
  <2>3. lobby' \in [LobbyIds -> Lobby]
    BY <1>0, <2>1, <2>2
  <2>4. QED
    BY <1>0, <1>1, <2>1, <2>3, TypeInvReply DEF CreateResume
<1>2. CASE InviteResume(u)
  <2>1. invites' \in SUBSET Invite
    BY <1>0, <1>2 DEF InviteResume, CallsOK, Calls, Invite
  <2>2. QED
    BY <1>0, <1>2, <2>1, TypeInvReply DEF InviteResume
<1>3. CASE SeatBotResume(u)
  <2>1. lobby' \in [LobbyIds -> Lobby]
    BY <1>0, <1>3, SetSeatType DEF SeatBotResume, CallsOK, Calls, Players
  <2>2. QED
    BY <1>0, <1>3, <2>1, TypeInvReply DEF SeatBotResume
<1>4. CASE JoinResume(u)
  <2>1. rpc[u].lobby \in LobbyIds
    BY <1>0, <1>4 DEF JoinResume, CallsOK
  <2>2. lobby' \in [LobbyIds -> Lobby]
    BY <1>0, <1>4, <2>1, SetSeatType DEF JoinResume, Calls, Players
  <2>3. QED
    BY <1>0, <1>4, <2>1, <2>2, TypeInvAwait DEF JoinResume, Ops
<1>5. CASE RequestFails(u)
  BY <1>0, <1>5, TypeInvReply DEF RequestFails
<1>6. CASE LeaveRemains(u)
  <2> DEFINE l == rpc[u].lobby
             first == First(HumanSlots(lobby[l].seats))
  <2>1. l \in LobbyIds /\ rpc[u].who \in Users
    BY <1>0, <1>6 DEF LeaveRemains, CallsOK
  <2>2. first \in HumanSlots(lobby[l].seats)
    BY <1>0, <1>6, FirstIsMember DEF LeaveRemains, HasHuman, HumanSlots
  <2>3. lobby[l].seats[first] \in Users
    BY <1>0, <2>2 DEF HumanSlots
  <2>4. lobby' \in [LobbyIds -> Lobby]
    BY <1>0, <1>6, <2>1, <2>3, FieldTypes DEF LeaveRemains
  <2>5. QED
    BY <1>0, <1>6, <2>1, <2>4, TypeInvAwait DEF LeaveRemains, Ops
<1>7. CASE LeaveDissolves(u)
  <2>1. rpc[u].who \in Players
    BY <1>0, <1>7 DEF LeaveDissolves, CallsOK, Players
  <2>2. QED
    BY <1>0, <1>7, <2>1, TypeInvReply DEF LeaveDissolves
<1>8. CASE LeaveKeyError(u)
  BY <1>0, <1>8, TypeInvReply DEF LeaveKeyError
<1>9. CASE CleanupResume(u)
  BY <1>0, <1>9, TypeInvReply DEF CleanupResume, NotFrom
<1>10. CASE EnqueueResume(u)
  <2>1. rpc[u].lobby \in LobbyIds
    BY <1>0, <1>10 DEF EnqueueResume
  <2>2. lobby' \in [LobbyIds -> Lobby]
    BY <1>0, <1>10, <2>1, FieldTypes DEF EnqueueResume, LobbyStates
  <2>3. QED
    BY <1>0, <1>10, <2>1, <2>2, TypeInvAwait
       DEF EnqueueResume, Ops
<1>11. CASE QueuedResume(u)
  BY <1>0, <1>11, TypeInvReply DEF QueuedResume
<1>12. QED
  BY <1>1, <1>2, <1>3, <1>4, <1>5, <1>6, <1>7, <1>8, <1>9, <1>10, <1>11
     DEF Resume, MemberResume

LEMMA TypeInvEvictFrom ==
    ASSUME TypeInv, NEW todo \in SUBSET LobbyIds,
           NEW b \in Bots \cup {Nobody}, NEW newLive \in SUBSET LobbyIds,
           EvictFrom(todo, b, newLive), UNCHANGED <<userToLobby, invites, rpc>>
    PROVE  TypeInv'
<1>1. live' \in SUBSET LobbyIds
  BY DEF EvictFrom
<1>2. CallsOK'
  BY DEF TypeInv, CallsOK
<1>3. CASE evict' = NoEviction /\ lobby' = lobby
  BY <1>1, <1>2, <1>3 DEF TypeInv, TypeOK, NoEviction
<1>4. ASSUME NEW l \in todo, NEW skipped \in SUBSET todo,
             Evictable(l, b),
             SetSeat(l, First(SlotsOf(b, lobby[l].seats)), Nobody),
             evict' = [bot |-> b, todo |-> (todo \ skipped) \ {l}, cur |-> l,
                       next |-> First(SlotsOf(b, lobby[l].seats)) + 1]
      PROVE  TypeInv'
  <2>1. First(SlotsOf(b, lobby[l].seats)) \in Slots
    BY <1>4, FirstIsMember DEF Evictable, SlotsOf
  <2>2. lobby' \in [LobbyIds -> Lobby]
    BY <1>4, <2>1, SetSeatType DEF TypeInv
  <2>3. First(SlotsOf(b, lobby[l].seats)) + 1 \in 0 .. 4
    BY <2>1 DEF Slots
  <2>4. QED
    BY <1>1, <1>2, <1>4, <2>2, <2>3 DEF TypeInv, TypeOK
<1>5. QED
  BY <1>3, <1>4 DEF EvictFrom

LEMMA TypeInvEvict ==
    ASSUME TypeInv, Evict
    PROVE  TypeInv'
<1>1. evict \in [bot : Bots \cup {Nobody}, todo : SUBSET LobbyIds,
                 cur : LobbyIds \cup {NoLobby}, next : 0 .. 4]
  BY DEF TypeInv, TypeOK
<1>2. live \in SUBSET LobbyIds
  BY DEF TypeInv, TypeOK
<1>3. ASSUME NEW b \in Bots, EvictBegin(b)
      PROVE  TypeInv'
  BY <1>2, <1>3, TypeInvEvictFrom DEF EvictBegin
<1>4. CASE EvictSeat
  <2>1. First(EvictLater) \in Slots
    BY <1>4, FirstIsMember DEF EvictSeat, EvictLater, SlotsOf
  <2>2. lobby' \in [LobbyIds -> Lobby]
    BY <1>1, <1>4, <2>1, SetSeatType DEF EvictSeat, TypeInv
  <2>3. First(EvictLater) + 1 \in 0 .. 4
    BY <2>1 DEF Slots
  <2>4. QED
    BY <1>1, <1>4, <2>2, <2>3 DEF EvictSeat, TypeInv, TypeOK, CallsOK
<1>5. CASE EvictNextLobby
  BY <1>1, <1>2, <1>5, TypeInvEvictFrom DEF EvictNextLobby
<1>6. CASE EvictKeyError
  BY <1>6 DEF EvictKeyError, TypeInv, TypeOK, CallsOK, NoEviction
<1>7. QED
  BY <1>3, <1>4, <1>5, <1>6 DEF Evict

LEMMA TypeInvNext ==
    ASSUME ConstantsAssumption, TypeInv, [Next]_vars
    PROVE  TypeInv'
<1>1. ASSUME NEW u \in Users, Disconnect(u)
      PROVE  TypeInv'
  BY <1>1, TypeInvReply DEF Disconnect, TypeInv, TypeOK
<1>2. ASSUME NEW l \in LobbyIds, MarkInGame(l) \/ ReleaseFromGame(l)
      PROVE  TypeInv'
  <2>1. /\ [lobby EXCEPT ![l].state = "in_game"] \in [LobbyIds -> Lobby]
        /\ [lobby EXCEPT ![l].state = "idle"] \in [LobbyIds -> Lobby]
    <3>1. TypeOK /\ "idle" \in LobbyStates /\ "in_game" \in LobbyStates
      BY DEF TypeInv, LobbyStates
    <3>2. QED
      BY <3>1, FieldTypes
  <2>2. lobby' \in [LobbyIds -> Lobby]
    BY <1>2, <2>1 DEF MarkInGame, ReleaseFromGame
  <2>3. QED
    BY <1>2, <2>2
       DEF MarkInGame, ReleaseFromGame, TypeInv, TypeOK, CallsOK
<1>3. CASE UNCHANGED vars
  BY <1>3 DEF vars, TypeInv, TypeOK, CallsOK
<1>4. QED
  BY <1>1, <1>2, <1>3, TypeInvRequest, TypeInvResume, TypeInvEvict DEF Next

(* Every reachable state of the lobby service is well typed: no handler    *)
(* resumes with a lobby or a seat that does not exist.                     *)
THEOREM TypeCorrect == Spec => []TypeOK
<1>1. Spec => []TypeInv
  BY ConstantsAssumption, TypeInvInit, TypeInvNext, PTL DEF Spec
<1>2. TypeInv => TypeOK
  BY DEF TypeInv
<1>3. QED
  BY <1>1, <1>2, PTL

----------------------------------------------------------------------------
(* Most steps seat no human, unseat no human without unmapping, and start  *)
(* a create or join only for an unmapped user.                             *)
LEMMA SeatInvKept ==
    ASSUME ConstantsAssumption, SeatInv, UNCHANGED userToLobby,
           \A l \in LobbyIds, i \in Slots :
               \/ lobby'[l].seats[i] = lobby[l].seats[i]
               \/ lobby'[l].seats[i] \in Bots \cup {Nobody},
           \A u \in Users :
               rpc'[u].op \in {"create", "join"} =>
                   \/ rpc[u].op \in {"create", "join"}
                   \/ userToLobby[u] = NoLobby
    PROVE  SeatInv'
BY DEF ConstantsAssumption, SeatInv, SeatedIsMapped, OneSeatPerHuman,
       PendingIsUnmapped, Seated

(* Writing a bot or None into a seat is such a step.                       *)
LEMMA SetSeatKeeps ==
    ASSUME TypeInv, NEW l \in LobbyIds, NEW i \in Slots,
           NEW name \in Bots \cup {Nobody}, SetSeat(l, i, name)
    PROVE  \A k \in LobbyIds, j \in Slots :
               \/ lobby'[k].seats[j] = lobby[k].seats[j]
               \/ lobby'[k].seats[j] \in Bots \cup {Nobody}
<1>1. lobby \in [LobbyIds -> Lobby]
  BY DEF TypeInv, TypeOK
<1>2. lobby[l].seats \in [Slots -> Players \cup {Nobody}]
  BY <1>1 DEF Lobby
<1>3. ASSUME NEW k \in LobbyIds, NEW j \in Slots
      PROVE  lobby'[k].seats[j] =
                IF k = l /\ j = i THEN name ELSE lobby[k].seats[j]
  BY <1>1, <1>2 DEF SetSeat, Lobby
<1>4. QED
  BY <1>3

LEMMA SeatInvInit == ConstantsAssumption /\ Init => SeatInv
BY DEF ConstantsAssumption, Init, SeatInv, SeatedIsMapped, OneSeatPerHuman,
       PendingIsUnmapped, Seated, BlankLobby, EmptySeats, NoCall, Call

(* Somebody who is mapped to no lobby sits nowhere.                        *)
LEMMA UnmappedIsUnseated ==
    ASSUME ConstantsAssumption, SeatInv, NEW u \in Users,
           userToLobby[u] = NoLobby
    PROVE  \A l \in LobbyIds, i \in Slots : lobby[l].seats[i] # u
BY DEF ConstantsAssumption, SeatInv, SeatedIsMapped, Seated

(* leave frees the only seat of the user it unmaps.                        *)
LEMMA SeatInvBeginLeave ==
    ASSUME ConstantsAssumption, TypeInv, SeatInv,
           NEW u \in Users, NEW t \in Users, BeginLeave(u, t)
    PROVE  SeatInv'
<1> DEFINE l == userToLobby[t]
           pos == First(SlotsOf(t, lobby[l].seats))
<1>1. l \in LobbyIds
  BY DEF BeginLeave, TypeInv, TypeOK
<1>2. pos \in Slots /\ lobby[l].seats[pos] = t
  BY FirstIsMember DEF BeginLeave, SlotsOf
<1>3. lobby \in [LobbyIds -> Lobby]
  BY DEF TypeInv, TypeOK
<1>4. \A k \in LobbyIds, j \in Slots :
         lobby'[k].seats[j] =
             IF k = l /\ j = pos THEN Nobody ELSE lobby[k].seats[j]
  BY <1>1, <1>2, <1>3 DEF BeginLeave, SetSeat, Lobby
<1>5. \A v \in Users : userToLobby'[v] =
                         IF v = t THEN NoLobby ELSE userToLobby[v]
  BY DEF BeginLeave, TypeInv, TypeOK
<1>6. \A v \in Users : rpc'[v].op \in {"create", "join"}
                         => rpc[v].op \in {"create", "join"}
  BY DEF BeginLeave, Await, Call, TypeInv, TypeOK
<1>7. \A k \in LobbyIds, j \in Slots : lobby'[k].seats[j] # t
  BY <1>1, <1>2, <1>4
     DEF ConstantsAssumption, SeatInv, SeatedIsMapped, OneSeatPerHuman, Seated
<1>8. SeatedIsMapped'
  BY <1>4, <1>5, <1>7 DEF ConstantsAssumption, SeatInv, SeatedIsMapped, Seated
<1>9. OneSeatPerHuman'
  BY <1>4 DEF ConstantsAssumption, SeatInv, OneSeatPerHuman
<1>10. PendingIsUnmapped'
  BY <1>5, <1>6 DEF SeatInv, PendingIsUnmapped
<1>11. QED
  BY <1>8, <1>9, <1>10 DEF SeatInv

(* join_at gives a seat and a map entry to a user who had neither; it may  *)
(* unseat, but never maps, whoever took the seat during the load.          *)
LEMMA SeatInvJoin ==
    ASSUME ConstantsAssumption, TypeInv, SeatInv, NEW u \in Users,
           JoinResume(u)
    PROVE  SeatInv'
<1> DEFINE l == rpc[u].lobby
           i == rpc[u].idx
<1>1. l \in LobbyIds /\ i \in Slots
  BY DEF JoinResume, TypeInv, TypeOK, CallsOK, Calls
<1>2. lobby \in [LobbyIds -> Lobby]
  BY DEF TypeInv, TypeOK
<1>3. \A k \in LobbyIds, j \in Slots :
         lobby'[k].seats[j] = IF k = l /\ j = i THEN u ELSE lobby[k].seats[j]
  BY <1>1, <1>2 DEF JoinResume, SetSeat, Lobby
<1>4. \A v \in Users : userToLobby'[v] = IF v = u THEN l ELSE userToLobby[v]
  BY DEF JoinResume, TypeInv, TypeOK
<1>5. \A v \in Users : rpc'[v].op \in {"create", "join"}
                         => v # u /\ rpc[v].op \in {"create", "join"}
  BY DEF JoinResume, Await, Call, TypeInv, TypeOK
<1>6. userToLobby[u] = NoLobby
  BY DEF JoinResume, SeatInv, PendingIsUnmapped
<1>7. \A k \in LobbyIds, j \in Slots : lobby[k].seats[j] # u
  BY <1>6, UnmappedIsUnseated
<1>8. SeatedIsMapped'
  BY <1>3, <1>4, <1>7 DEF SeatInv, SeatedIsMapped, Seated
<1>9. OneSeatPerHuman'
  BY <1>3, <1>7 DEF SeatInv, OneSeatPerHuman
<1>10. PendingIsUnmapped'
  BY <1>4, <1>5 DEF SeatInv, PendingIsUnmapped
<1>11. QED
  BY <1>8, <1>9, <1>10 DEF SeatInv

(* create takes an object nobody sits in, because nobody is mapped to it.  *)
LEMMA SeatInvCreate ==
    ASSUME ConstantsAssumption, TypeInv, SeatInv, NEW u \in Users,
           CreateResume(u)
    PROVE  SeatInv'
<1>1. PICK l \in LobbyIds :
         /\ Fresh(l)
         /\ lobby' = [lobby EXCEPT ![l] =
               [BlankLobby EXCEPT !.leader = u, !.seats[0] = u]]
         /\ userToLobby' = [userToLobby EXCEPT ![u] = l]
  BY DEF CreateResume
<1>2. \A j \in Slots : [BlankLobby EXCEPT !.leader = u, !.seats[0] = u].seats[j]
                        = IF j = 0 THEN u ELSE Nobody
  BY DEF BlankLobby, EmptySeats, Slots
<1>3. \A k \in LobbyIds, j \in Slots :
         lobby'[k].seats[j] = IF k = l THEN IF j = 0 THEN u ELSE Nobody
                              ELSE lobby[k].seats[j]
  BY <1>1, <1>2 DEF TypeInv, TypeOK
<1>4. \A v \in Users : userToLobby'[v] = IF v = u THEN l ELSE userToLobby[v]
  BY <1>1 DEF TypeInv, TypeOK
<1>5. \A v \in Users : rpc'[v].op \in {"create", "join"}
                         => v # u /\ rpc[v].op \in {"create", "join"}
  BY DEF CreateResume, Reply, NoCall, Call, TypeInv, TypeOK
<1>6. userToLobby[u] = NoLobby
  BY DEF CreateResume, SeatInv, PendingIsUnmapped
<1>7. \A k \in LobbyIds, j \in Slots : lobby[k].seats[j] # u
  BY <1>6, UnmappedIsUnseated
<1>8. SeatedIsMapped'
  BY <1>3, <1>4, <1>7
     DEF ConstantsAssumption, SeatInv, SeatedIsMapped, Seated
<1>9. OneSeatPerHuman'
  BY <1>3, <1>7 DEF ConstantsAssumption, SeatInv, OneSeatPerHuman
<1>10. PendingIsUnmapped'
  BY <1>4, <1>5 DEF SeatInv, PendingIsUnmapped
<1>11. QED
  BY <1>8, <1>9, <1>10 DEF SeatInv

(* Steps that write no field but leader, rated or state of an object.      *)
LEMMA FieldsKeepSeats ==
    ASSUME TypeInv, NEW l \in LobbyIds, NEW x,
           \/ lobby' = [lobby EXCEPT ![l].leader = x]
           \/ lobby' = [lobby EXCEPT ![l].rated = x]
           \/ lobby' = [lobby EXCEPT ![l].state = x]
    PROVE  \A k \in LobbyIds, j \in Slots :
               lobby'[k].seats[j] = lobby[k].seats[j]
<1>1. lobby \in [LobbyIds -> Lobby]
  BY DEF TypeInv, TypeOK
<1>2. CASE lobby' = [lobby EXCEPT ![l].leader = x]
  BY <1>1, <1>2 DEF Lobby
<1>3. CASE lobby' = [lobby EXCEPT ![l].rated = x]
  BY <1>1, <1>3 DEF Lobby
<1>4. CASE lobby' = [lobby EXCEPT ![l].state = x]
  BY <1>1, <1>4 DEF Lobby
<1>5. QED
  BY <1>2, <1>3, <1>4

LEMMA RpcOps ==
    ASSUME TypeInv, NEW u \in Users
    PROVE  /\ Reply(u) => \A v \in Users :
                 rpc'[v].op \in {"create", "join"}
                     => rpc[v].op \in {"create", "join"}
           /\ \A op, l, who, i : Await(u, op, l, who, i) => \A v \in Users :
                 rpc'[v].op \in {"create", "join"}
                     => \/ rpc[v].op \in {"create", "join"}
                        \/ v = u /\ op \in {"create", "join"}
BY DEF Reply, Await, NoCall, Call, TypeInv, TypeOK

LEMMA SeatInvRequest ==
    ASSUME ConstantsAssumption, TypeInv, SeatInv, NEW u \in Users, Request(u)
    PROVE  SeatInv'
<1>0. live \in SUBSET LobbyIds
  BY DEF TypeInv, TypeOK
<1>1. CASE CreateLobby(u)
  BY <1>1, RpcOps, SeatInvKept DEF CreateLobby
<1>2. ASSUME NEW name \in Players, NEW i \in InviteSlots,
             SendInvite(u, name, i)
      PROVE  SeatInv'
  <2>1. \A v \in Users : rpc'[v].op \in {"create", "join"}
                          => rpc[v].op \in {"create", "join"}
    BY <1>2, RpcOps DEF SendInvite
  <2>2. QED
    BY <1>2, <2>1, SeatInvKept DEF SendInvite
<1>3. ASSUME NEW inv \in invites, AcceptInvite(u, inv)
      PROVE  SeatInv'
  BY <1>3, RpcOps, SeatInvKept DEF AcceptInvite, CanJoin
<1>4. ASSUME NEW inv \in invites, RejectInvite(u, inv)
      PROVE  SeatInv'
  BY <1>4, SeatInvKept DEF RejectInvite
<1>5. CASE LeaveLobby(u)
  BY <1>5, SeatInvBeginLeave DEF LeaveLobby
<1>6. ASSUME NEW t \in Users, KickUser(u, t)
      PROVE  SeatInv'
  BY <1>6, SeatInvBeginLeave DEF KickUser
<1>7. ASSUME NEW b \in Bots, KickBot(u, b)
      PROVE  SeatInv'
  <2>1. \A k \in LobbyIds, j \in Slots :
           \/ lobby'[k].seats[j] = lobby[k].seats[j]
           \/ lobby'[k].seats[j] \in Bots \cup {Nobody}
    BY <1>7, FirstIsMember, SetSeatKeeps DEF KickBot, SlotsOf
  <2>2. QED
    BY <1>7, <2>1, RpcOps, SeatInvKept DEF KickBot
<1>8. ASSUME NEW rated \in BOOLEAN, SetLobbyConfig(u, rated)
      PROVE  SeatInv'
  <2>1. \A k \in LobbyIds, j \in Slots :
           lobby'[k].seats[j] = lobby[k].seats[j]
    BY <1>8, FieldsKeepSeats DEF SetLobbyConfig
  <2>2. QED
    BY <1>8, <2>1, SeatInvKept DEF SetLobbyConfig
<1>9. CASE StartMatchmaking(u)
  BY <1>9, RpcOps, SeatInvKept DEF StartMatchmaking
<1>10. CASE CancelMatchmaking(u)
  <2>1. \A k \in LobbyIds, j \in Slots :
           lobby'[k].seats[j] = lobby[k].seats[j]
    BY <1>0, <1>10, FieldsKeepSeats DEF CancelMatchmaking, LobbyOf
  <2>2. QED
    BY <1>10, <2>1, SeatInvKept DEF CancelMatchmaking
<1>11. QED
  BY <1>1, <1>2, <1>3, <1>4, <1>5, <1>6, <1>7, <1>8, <1>9, <1>10
     DEF Request, MemberRequest

LEMMA SeatInvResume ==
    ASSUME ConstantsAssumption, TypeInv, SeatInv, NEW u \in Users, Resume(u)
    PROVE  SeatInv'
<1>0. CallsOK /\ live \in SUBSET LobbyIds /\ rpc[u] \in Calls
  BY DEF TypeInv, TypeOK
<1>1. CASE InviteResume(u)
  BY <1>1, RpcOps, SeatInvKept DEF InviteResume
<1>2. CASE SeatBotResume(u)
  <2>1. \A k \in LobbyIds, j \in Slots :
           \/ lobby'[k].seats[j] = lobby[k].seats[j]
           \/ lobby'[k].seats[j] \in Bots \cup {Nobody}
    BY <1>0, <1>2, SetSeatKeeps DEF SeatBotResume, CallsOK, Calls
  <2>2. QED
    BY <1>2, <2>1, RpcOps, SeatInvKept DEF SeatBotResume
<1>3. CASE RequestFails(u)
  BY <1>3, RpcOps, SeatInvKept DEF RequestFails
<1>4. CASE LeaveRemains(u)
  <2>1. \A k \in LobbyIds, j \in Slots :
           lobby'[k].seats[j] = lobby[k].seats[j]
    BY <1>0, <1>4, FieldsKeepSeats DEF LeaveRemains, CallsOK
  <2>2. QED
    BY <1>4, <2>1, RpcOps, SeatInvKept DEF LeaveRemains
<1>5. CASE LeaveDissolves(u)
  BY <1>5, RpcOps, SeatInvKept DEF LeaveDissolves
<1>6. CASE LeaveKeyError(u)
  BY <1>6, RpcOps, SeatInvKept DEF LeaveKeyError
<1>7. CASE CleanupResume(u)
  BY <1>7, RpcOps, SeatInvKept DEF CleanupResume
<1>8. CASE EnqueueResume(u)
  <2>1. \A k \in LobbyIds, j \in Slots :
           lobby'[k].seats[j] = lobby[k].seats[j]
    BY <1>0, <1>8, FieldsKeepSeats DEF EnqueueResume
  <2>2. QED
    BY <1>8, <2>1, RpcOps, SeatInvKept DEF EnqueueResume
<1>9. CASE QueuedResume(u)
  BY <1>9, RpcOps, SeatInvKept DEF QueuedResume
<1>10. QED
  BY <1>1, <1>2, <1>3, <1>4, <1>5, <1>6, <1>7, <1>8, <1>9,
     SeatInvCreate, SeatInvJoin DEF Resume, MemberResume

LEMMA SeatInvEvict ==
    ASSUME ConstantsAssumption, TypeInv, SeatInv, Evict
    PROVE  SeatInv'
<1>1. /\ live \in SUBSET LobbyIds /\ evict.todo \in SUBSET LobbyIds
      /\ evict.cur # NoLobby => evict.cur \in LobbyIds
  BY DEF TypeInv, TypeOK
<1>2. ASSUME NEW todo \in SUBSET LobbyIds, NEW b, NEW newLive,
             EvictFrom(todo, b, newLive)
      PROVE  \A k \in LobbyIds, j \in Slots :
                \/ lobby'[k].seats[j] = lobby[k].seats[j]
                \/ lobby'[k].seats[j] \in Bots \cup {Nobody}
  <2>1. CASE lobby' = lobby
    BY <2>1
  <2>2. ASSUME NEW l \in todo, Evictable(l, b),
               SetSeat(l, First(SlotsOf(b, lobby[l].seats)), Nobody)
        PROVE  \A k \in LobbyIds, j \in Slots :
                  \/ lobby'[k].seats[j] = lobby[k].seats[j]
                  \/ lobby'[k].seats[j] \in Bots \cup {Nobody}
    BY <2>2, FirstIsMember, SetSeatKeeps DEF Evictable, SlotsOf
  <2>3. QED
    BY <1>2, <2>1, <2>2 DEF EvictFrom
<1>3. ASSUME NEW b \in Bots, EvictBegin(b)
      PROVE  SeatInv'
  BY <1>1, <1>2, <1>3, SeatInvKept DEF EvictBegin
<1>4. CASE EvictSeat
  <2>1. \A k \in LobbyIds, j \in Slots :
           \/ lobby'[k].seats[j] = lobby[k].seats[j]
           \/ lobby'[k].seats[j] \in Bots \cup {Nobody}
    BY <1>1, <1>4, FirstIsMember, SetSeatKeeps
       DEF EvictSeat, EvictLater, SlotsOf
  <2>2. QED
    BY <1>4, <2>1, SeatInvKept DEF EvictSeat
<1>5. CASE EvictNextLobby
  BY <1>1, <1>2, <1>5, SeatInvKept DEF EvictNextLobby
<1>6. CASE EvictKeyError
  BY <1>6, SeatInvKept DEF EvictKeyError
<1>7. QED
  BY <1>3, <1>4, <1>5, <1>6 DEF Evict

LEMMA SeatInvNext ==
    ASSUME ConstantsAssumption, TypeInv, SeatInv, [Next]_vars
    PROVE  SeatInv'
<1>1. ASSUME NEW u \in Users, Disconnect(u)
      PROVE  SeatInv'
  BY <1>1, RpcOps, SeatInvKept DEF Disconnect
<1>2. ASSUME NEW l \in LobbyIds, MarkInGame(l) \/ ReleaseFromGame(l)
      PROVE  SeatInv'
  <2>1. \A k \in LobbyIds, j \in Slots :
           lobby'[k].seats[j] = lobby[k].seats[j]
    BY <1>2, FieldsKeepSeats DEF MarkInGame, ReleaseFromGame
  <2>2. QED
    BY <1>2, <2>1, SeatInvKept DEF MarkInGame, ReleaseFromGame
<1>3. CASE UNCHANGED vars
  BY <1>3, SeatInvKept DEF vars
<1>4. QED
  BY <1>1, <1>2, <1>3, SeatInvRequest, SeatInvResume, SeatInvEvict DEF Next

(* A human who sits in a lobby is mapped to it, and so sits in one only,   *)
(* in spite of the check in create and join_at being made before an await. *)
THEOREM SeatedUsersAreMapped == Spec => []SeatedIsMapped
<1>1. Spec => [](TypeInv /\ SeatInv)
  BY ConstantsAssumption, TypeInvInit, TypeInvNext, SeatInvInit, SeatInvNext,
     PTL DEF Spec
<1>2. SeatInv => SeatedIsMapped
  BY DEF SeatInv
<1>3. QED
  BY <1>1, <1>2, PTL

(* Nobody holds two seats of a lobby, so leave removes all of the user.    *)
THEOREM OneSeatEach == Spec => []OneSeatPerHuman
<1>1. Spec => [](TypeInv /\ SeatInv)
  BY ConstantsAssumption, TypeInvInit, TypeInvNext, SeatInvInit, SeatInvNext,
     PTL DEF Spec
<1>2. SeatInv => OneSeatPerHuman
  BY DEF SeatInv
<1>3. QED
  BY <1>1, <1>2, PTL
----------------------------------------------------------------------------
(* How lobbies are led, queued and dissolved                               *)

(* The leader and the state of an object stay as they are.                 *)
Quiet(l) ==
    lobby'[l].leader = lobby[l].leader /\ lobby'[l].state = lobby[l].state

LEMMA SetSeatQuiet ==
  ASSUME TypeInv, NEW l, NEW i, NEW name, SetSeat(l, i, name)
  PROVE  \A k \in LobbyIds : Quiet(k)
<1>1. lobby \in [LobbyIds -> Lobby]
  BY DEF TypeInv, TypeOK
<1>2. ASSUME NEW k \in LobbyIds PROVE Quiet(k)
  <2>1. lobby[k] \in Lobby
    BY <1>1
  <2>2. CASE k = l
    <3>1. lobby'[k] = [lobby[k] EXCEPT !.seats[i] = name]
      BY <1>1, <2>2 DEF SetSeat
    <3> QED
      BY <2>1, <3>1 DEF Lobby, Quiet
  <2>3. CASE k # l
    BY <1>1, <2>3 DEF SetSeat, Quiet
  <2> QED
    BY <2>2, <2>3
<1> QED
  BY <1>2

LEMMA EvictFromQuiet ==
  ASSUME TypeInv, NEW todo, NEW b, NEW newLive, EvictFrom(todo, b, newLive)
  PROVE  \A k \in LobbyIds : Quiet(k)
<1>1. CASE lobby' = lobby
  BY <1>1 DEF Quiet
<1>2. CASE \E l, i : SetSeat(l, i, Nobody)
  BY <1>2, SetSeatQuiet
<1> QED
  BY <1>1, <1>2 DEF EvictFrom

(* Assigning a field of an object.                                         *)
LEMMA StateEffects ==
  ASSUME TypeInv, NEW l \in LobbyIds, NEW x,
         lobby' = [lobby EXCEPT ![l].state = x]
  PROVE  /\ \A k \in LobbyIds : lobby'[k].leader = lobby[k].leader
         /\ \A k \in LobbyIds \ {l} : lobby'[k].state = lobby[k].state
         /\ lobby'[l].state = x
<1>1. lobby'[l] = [lobby[l] EXCEPT !.state = x]
  BY DEF TypeInv, TypeOK
<1>2. \A k \in LobbyIds \ {l} : lobby'[k] = lobby[k]
  BY DEF TypeInv, TypeOK
<1>3. lobby'[l].leader = lobby[l].leader /\ lobby'[l].state = x
  BY <1>1 DEF TypeInv, TypeOK, Lobby
<1> QED
  BY <1>2, <1>3, Zenon

LEMMA LeaderEffects ==
  ASSUME TypeInv, NEW l \in LobbyIds, NEW x,
         lobby' = [lobby EXCEPT ![l].leader = x]
  PROVE  /\ \A k \in LobbyIds : lobby'[k].state = lobby[k].state
         /\ \A k \in LobbyIds \ {l} : lobby'[k].leader = lobby[k].leader
         /\ lobby'[l].leader = x
<1>1. lobby'[l] = [lobby[l] EXCEPT !.leader = x]
  BY DEF TypeInv, TypeOK
<1>2. \A k \in LobbyIds \ {l} : lobby'[k] = lobby[k]
  BY DEF TypeInv, TypeOK
<1>3. lobby'[l].state = lobby[l].state /\ lobby'[l].leader = x
  BY <1>1 DEF TypeInv, TypeOK, Lobby
<1> QED
  BY <1>2, <1>3, Zenon

LEMMA RatedEffects ==
  ASSUME TypeInv, NEW l \in LobbyIds, NEW x,
         lobby' = [lobby EXCEPT ![l].rated = x]
  PROVE  \A k \in LobbyIds : Quiet(k)
BY DEF TypeInv, TypeOK, Lobby, Quiet

----------------------------------------------------------------------------
(* Who leads                                                               *)

(* Requests, and all else that changes no leader.                          *)
LEMMA RequestKeepsLeaders ==
  ASSUME TypeInv, NEW u \in Users, Request(u)
  PROVE  /\ \A k \in LobbyIds : lobby'[k].leader = lobby[k].leader
         /\ live' = live /\ invites' \subseteq invites
<1>1. live \subseteq LobbyIds
  BY DEF TypeInv, TypeOK
<1>2. ASSUME NEW t \in Users, BeginLeave(u, t)
      PROVE  /\ \A k \in LobbyIds : Quiet(k)
             /\ UNCHANGED <<live, invites>>
  BY <1>2, SetSeatQuiet DEF BeginLeave
<1>3. ASSUME NEW b \in Bots, KickBot(u, b)
      PROVE  /\ \A k \in LobbyIds : Quiet(k)
             /\ UNCHANGED <<live, invites>>
  <2>1. PICK l \in LobbyIds : SetSeat(l, First(SlotsOf(b, lobby[l].seats)), Nobody)
    BY <1>3 DEF KickBot
  <2> QED
    BY <1>3, <2>1, SetSeatQuiet DEF KickBot
<1>4. CASE CancelMatchmaking(u)
  <2>1. LobbyOf(u) \in LobbyIds
    BY <1>1, <1>4 DEF CancelMatchmaking, LobbyOf
  <2> QED
    BY <1>4, <2>1, StateEffects DEF CancelMatchmaking
<1>5. ASSUME NEW rated \in BOOLEAN, SetLobbyConfig(u, rated)
      PROVE  /\ \A k \in LobbyIds : Quiet(k)
             /\ UNCHANGED <<live, invites>>
  BY <1>5, RatedEffects DEF SetLobbyConfig
<1>6. CASE \/ CreateLobby(u) \/ StartMatchmaking(u)
           \/ \E name \in Players, i \in InviteSlots : SendInvite(u, name, i)
           \/ \E inv \in invites : AcceptInvite(u, inv) \/ RejectInvite(u, inv)
  BY <1>6 DEF CreateLobby, StartMatchmaking, SendInvite, AcceptInvite, RejectInvite
<1> QED
  BY <1>2, <1>3, <1>4, <1>5, <1>6
     DEF Request, MemberRequest, LeaveLobby, KickUser, Quiet

LEMMA EvictKeepsLeaders ==
  ASSUME TypeInv, Evict
  PROVE  /\ \A k \in LobbyIds : Quiet(k)
         /\ live' \subseteq live /\ UNCHANGED <<invites, rpc>>
<1>1. ASSUME NEW b \in Bots, EvictBegin(b)
      PROVE  \A k \in LobbyIds : Quiet(k)
  BY <1>1, EvictFromQuiet DEF EvictBegin
<1>2. CASE EvictSeat
  BY <1>2, SetSeatQuiet DEF EvictSeat
<1>3. ASSUME EvictNextLobby
      PROVE  \A k \in LobbyIds : Quiet(k)
  <2>1. \/ lobby' = lobby
        \/ \E l \in evict.todo :
              SetSeat(l, First(SlotsOf(evict.bot, lobby[l].seats)), Nobody)
    BY <1>3, Zenon DEF EvictNextLobby, EvictFrom
  <2>2. ASSUME NEW l \in evict.todo,
               SetSeat(l, First(SlotsOf(evict.bot, lobby[l].seats)), Nobody)
        PROVE  \A k \in LobbyIds : Quiet(k)
    BY <2>2, SetSeatQuiet, Zenon
  <2>3. lobby' = lobby => \A k \in LobbyIds : Quiet(k)
    BY DEF Quiet
  <2> QED
    BY <2>1, <2>2, <2>3
<1>4. CASE EvictKeyError
  BY <1>4 DEF EvictKeyError, Quiet
<1>5. live' \subseteq live /\ UNCHANGED <<invites, rpc>>
  BY DEF Evict, EvictBegin, EvictSeat, EvictNextLobby, EvictKeyError, EvictFrom
<1> QED
  BY <1>1, <1>2, <1>3, <1>4, <1>5 DEF Evict

(* The calls that end or go on without touching a leader or a state.       *)
LEMMA ResumeKeepsLeaders ==
  ASSUME TypeInv, NEW u \in Users,
         \/ SeatBotResume(u) \/ JoinResume(u) \/ RequestFails(u)
         \/ LeaveDissolves(u) \/ LeaveKeyError(u) \/ CleanupResume(u)
         \/ QueuedResume(u) \/ InviteResume(u) \/ Disconnect(u)
  PROVE  \A k \in LobbyIds : Quiet(k)
<1>1. CASE SeatBotResume(u) \/ JoinResume(u)
  BY <1>1, SetSeatQuiet DEF SeatBotResume, JoinResume
<1>2. CASE UNCHANGED lobby
  BY <1>2 DEF Quiet
<1> QED
  BY <1>1, <1>2 DEF RequestFails, LeaveDissolves, LeaveKeyError, CleanupResume,
     QueuedResume, InviteResume, Disconnect

LEMMA TransitionKeepsLeaders ==
  ASSUME TypeInv, NEW l \in LobbyIds, MarkInGame(l) \/ ReleaseFromGame(l)
  PROVE  \A k \in LobbyIds : lobby'[k].leader = lobby[k].leader
BY StateEffects DEF MarkInGame, ReleaseFromGame

(* leave hands the lobby to the first human who still sits in it.          *)
LEMMA LeaveRemainsFacts ==
  ASSUME TypeInv, NEW u \in Users, LeaveRemains(u)
  PROVE  LET l == rpc[u].lobby IN
         /\ l \in LobbyIds
         /\ \A k \in LobbyIds : lobby'[k].state = lobby[k].state
         /\ \A k \in LobbyIds : lobby'[k].leader # lobby[k].leader =>
               /\ k = l /\ lobby[l].leader = rpc[u].who
               /\ lobby'[l].leader \in Humans(l)
<1> DEFINE l == rpc[u].lobby
           first == First(HumanSlots(lobby[l].seats))
<1>1. l \in LobbyIds
  BY DEF LeaveRemains, TypeInv, CallsOK
<1>2. first \in HumanSlots(lobby[l].seats)
  BY FirstIsMember DEF LeaveRemains, HasHuman, HumanSlots
<1>3. lobby[l].seats[first] \in Humans(l)
  BY <1>2 DEF HumanSlots, Humans, Seated
<1>4. CASE lobby[l].leader = rpc[u].who
  <2>1. lobby' = [lobby EXCEPT ![l].leader = lobby[l].seats[first]]
    BY <1>4 DEF LeaveRemains
  <2> QED
    BY <1>1, <1>3, <1>4, <2>1, LeaderEffects
<1>5. CASE lobby[l].leader # rpc[u].who
  BY <1>1, <1>5 DEF LeaveRemains
<1> QED
  BY <1>4, <1>5

(* Whoever becomes the leader sits there, and the leader before was on the *)
(* way out.                                                                *)
LEMMA LeadershipStep ==
  ASSUME TypeInv, [Next]_vars
  PROVE  \A l \in live \cap live' :
            lobby'[l].leader # lobby[l].leader =>
              /\ lobby'[l].leader \in Humans(l)
              /\ \E u \in Users : rpc[u].op = "leave" /\ rpc[u].lobby = l
                                  /\ rpc[u].who = lobby[l].leader
<1> DEFINE Passes == \A l \in live \cap live' :
             lobby'[l].leader # lobby[l].leader =>
               /\ lobby'[l].leader \in Humans(l)
               /\ \E u \in Users : rpc[u].op = "leave" /\ rpc[u].lobby = l
                                   /\ rpc[u].who = lobby[l].leader
<1>1. live \subseteq LobbyIds
  BY DEF TypeInv, TypeOK
<1>2. ASSUME NEW u \in Users, LeaveRemains(u) PROVE Passes
  BY <1>1, <1>2, LeaveRemainsFacts DEF LeaveRemains
<1>3. ASSUME NEW u \in Users, CreateResume(u) PROVE Passes
  <2>1. PICK l \in LobbyIds \ live :
          lobby' = [lobby EXCEPT ![l] =
                      [BlankLobby EXCEPT !.leader = u, !.seats[0] = u]]
    BY <1>3 DEF CreateResume, Fresh
  <2>2. \A k \in live : lobby'[k] = lobby[k]
    BY <1>1, <2>1 DEF TypeInv, TypeOK
  <2> QED
    BY <2>2
<1>4. ASSUME NEW u \in Users, EnqueueResume(u) PROVE Passes
  BY <1>1, <1>4, StateEffects DEF EnqueueResume
<1>5. ASSUME \A k \in LobbyIds : lobby'[k].leader = lobby[k].leader
      PROVE  Passes
  BY <1>1, <1>5
<1>6. CASE UNCHANGED vars
  BY <1>5, <1>6 DEF vars
<1> QED
  BY <1>2, <1>3, <1>4, <1>5, <1>6, RequestKeepsLeaders, EvictKeepsLeaders,
     ResumeKeepsLeaders, TransitionKeepsLeaders
     DEF Next, Resume, MemberResume, Quiet

(* Leadership only passes to a human who sits there, by a leave of the     *)
(* leader, for any number of users and lobbies.                            *)
THEOREM LeadershipGoesToMembers == Spec => LeadershipPasses
<1>1. Spec => []TypeInv
  BY ConstantsAssumption, TypeInvInit, TypeInvNext, PTL DEF Spec
<1> QED
  BY <1>1, LeadershipStep, PTL DEF Spec, LeadershipPasses

----------------------------------------------------------------------------
(* Who is dissolved                                                        *)

(* A lobby disappears only in a step that finds no human in it.            *)
LEMMA DissolveStep ==
  ASSUME TypeInv, [Next]_vars
  PROVE  \A l \in live \ live' : Humans(l) = {}
<1> DEFINE Dissolves == \A l \in live \ live' : Humans(l) = {}
<1>1. \A l : ~HasHuman(lobby[l].seats) => Humans(l) = {}
  BY DEF HasHuman, Humans, Seated
<1>2. ASSUME NEW u \in Users, LeaveDissolves(u) PROVE Dissolves
  BY <1>1, <1>2 DEF LeaveDissolves
<1>3. CASE EvictNextLobby
  BY <1>1, <1>3 DEF EvictNextLobby, EvictFrom
<1>4. CASE live \subseteq live'
  BY <1>4
<1> QED
  BY <1>2, <1>3, <1>4, RequestKeepsLeaders
     DEF Next, Resume, MemberResume, CreateResume, InviteResume, SeatBotResume,
         JoinResume, RequestFails, LeaveRemains, LeaveKeyError, CleanupResume,
         QueuedResume, EnqueueResume, Disconnect, MarkInGame, ReleaseFromGame,
         Evict, EvictBegin, EvictFrom, EvictSeat, EvictKeyError, vars

(* No lobby with a human in it is ever dissolved, by a leave, a kick or    *)
(* the eviction of a bot.                                                  *)
THEOREM OnlyDesertedDissolve == Spec => DissolvedOnlyDeserted
<1>1. Spec => []TypeInv
  BY ConstantsAssumption, TypeInvInit, TypeInvNext, PTL DEF Spec
<1> QED
  BY <1>1, DissolveStep, PTL DEF Spec, DissolvedOnlyDeserted

LEMMA HumansAreSeated ==
  ASSUME NEW l
  PROVE  Humans(l) = {} <=> ~HasHuman(lobby[l].seats)
BY DEF HasHuman, Humans, Seated

(* A seat that is given to a human, or was not held by one.                *)
LEMMA SetSeatKeepsHumans ==
  ASSUME TypeInv, NEW l \in LobbyIds, NEW i \in Slots, NEW name,
         SetSeat(l, i, name),
         name \in Users \/ lobby[l].seats[i] \notin Users
  PROVE  \A k \in LobbyIds :
            HasHuman(lobby[k].seats) => HasHuman(lobby'[k].seats)
<1>1. lobby \in [LobbyIds -> Lobby] /\ lobby[l] \in Lobby
  BY DEF TypeInv, TypeOK
<1>2. lobby'[l] = [lobby[l] EXCEPT !.seats[i] = name]
  BY <1>1 DEF SetSeat
<1>3. /\ lobby'[l].seats[i] = name
      /\ \A j \in Slots \ {i} : lobby'[l].seats[j] = lobby[l].seats[j]
  BY <1>1, <1>2 DEF Lobby
<1>4. \A k \in LobbyIds \ {l} : lobby'[k] = lobby[k]
  BY <1>1 DEF SetSeat
<1>5. HasHuman(lobby[l].seats) => HasHuman(lobby'[l].seats)
  BY <1>3 DEF HasHuman
<1> QED
  BY <1>4, <1>5

(* The other fields do not move anybody.                                   *)
LEMMA FieldKeepsHumans ==
  ASSUME TypeInv, NEW l \in LobbyIds, NEW x,
         \/ lobby' = [lobby EXCEPT ![l].state = x]
         \/ lobby' = [lobby EXCEPT ![l].rated = x]
         \/ lobby' = [lobby EXCEPT ![l].leader = x]
  PROVE  \A k \in LobbyIds :
            HasHuman(lobby[k].seats) => HasHuman(lobby'[k].seats)
<1>1. \A k \in LobbyIds : lobby'[k].seats = lobby[k].seats
  BY DEF TypeInv, TypeOK, Lobby
<1> QED
  BY <1>1

(* What a step must keep that neither makes a lobby nor ends a leave.      *)
LEMMA ClosingKept ==
  ASSUME TypeInv, DesertedIsClosing, live' \subseteq live,
         \A k \in LobbyIds : HasHuman(lobby[k].seats) => HasHuman(lobby'[k].seats),
         \A u \in Users : rpc[u].op = "leave" =>
            \/ rpc'[u] = rpc[u]
            \/ rpc[u].lobby \notin live'
            \/ HasHuman(lobby[rpc[u].lobby].seats)
  PROVE  DesertedIsClosing'
<1> SUFFICES ASSUME NEW l \in live', Humans(l)' = {}
             PROVE  LeaveInFlight(l)'
  BY DEF DesertedIsClosing
<1>1. l \in live /\ l \in LobbyIds
  BY DEF TypeInv, TypeOK
<1>2. ~HasHuman(lobby'[l].seats)
  BY DEF HasHuman, Humans, Seated
<1>3. Humans(l) = {} /\ ~HasHuman(lobby[l].seats)
  BY <1>1, <1>2, HumansAreSeated
<1>4. PICK u \in Users : rpc[u].op = "leave" /\ rpc[u].lobby = l
  BY <1>1, <1>3 DEF DesertedIsClosing, LeaveInFlight
<1>5. rpc'[u] = rpc[u]
  BY <1>3, <1>4
<1> QED
  BY <1>4, <1>5 DEF LeaveInFlight

LEMMA EvictKeepsHumans ==
  ASSUME TypeInv, Evict
  PROVE  \A k \in LobbyIds :
            HasHuman(lobby[k].seats) => HasHuman(lobby'[k].seats)
<1> DEFINE Kept == \A k \in LobbyIds :
              HasHuman(lobby[k].seats) => HasHuman(lobby'[k].seats)
<1>1. evict.bot \notin Users /\ evict.todo \subseteq LobbyIds
  BY ConstantsAssumption DEF TypeInv, TypeOK
<1>2. ASSUME NEW b \in Bots \cup {Nobody}, NEW l \in LobbyIds, Evictable(l, b),
             SetSeat(l, First(SlotsOf(b, lobby[l].seats)), Nobody)
      PROVE  Kept
  <2>1. First(SlotsOf(b, lobby[l].seats)) \in SlotsOf(b, lobby[l].seats)
    BY <1>2, FirstIsMember DEF Evictable, SlotsOf
  <2>2. First(SlotsOf(b, lobby[l].seats)) \in Slots
        /\ lobby[l].seats[First(SlotsOf(b, lobby[l].seats))] \notin Users
    BY <2>1, ConstantsAssumption DEF SlotsOf
  <2> QED
    BY <1>2, <2>2, SetSeatKeepsHumans
<1>3. ASSUME NEW b \in Bots, EvictBegin(b) PROVE Kept
  <2>1. \/ lobby' = lobby
        \/ \E l \in live : Evictable(l, b)
              /\ SetSeat(l, First(SlotsOf(b, lobby[l].seats)), Nobody)
    BY <1>3, Zenon DEF EvictBegin, EvictFrom
  <2>2. live \subseteq LobbyIds
    BY DEF TypeInv, TypeOK
  <2>3. CASE \E l \in live : Evictable(l, b)
              /\ SetSeat(l, First(SlotsOf(b, lobby[l].seats)), Nobody)
    BY <1>2, <2>2, <2>3, Zenon
  <2> QED
    BY <2>1, <2>3
<1>4. ASSUME EvictNextLobby PROVE Kept
  <2>1. \/ lobby' = lobby
        \/ \E l \in evict.todo : Evictable(l, evict.bot)
              /\ SetSeat(l, First(SlotsOf(evict.bot, lobby[l].seats)), Nobody)
    BY <1>4, Zenon DEF EvictNextLobby, EvictFrom
  <2>2. evict.bot \in Bots \cup {Nobody}
    BY DEF TypeInv, TypeOK
  <2>3. CASE \E l \in evict.todo : Evictable(l, evict.bot)
              /\ SetSeat(l, First(SlotsOf(evict.bot, lobby[l].seats)), Nobody)
    BY <1>1, <1>2, <2>2, <2>3, Zenon
  <2> QED
    BY <2>1, <2>3
<1>5. ASSUME EvictSeat PROVE Kept
  <2>1. First(EvictLater) \in EvictLater
    BY <1>5, FirstIsMember DEF EvictSeat, EvictLater, SlotsOf
  <2>2. First(EvictLater) \in Slots
        /\ lobby[evict.cur].seats[First(EvictLater)] = evict.bot
    BY <2>1 DEF EvictLater, SlotsOf
  <2>3. evict.cur \in LobbyIds
    BY <1>5 DEF EvictSeat, TypeInv, TypeOK
  <2> QED
    BY <1>1, <1>5, <2>2, <2>3, SetSeatKeepsHumans DEF EvictSeat
<1>6. EvictKeyError => Kept
  BY DEF EvictKeyError
<1> QED
  BY <1>3, <1>4, <1>5, <1>6 DEF Evict

LEMMA ClosingRequest ==
  ASSUME TypeInv, DesertedIsClosing, NEW u \in Users, Request(u)
  PROVE  DesertedIsClosing'
<1> DEFINE Kept == \A k \in LobbyIds :
              HasHuman(lobby[k].seats) => HasHuman(lobby'[k].seats)
<1>1. live \subseteq LobbyIds /\ live' = live
  BY RequestKeepsLeaders DEF TypeInv, TypeOK
<1>3. \A v \in Users : rpc[v].op = "leave" => rpc'[v] = rpc[v]
  BY DEF NoCall, Call, Request, MemberRequest, CreateLobby, SendInvite,
     AcceptInvite, RejectInvite, LeaveLobby, KickUser, BeginLeave, KickBot,
     SetLobbyConfig, StartMatchmaking, CancelMatchmaking, Await, TypeInv, TypeOK
<1>4. ASSUME NEW t \in Users, BeginLeave(u, t), rpc[u] = NoCall
      PROVE  DesertedIsClosing'
  <2> DEFINE l == userToLobby[t]
             i == First(SlotsOf(t, lobby[l].seats))
  <2>1. l \in LobbyIds /\ SetSeat(l, i, Nobody)
    BY <1>4 DEF BeginLeave, TypeInv, TypeOK
  <2>2. \A k \in LobbyIds \ {l} : lobby'[k] = lobby[k]
    BY <2>1 DEF SetSeat, TypeInv, TypeOK
  <2>3. rpc'[u].op = "leave" /\ rpc'[u].lobby = l
    BY <1>4 DEF BeginLeave, Await, Call, TypeInv, TypeOK
  <2> SUFFICES ASSUME NEW k \in live', Humans(k)' = {}
               PROVE  LeaveInFlight(k)'
    BY DEF DesertedIsClosing
  <2>4. CASE k = l
    BY <2>3, <2>4 DEF LeaveInFlight
  <2>5. CASE k # l
    <3>1. k \in live /\ k \in LobbyIds /\ Humans(k) = {}
      BY <1>1, <2>2, <2>5 DEF Humans, Seated
    <3>2. PICK v \in Users : rpc[v].op = "leave" /\ rpc[v].lobby = k
      BY <3>1 DEF DesertedIsClosing, LeaveInFlight
    <3> QED
      BY <1>3, <3>2 DEF LeaveInFlight
  <2> QED
    BY <2>4, <2>5
<1>5. ASSUME NEW b \in Bots, KickBot(u, b) PROVE Kept
  <2>1. PICK l \in LobbyIds :
          /\ SlotsOf(b, lobby[l].seats) # {}
          /\ SetSeat(l, First(SlotsOf(b, lobby[l].seats)), Nobody)
    BY <1>5 DEF KickBot
  <2>2. First(SlotsOf(b, lobby[l].seats)) \in SlotsOf(b, lobby[l].seats)
    BY <2>1, FirstIsMember DEF SlotsOf
  <2>3. First(SlotsOf(b, lobby[l].seats)) \in Slots
        /\ lobby[l].seats[First(SlotsOf(b, lobby[l].seats))] \notin Users
    BY <2>2, ConstantsAssumption DEF SlotsOf
  <2> QED
    BY <2>1, <2>3, SetSeatKeepsHumans
<1>6. CancelMatchmaking(u) => Kept
  <2>1. ASSUME CancelMatchmaking(u) PROVE LobbyOf(u) \in LobbyIds
    BY <1>1, <2>1 DEF CancelMatchmaking, LobbyOf
  <2> QED
    BY <2>1, FieldKeepsHumans DEF CancelMatchmaking
<1>7. ASSUME NEW rated \in BOOLEAN, SetLobbyConfig(u, rated) PROVE Kept
  BY <1>7, FieldKeepsHumans DEF SetLobbyConfig
<1>8. CASE \/ CreateLobby(u) \/ StartMatchmaking(u)
           \/ \E name \in Players, i \in InviteSlots : SendInvite(u, name, i)
           \/ \E inv \in invites : AcceptInvite(u, inv) \/ RejectInvite(u, inv)
  <2>1. Kept
    BY <1>8 DEF CreateLobby, StartMatchmaking, SendInvite, AcceptInvite, RejectInvite
  <2> QED
    BY <1>1, <1>3, <2>1, ClosingKept
<1>9. Kept => DesertedIsClosing'
  BY <1>1, <1>3, ClosingKept
<1> QED
  BY <1>4, <1>5, <1>6, <1>7, <1>8, <1>9
     DEF Request, MemberRequest, LeaveLobby, KickUser

LEMMA ClosingResume ==
  ASSUME TypeInv, DesertedIsClosing, NEW u \in Users,
         Resume(u) \/ Disconnect(u), "leave" \notin Disconnects
  PROVE  DesertedIsClosing'
<1> DEFINE Kept == \A k \in LobbyIds :
              HasHuman(lobby[k].seats) => HasHuman(lobby'[k].seats)
<1>1. live \subseteq LobbyIds
  BY DEF TypeInv, TypeOK
<1>3. \A v \in Users \ {u} : rpc'[v] = rpc[v]
  BY DEF Resume, MemberResume, CreateResume, InviteResume, SeatBotResume, JoinResume,
     RequestFails, LeaveRemains, LeaveDissolves, LeaveKeyError, CleanupResume,
     QueuedResume, EnqueueResume, Disconnect, Await, Reply, TypeInv, TypeOK
<1>4. ASSUME rpc[u].op # "leave", live' \subseteq live, Kept
      PROVE  DesertedIsClosing'
  BY <1>3, <1>4, ClosingKept
<1>5. CASE CreateResume(u)
  <2>1. PICK l \in LobbyIds :
          /\ lobby' = [lobby EXCEPT ![l] =
                         [BlankLobby EXCEPT !.leader = u, !.seats[0] = u]]
          /\ live' = live \cup {l}
    BY <1>5 DEF CreateResume
  <2>2. lobby'[l].seats[0] = u
    BY <2>1 DEF BlankLobby, EmptySeats, Slots, TypeInv, TypeOK
  <2>3. Humans(l)' # {}
    BY <2>2 DEF Humans, Seated, Slots
  <2> SUFFICES ASSUME NEW k \in live', Humans(k)' = {}
               PROVE  LeaveInFlight(k)'
    BY DEF DesertedIsClosing
  <2>4. k \in live /\ k # l /\ k \in LobbyIds
    BY <1>1, <2>1, <2>3
  <2>5. lobby'[k] = lobby[k]
    BY <2>1, <2>4 DEF TypeInv, TypeOK
  <2>6. PICK v \in Users : rpc[v].op = "leave" /\ rpc[v].lobby = k
    BY <2>4, <2>5 DEF DesertedIsClosing, LeaveInFlight, Humans, Seated
  <2>7. v # u
    BY <1>5, <2>6 DEF CreateResume
  <2> QED
    BY <1>3, <2>6, <2>7 DEF LeaveInFlight
<1>6. CASE JoinResume(u)
  <2>1. rpc[u].lobby \in LobbyIds /\ rpc[u].idx \in Slots
    BY <1>6 DEF JoinResume, TypeInv, TypeOK, CallsOK, Calls
  <2> QED
    BY <1>4, <1>6, <2>1, SetSeatKeepsHumans DEF JoinResume
<1>7. CASE SeatBotResume(u)
  <2>1. rpc[u].lobby \in LobbyIds /\ rpc[u].idx \in Slots
    BY <1>7 DEF SeatBotResume, TypeInv, TypeOK, CallsOK, Calls
  <2> QED
    BY <1>4, <1>7, <2>1, ConstantsAssumption, SetSeatKeepsHumans DEF SeatBotResume
<1>8. CASE EnqueueResume(u)
  BY <1>1, <1>4, <1>8, FieldKeepsHumans DEF EnqueueResume
<1>9. CASE LeaveRemains(u)
  <2>1. rpc[u].lobby \in LobbyIds
    BY <1>9 DEF LeaveRemains, TypeInv, CallsOK
  <2>2. Kept
    BY <1>9, <2>1, FieldKeepsHumans DEF LeaveRemains
  <2> QED
    BY <1>3, <1>9, <2>2, ClosingKept DEF LeaveRemains
<1>10. CASE LeaveDissolves(u) \/ LeaveKeyError(u)
  BY <1>3, <1>10, ClosingKept DEF LeaveDissolves, LeaveKeyError
<1>11. CASE \/ InviteResume(u) \/ RequestFails(u) \/ CleanupResume(u)
            \/ QueuedResume(u) \/ Disconnect(u)
  <2>1. rpc[u].op # "leave" /\ UNCHANGED <<lobby, live>>
    BY <1>11 DEF InviteResume, RequestFails, CleanupResume, QueuedResume, Disconnect
  <2> QED
    BY <1>4, <2>1
<1> QED
  BY <1>5, <1>6, <1>7, <1>8, <1>9, <1>10, <1>11 DEF Resume, MemberResume

(* A lobby whose last human left is inside the leave that dissolves it or  *)
(* that finds the next leader, as long as leave is not cancelled: seats    *)
(* are cleared by leave, by remove_bot and by an eviction, and only the    *)
(* first clears that of a human.                                           *)
THEOREM DesertedAreClosing ==
  "leave" \notin Disconnects => (Spec => []DesertedIsClosing)
<1> SUFFICES ASSUME "leave" \notin Disconnects
             PROVE  Spec => []DesertedIsClosing
  OBVIOUS
<1>1. Init => DesertedIsClosing
  BY DEF Init, DesertedIsClosing
<1>2. TypeInv /\ DesertedIsClosing /\ [Next]_vars => DesertedIsClosing'
  <2> SUFFICES ASSUME TypeInv, DesertedIsClosing, [Next]_vars
               PROVE  DesertedIsClosing'
    OBVIOUS
  <2>1. CASE UNCHANGED vars
    BY <2>1 DEF vars, DesertedIsClosing, LeaveInFlight, Humans, Seated
  <2>2. ASSUME NEW u \in Users, Request(u) \/ Resume(u) \/ Disconnect(u)
        PROVE  DesertedIsClosing'
    BY <2>2, ClosingRequest, ClosingResume
  <2>3. ASSUME NEW l \in LobbyIds, MarkInGame(l) \/ ReleaseFromGame(l)
        PROVE  DesertedIsClosing'
    BY <2>3, FieldKeepsHumans, ClosingKept DEF MarkInGame, ReleaseFromGame
  <2>4. CASE Evict
    BY <2>4, EvictKeepsHumans, EvictKeepsLeaders, ClosingKept
  <2> QED
    BY <2>1, <2>2, <2>3, <2>4 DEF Next
<1>3. Spec => []TypeInv
  BY ConstantsAssumption, TypeInvInit, TypeInvNext, PTL DEF Spec
<1> QED
  BY <1>1, <1>2, <1>3, PTL DEF Spec

----------------------------------------------------------------------------
(* Invitations and the queue                                               *)

(* The lobby a leader's call in flight works on is still led by the        *)
(* caller, and an invitation under way is to a lobby that is idle.         *)
CallFits(u) ==
    LET l == rpc[u].lobby IN
    l \in live =>
      /\ rpc[u].op \in {"invite", "enqueue", "queued"} => lobby[l].leader = u
      /\ rpc[u].op = "leave" /\ rpc[u].who # u => lobby[l].leader = u
      /\ rpc[u].op = "invite" => lobby[l].state = "idle"

ControlInv == QueuedHasNoInvites /\ \A u \in Users : CallFits(u)

(* Calls about which CallFits says nothing.                                *)
LEMMA OtherCallsFit ==
  ASSUME NEW u \in Users,
         rpc'[u].op \notin {"invite", "enqueue", "queued", "leave"}
  PROVE  CallFits(u)'
BY DEF CallFits

(* What a step must keep that neither makes a lobby nor lets one into the  *)
(* queue nor changes a leader.                                             *)
LEMMA ControlKept ==
  ASSUME TypeInv, ControlInv, live' \subseteq live, invites' \subseteq invites,
         \A k \in LobbyIds : lobby'[k].leader = lobby[k].leader,
         \A k \in LobbyIds : /\ lobby[k].state = "idle" => lobby'[k].state = "idle"
                             /\ lobby'[k].state = "in_queue" => lobby[k].state = "in_queue",
         \A u \in Users : \/ rpc'[u] = rpc[u]
                          \/ rpc[u].op # "queued" /\ CallFits(u)'
  PROVE  ControlInv'
<1>1. live \subseteq LobbyIds
  BY DEF TypeInv, TypeOK
<1>2. ASSUME NEW u \in Users, rpc'[u] = rpc[u] PROVE CallFits(u)'
  BY <1>1, <1>2 DEF ControlInv, CallFits
<1>3. QueuedHasNoInvites'
  <2> SUFFICES ASSUME NEW inv \in invites', inv.lobby \in live',
                      lobby'[inv.lobby].state = "in_queue"
               PROVE  \E u \in Users : rpc'[u].op = "queued" /\ rpc'[u].lobby = inv.lobby
    BY DEF QueuedHasNoInvites
  <2>1. PICK u \in Users : rpc[u].op = "queued" /\ rpc[u].lobby = inv.lobby
    BY <1>1 DEF ControlInv, QueuedHasNoInvites
  <2>2. rpc'[u] = rpc[u]
    BY <2>1
  <2> QED
    BY <2>1, <2>2
<1> QED
  BY <1>2, <1>3 DEF ControlInv

LEMMA ControlRequest ==
  ASSUME TypeInv, SeatInv, ControlInv, NEW u \in Users, Request(u)
  PROVE  ControlInv'
<1>1. live \subseteq LobbyIds /\ rpc \in [Users -> Calls]
  BY DEF TypeInv, TypeOK
<1>2. /\ \A k \in LobbyIds : lobby'[k].leader = lobby[k].leader
      /\ live' = live /\ invites' \subseteq invites
  BY RequestKeepsLeaders
<1>3. \A v \in Users \ {u} : rpc'[v] = rpc[v]
  BY <1>1 DEF Request, MemberRequest, CreateLobby, SendInvite,
     AcceptInvite, RejectInvite, LeaveLobby, KickUser, BeginLeave, KickBot,
     SetLobbyConfig, StartMatchmaking, CancelMatchmaking, Await
<1>4. rpc[u] = NoCall /\ rpc[u].op = "none"
  BY DEF Request, MemberRequest, CreateLobby, SendInvite,
     AcceptInvite, RejectInvite, LeaveLobby, KickUser, KickBot,
     SetLobbyConfig, StartMatchmaking, CancelMatchmaking, NoCall, Call
<1> DEFINE Calm == \A k \in LobbyIds : lobby'[k].state = lobby[k].state
<1>5. ASSUME Calm, CallFits(u)' \/ rpc'[u] = rpc[u] PROVE ControlInv'
  BY <1>2, <1>3, <1>4, <1>5, ControlKept
<1>6. ASSUME NEW name \in Players, NEW i \in InviteSlots, SendInvite(u, name, i)
      PROVE  ControlInv'
  <2>1. /\ lobby[LobbyOf(u)].leader = u /\ lobby[LobbyOf(u)].state = "idle"
        /\ lobby' = lobby /\ LobbyOf(u) \in live
        /\ rpc'[u].lobby = LobbyOf(u) /\ rpc'[u].op \in {"invite", "seat_bot"}
    BY <1>1, <1>6 DEF SendInvite, LeadsMutable, Mutable, Await, Call
  <2>2. CallFits(u)'
    BY <2>1 DEF CallFits
  <2> QED
    BY <1>5, <2>1, <2>2
<1>7. ASSUME NEW t \in Users, BeginLeave(u, t), rpc[u] = NoCall,
             t # u => KickUser(u, t)
      PROVE  ControlInv'
  <2>1. /\ rpc'[u].op = "leave" /\ rpc'[u].lobby = userToLobby[t]
        /\ rpc'[u].who = t
    BY <1>1, <1>7 DEF BeginLeave, Await, Call
  <2>2. Calm
    BY <1>7, SetSeatQuiet DEF BeginLeave, Quiet
  <2>3. ASSUME t # u PROVE lobby[userToLobby[t]].leader = u
    <3>1. PICK l \in LobbyIds : LeadsMutable(u, l) /\ SlotsOf(t, lobby[l].seats) # {}
      BY <1>7, <2>3 DEF KickUser
    <3>2. userToLobby[t] = l
      BY <3>1 DEF SeatInv, SeatedIsMapped, Seated, SlotsOf
    <3> QED
      BY <3>1, <3>2 DEF LeadsMutable
  <2>4. CallFits(u)'
    BY <1>1, <1>2, <2>1, <2>3 DEF CallFits
  <2> QED
    BY <1>5, <2>2, <2>4
<1>8. ASSUME NEW b \in Bots, KickBot(u, b) PROVE ControlInv'
  <2>1. PICK l \in LobbyIds : SetSeat(l, First(SlotsOf(b, lobby[l].seats)), Nobody)
    BY <1>8 DEF KickBot
  <2>2. Calm
    BY <2>1, SetSeatQuiet DEF Quiet
  <2>3. rpc'[u].op = "cleanup"
    BY <1>1, <1>8 DEF KickBot, Await, Call
  <2> QED
    BY <1>5, <2>2, <2>3, OtherCallsFit
<1>9. ASSUME NEW rated \in BOOLEAN, SetLobbyConfig(u, rated) PROVE ControlInv'
  <2>1. Calm /\ rpc'[u] = rpc[u]
    BY <1>9, RatedEffects DEF SetLobbyConfig, Quiet
  <2> QED
    BY <1>5, <2>1
<1>10. CASE CancelMatchmaking(u)
  <2>1. LobbyOf(u) \in LobbyIds /\ UNCHANGED rpc
    BY <1>1, <1>10 DEF CancelMatchmaking, LobbyOf
  <2>2. \A k \in LobbyIds :
           lobby'[k].state = lobby[k].state \/ lobby'[k].state = "idle"
    BY <1>10, <2>1, StateEffects DEF CancelMatchmaking
  <2> QED
    BY <1>2, <2>1, <2>2, ControlKept
<1>11. CASE StartMatchmaking(u)
  <2>1. /\ lobby[LobbyOf(u)].leader = u /\ lobby' = lobby
        /\ rpc'[u].lobby = LobbyOf(u) /\ rpc'[u].op = "enqueue"
    BY <1>1, <1>11 DEF StartMatchmaking, Await, Call
  <2>2. CallFits(u)'
    BY <2>1 DEF CallFits
  <2> QED
    BY <1>5, <2>1, <2>2
<1>12. CASE \/ CreateLobby(u)
            \/ \E inv \in invites : AcceptInvite(u, inv) \/ RejectInvite(u, inv)
  <2>1. lobby' = lobby /\ (rpc'[u] = rpc[u] \/ rpc'[u].op \in {"create", "join"})
    BY <1>1, <1>12 DEF CreateLobby, AcceptInvite, RejectInvite, Await, Call
  <2> QED
    BY <1>5, <2>1, OtherCallsFit
<1> QED
  BY <1>6, <1>7, <1>8, <1>9, <1>10, <1>11, <1>12
     DEF Request, MemberRequest, LeaveLobby, KickUser

LEMMA ControlResume ==
  ASSUME TypeInv, ControlInv, NEW u \in Users, Resume(u) \/ Disconnect(u),
         "queued" \notin Disconnects
  PROVE  ControlInv'
<1>1. live \subseteq LobbyIds /\ rpc \in [Users -> Calls]
  BY DEF TypeInv, TypeOK
<1>2. \A v \in Users \ {u} : rpc'[v] = rpc[v]
  BY <1>1 DEF Resume, MemberResume, CreateResume, InviteResume, SeatBotResume,
     JoinResume, RequestFails, LeaveRemains, LeaveDissolves, LeaveKeyError,
     CleanupResume, QueuedResume, EnqueueResume, Disconnect, Await, Reply
<1> DEFINE Ends == rpc'[u].op \in {"none", "cleanup"}
<1>3. ASSUME \A k \in LobbyIds : Quiet(k), live' \subseteq live,
             invites' \subseteq invites, rpc[u].op # "queued", Ends
      PROVE  ControlInv'
  BY <1>2, <1>3, ControlKept, OtherCallsFit DEF Quiet
<1>4. CASE CreateResume(u)
  <2>1. PICK l \in LobbyIds :
          /\ Fresh(l)
          /\ lobby' = [lobby EXCEPT ![l] =
                         [BlankLobby EXCEPT !.leader = u, !.seats[0] = u]]
          /\ live' = live \cup {l}
    BY <1>4 DEF CreateResume
  <2>2. rpc'[u].op = "none" /\ rpc[u].op = "create" /\ invites' = invites
    BY <1>1, <1>4 DEF CreateResume, Reply, NoCall, Call
  <2>3. \A k \in live : lobby'[k] = lobby[k]
    BY <1>1, <2>1 DEF Fresh, TypeInv, TypeOK
  <2>4. ASSUME NEW v \in Users PROVE CallFits(v)'
    <3>1. CASE v = u
      BY <2>2, <3>1, OtherCallsFit
    <3>2. CASE v # u
      <4>1. rpc'[v] = rpc[v] /\ rpc[v].lobby # l
        BY <1>2, <2>1, <3>2 DEF Fresh
      <4> QED
        BY <2>1, <2>3, <4>1 DEF ControlInv, CallFits
    <3> QED
      BY <3>1, <3>2
  <2>5. QueuedHasNoInvites'
    <3> SUFFICES ASSUME NEW inv \in invites', inv.lobby \in live',
                        lobby'[inv.lobby].state = "in_queue"
                 PROVE  \E v \in Users : rpc'[v].op = "queued"
                                         /\ rpc'[v].lobby = inv.lobby
      BY DEF QueuedHasNoInvites
    <3>1. inv \in invites /\ inv.lobby \in live
      BY <2>1, <2>2 DEF Fresh
    <3>2. PICK v \in Users : rpc[v].op = "queued" /\ rpc[v].lobby = inv.lobby
      BY <2>3, <3>1 DEF ControlInv, QueuedHasNoInvites
    <3> QED
      BY <1>2, <2>2, <3>2
  <2> QED
    BY <2>4, <2>5 DEF ControlInv
<1>5. CASE LeaveRemains(u)
  <2> DEFINE l == rpc[u].lobby
  <2>1. /\ l \in LobbyIds
        /\ \A k \in LobbyIds : lobby'[k].state = lobby[k].state
        /\ \A k \in LobbyIds : lobby'[k].leader # lobby[k].leader =>
              k = l /\ lobby[l].leader = rpc[u].who
    BY <1>5, LeaveRemainsFacts
  <2>2. rpc'[u].op = "cleanup" /\ rpc[u].op = "leave" /\ UNCHANGED <<live, invites>>
    BY <1>1, <1>5 DEF LeaveRemains, Await, Call
  <2>3. ASSUME NEW v \in Users, v # u PROVE CallFits(v)'
    <3>1. rpc'[v] = rpc[v] /\ CallFits(v) /\ CallFits(u)
      BY <1>2, <2>3 DEF ControlInv
    <3>2. CASE rpc[v].lobby # l \/ lobby'[l].leader = lobby[l].leader
      BY <1>1, <2>1, <2>2, <3>1, <3>2 DEF CallFits
    <3>3. CASE rpc[v].lobby = l /\ lobby'[l].leader # lobby[l].leader
      <4>1. lobby[l].leader = u \/ l \notin live
        BY <2>1, <2>2, <3>1, <3>3 DEF CallFits
      <4> QED
        BY <2>2, <2>3, <3>1, <3>3, <4>1 DEF CallFits
    <3> QED
      BY <3>2, <3>3
  <2>4. CallFits(u)'
    BY <2>2, OtherCallsFit
  <2>5. QueuedHasNoInvites'
    <3> SUFFICES ASSUME NEW inv \in invites', inv.lobby \in live',
                        lobby'[inv.lobby].state = "in_queue"
                 PROVE  \E v \in Users : rpc'[v].op = "queued"
                                         /\ rpc'[v].lobby = inv.lobby
      BY DEF QueuedHasNoInvites
    <3>1. PICK v \in Users : rpc[v].op = "queued" /\ rpc[v].lobby = inv.lobby
      BY <1>1, <2>1, <2>2 DEF ControlInv, QueuedHasNoInvites
    <3> QED
      BY <1>2, <2>2, <3>1
  <2> QED
    BY <2>3, <2>4, <2>5 DEF ControlInv
<1>6. CASE EnqueueResume(u)
  <2> DEFINE l == rpc[u].lobby
  <2>1. l \in live /\ l \in LobbyIds /\ lobby[l].leader = u
    BY <1>1, <1>6 DEF EnqueueResume, ControlInv, CallFits
  <2>2. /\ \A k \in LobbyIds : lobby'[k].leader = lobby[k].leader
        /\ \A k \in LobbyIds \ {l} : lobby'[k].state = lobby[k].state
    BY <1>6, <2>1, StateEffects DEF EnqueueResume
  <2>3. /\ rpc'[u].op = "queued" /\ rpc'[u].lobby = l /\ rpc[u].op = "enqueue"
        /\ UNCHANGED <<live, invites>>
    BY <1>1, <1>6 DEF EnqueueResume, Await, Call
  <2>4. CallFits(u)'
    BY <2>1, <2>2, <2>3 DEF CallFits
  <2>5. ASSUME NEW v \in Users, v # u PROVE CallFits(v)'
    <3>1. rpc'[v] = rpc[v] /\ CallFits(v)
      BY <1>2, <2>5 DEF ControlInv
    <3> QED
      BY <1>1, <2>1, <2>2, <2>3, <2>5, <3>1 DEF CallFits
  <2>6. QueuedHasNoInvites'
    <3> SUFFICES ASSUME NEW inv \in invites', inv.lobby \in live',
                        lobby'[inv.lobby].state = "in_queue"
                 PROVE  \E v \in Users : rpc'[v].op = "queued"
                                         /\ rpc'[v].lobby = inv.lobby
      BY DEF QueuedHasNoInvites
    <3>1. CASE inv.lobby = l
      BY <2>3, <3>1
    <3>2. CASE inv.lobby # l
      <4>1. PICK v \in Users : rpc[v].op = "queued" /\ rpc[v].lobby = inv.lobby
        BY <1>1, <2>2, <2>3, <3>2 DEF ControlInv, QueuedHasNoInvites
      <4> QED
        BY <1>2, <2>3, <4>1
    <3> QED
      BY <3>1, <3>2
  <2> QED
    BY <2>4, <2>5, <2>6 DEF ControlInv
<1>7. CASE InviteResume(u)
  <2>1. CallFits(u) /\ rpc[u].op = "invite" /\ UNCHANGED <<lobby, live>>
    BY <1>7 DEF InviteResume, ControlInv
  <2>2. rpc'[u].op = "none"
    BY <1>1, <1>7 DEF InviteResume, Reply, NoCall, Call
  <2>3. \A inv \in invites' : inv \in invites \/ inv.lobby = rpc[u].lobby
    BY <1>7 DEF InviteResume
  <2>4. \A v \in Users : CallFits(v)'
    <3>1. CallFits(u)'
      BY <2>2, OtherCallsFit
    <3> QED
      BY <1>2, <2>1, <3>1 DEF ControlInv, CallFits
  <2>5. QueuedHasNoInvites'
    <3> SUFFICES ASSUME NEW inv \in invites', inv.lobby \in live',
                        lobby'[inv.lobby].state = "in_queue"
                 PROVE  \E v \in Users : rpc'[v].op = "queued"
                                         /\ rpc'[v].lobby = inv.lobby
      BY DEF QueuedHasNoInvites
    <3>1. inv \in invites
      BY <2>1, <2>3 DEF CallFits
    <3>2. PICK v \in Users : rpc[v].op = "queued" /\ rpc[v].lobby = inv.lobby
      BY <2>1, <3>1 DEF ControlInv, QueuedHasNoInvites
    <3> QED
      BY <1>2, <2>1, <3>2
  <2> QED
    BY <2>4, <2>5 DEF ControlInv
<1>8. CASE QueuedResume(u)
  <2>1. /\ rpc'[u].op = "none" /\ UNCHANGED <<lobby, live>>
        /\ \A inv \in invites' : inv \in invites /\ inv.lobby # rpc[u].lobby
    BY <1>1, <1>8 DEF QueuedResume, Reply, NoCall, Call
  <2>2. \A v \in Users : CallFits(v)'
    <3>1. CallFits(u)'
      BY <2>1, OtherCallsFit
    <3> QED
      BY <1>2, <2>1, <3>1 DEF ControlInv, CallFits
  <2>3. QueuedHasNoInvites'
    <3> SUFFICES ASSUME NEW inv \in invites', inv.lobby \in live',
                        lobby'[inv.lobby].state = "in_queue"
                 PROVE  \E v \in Users : rpc'[v].op = "queued"
                                         /\ rpc'[v].lobby = inv.lobby
      BY DEF QueuedHasNoInvites
    <3>1. PICK v \in Users : rpc[v].op = "queued" /\ rpc[v].lobby = inv.lobby
      BY <2>1 DEF ControlInv, QueuedHasNoInvites
    <3> QED
      BY <1>2, <2>1, <3>1
  <2> QED
    BY <2>2, <2>3 DEF ControlInv
<1>9. CASE SeatBotResume(u) \/ JoinResume(u)
  <2>1. \A k \in LobbyIds : Quiet(k)
    BY <1>9, ResumeKeepsLeaders
  <2> QED
    BY <1>1, <1>3, <1>9, <2>1
       DEF SeatBotResume, JoinResume, Reply, Await, NoCall, Call
<1>10. CASE \/ RequestFails(u) \/ LeaveDissolves(u) \/ LeaveKeyError(u)
            \/ CleanupResume(u) \/ Disconnect(u)
  <2>1. \A k \in LobbyIds : Quiet(k)
    BY <1>10, ResumeKeepsLeaders
  <2> QED
    BY <1>1, <1>3, <1>10, <2>1 DEF RequestFails, LeaveDissolves, LeaveKeyError,
       CleanupResume, Disconnect, NotFrom, Reply, NoCall, Call
<1> QED
  BY <1>4, <1>5, <1>6, <1>7, <1>8, <1>9, <1>10 DEF Resume, MemberResume

(* A lobby in the queue has no open invitation, except while the           *)
(* StartMatchmaking is under way that is about to delete them, as long as  *)
(* that call is not cancelled.                                             *)
THEOREM QueuedAreClosed ==
  "queued" \notin Disconnects => (Spec => []QueuedHasNoInvites)
<1> SUFFICES ASSUME "queued" \notin Disconnects
             PROVE  Spec => []QueuedHasNoInvites
  OBVIOUS
<1>1. Init => ControlInv
  BY DEF Init, ControlInv, QueuedHasNoInvites, CallFits
<1>2. TypeInv /\ SeatInv /\ ControlInv /\ [Next]_vars => ControlInv'
  <2> SUFFICES ASSUME TypeInv, SeatInv, ControlInv, [Next]_vars
               PROVE  ControlInv'
    OBVIOUS
  <2>1. CASE UNCHANGED vars
    BY <2>1 DEF vars, ControlInv, QueuedHasNoInvites, CallFits
  <2>2. ASSUME NEW u \in Users, Request(u) \/ Resume(u) \/ Disconnect(u)
        PROVE  ControlInv'
    BY <2>2, ControlRequest, ControlResume
  <2>3. ASSUME NEW l \in LobbyIds, MarkInGame(l) \/ ReleaseFromGame(l)
        PROVE  ControlInv'
    <3>1. /\ \A k \in LobbyIds : lobby'[k].leader = lobby[k].leader
          /\ \A k \in LobbyIds \ {l} : lobby'[k].state = lobby[k].state
          /\ lobby[l].state # "idle" /\ lobby'[l].state # "in_queue"
      BY <2>3, StateEffects DEF MarkInGame, ReleaseFromGame
    <3> QED
      BY <2>3, <3>1, ControlKept DEF MarkInGame, ReleaseFromGame
  <2>4. CASE Evict
    BY <2>4, EvictKeepsLeaders, ControlKept DEF Quiet
  <2> QED
    BY <2>1, <2>2, <2>3, <2>4 DEF Next
<1>3. Spec => [](TypeInv /\ SeatInv)
  BY ConstantsAssumption, TypeInvInit, TypeInvNext, SeatInvInit, SeatInvNext,
     PTL DEF Spec
<1>4. ControlInv => QueuedHasNoInvites
  BY DEF ControlInv
<1> QED
  BY <1>1, <1>2, <1>3, <1>4, PTL DEF Spec

----------------------------------------------------------------------------
(* Lobbies implements Membership                                           *)

(* Who leaves is outside already; who kicks still leads the lobby.  So     *)
(* leave replaces a leader only for one who has gone.                      *)
AwayInv ==
    \A u \in Users : rpc[u].op = "leave" =>
        IF rpc[u].who = u THEN userToLobby[u] = NoLobby
                          ELSE lobby[rpc[u].lobby].leader = u

(* Leaders, places and calls of leave as they were.                        *)
LEMMA AwayKept ==
  ASSUME TypeInv, AwayInv,
         \A k \in LobbyIds : lobby'[k].leader = lobby[k].leader,
         \A u \in Users : rpc'[u].op = "leave" =>
            rpc'[u] = rpc[u] /\ userToLobby'[u] = userToLobby[u]
  PROVE  AwayInv'
<1> SUFFICES ASSUME NEW u \in Users, rpc'[u].op = "leave"
             PROVE  IF rpc'[u].who = u THEN userToLobby'[u] = NoLobby
                    ELSE lobby'[rpc'[u].lobby].leader = u
  BY DEF AwayInv
<1>1. rpc'[u] = rpc[u] /\ rpc[u].lobby \in LobbyIds
  BY DEF TypeInv, CallsOK
<1> QED
  BY <1>1 DEF AwayInv

LEMMA AwayRequest ==
  ASSUME TypeInv, SeatInv, AwayInv, NEW u \in Users, Request(u)
  PROVE  AwayInv'
<1>1. rpc \in [Users -> Calls] /\ userToLobby \in [Users -> LobbyIds \cup {NoLobby}]
  BY DEF TypeInv, TypeOK
<1>2. \A k \in LobbyIds : lobby'[k].leader = lobby[k].leader
  BY RequestKeepsLeaders
<1>3. ASSUME NEW t \in Users, BeginLeave(u, t), t # u => KickUser(u, t)
      PROVE  AwayInv'
  <2>1. /\ rpc'[u].op = "leave" /\ rpc'[u].who = t
        /\ rpc'[u].lobby = userToLobby[t] /\ userToLobby[t] \in LobbyIds
        /\ \A v \in Users \ {u} : rpc'[v] = rpc[v]
        /\ \A v \in Users \ {t} : userToLobby'[v] = userToLobby[v]
        /\ userToLobby'[t] = NoLobby
    BY <1>1, <1>3 DEF BeginLeave, Await, Call
  <2>2. ASSUME t # u PROVE lobby[userToLobby[t]].leader = u
    <3>1. PICK l \in LobbyIds : LeadsMutable(u, l) /\ SlotsOf(t, lobby[l].seats) # {}
      BY <1>3, <2>2 DEF KickUser
    <3>2. userToLobby[t] = l
      BY <3>1 DEF SeatInv, SeatedIsMapped, Seated, SlotsOf
    <3> QED
      BY <3>1, <3>2 DEF LeadsMutable
  <2>3. ASSUME NEW v \in Users, v # u, rpc[v].op = "leave"
        PROVE  IF rpc'[v].who = v THEN userToLobby'[v] = NoLobby
               ELSE lobby'[rpc'[v].lobby].leader = v
    <3>1. rpc[v].lobby \in LobbyIds
      BY <2>3 DEF TypeInv, CallsOK
    <3> QED
      BY <1>2, <2>1, <2>3, <3>1 DEF AwayInv
  <2> QED
    BY <1>2, <2>1, <2>2, <2>3 DEF AwayInv
<1>4. ASSUME UNCHANGED userToLobby,
             \A v \in Users : rpc'[v].op = "leave" => rpc'[v] = rpc[v]
      PROVE  AwayInv'
  BY <1>2, <1>4, AwayKept
<1>5. CASE \/ CreateLobby(u) \/ StartMatchmaking(u) \/ CancelMatchmaking(u)
           \/ \E name \in Players, i \in InviteSlots : SendInvite(u, name, i)
           \/ \E inv \in invites : AcceptInvite(u, inv) \/ RejectInvite(u, inv)
           \/ \E b \in Bots : KickBot(u, b)
           \/ \E rated \in BOOLEAN : SetLobbyConfig(u, rated)
  BY <1>1, <1>4, <1>5 DEF CreateLobby, StartMatchmaking, CancelMatchmaking,
     SendInvite, AcceptInvite, RejectInvite, KickBot, SetLobbyConfig, Await, Call
<1> QED
  BY <1>3, <1>5 DEF Request, MemberRequest, LeaveLobby, KickUser

LEMMA AwayResume ==
  ASSUME TypeInv, SeatInv, AwayInv, NEW u \in Users, Resume(u) \/ Disconnect(u)
  PROVE  AwayInv'
<1>1. rpc \in [Users -> Calls] /\ userToLobby \in [Users -> LobbyIds \cup {NoLobby}]
  BY DEF TypeInv, TypeOK
<1>2. /\ \A v \in Users \ {u} : rpc'[v] = rpc[v] /\ userToLobby'[v] = userToLobby[v]
      /\ rpc'[u].op # "leave"
  BY <1>1 DEF Resume, MemberResume, CreateResume, InviteResume, SeatBotResume,
     JoinResume, RequestFails, LeaveRemains, LeaveDissolves, LeaveKeyError,
     CleanupResume, QueuedResume, EnqueueResume, Disconnect, Await, Reply,
     NoCall, Call
<1>3. ASSUME \A k \in LobbyIds : lobby'[k].leader = lobby[k].leader
      PROVE  AwayInv'
  BY <1>2, <1>3, AwayKept
<1>4. CASE CreateResume(u)
  <2>1. PICK l \in LobbyIds :
          /\ Fresh(l)
          /\ lobby' = [lobby EXCEPT ![l] =
                         [BlankLobby EXCEPT !.leader = u, !.seats[0] = u]]
    BY <1>4 DEF CreateResume
  <2> SUFFICES ASSUME NEW v \in Users, rpc'[v].op = "leave"
               PROVE  IF rpc'[v].who = v THEN userToLobby'[v] = NoLobby
                      ELSE lobby'[rpc'[v].lobby].leader = v
    BY DEF AwayInv
  <2>2. v # u /\ rpc'[v] = rpc[v] /\ rpc[v].lobby \in LobbyIds \ {l}
    BY <1>2, <2>1 DEF Fresh, TypeInv, CallsOK
  <2>3. lobby'[rpc[v].lobby] = lobby[rpc[v].lobby]
    BY <2>1, <2>2 DEF TypeInv, TypeOK
  <2> QED
    BY <1>2, <2>2, <2>3 DEF AwayInv
<1>5. CASE LeaveRemains(u)
  <2> DEFINE l == rpc[u].lobby
  <2>1. \A k \in LobbyIds : lobby'[k].leader # lobby[k].leader =>
           k = l /\ lobby[l].leader = rpc[u].who
    BY <1>5, LeaveRemainsFacts
  <2>2. rpc[u].op = "leave"
    BY <1>5 DEF LeaveRemains
  <2> SUFFICES ASSUME NEW v \in Users, rpc'[v].op = "leave"
               PROVE  IF rpc'[v].who = v THEN userToLobby'[v] = NoLobby
                      ELSE lobby'[rpc'[v].lobby].leader = v
    BY DEF AwayInv
  <2>3. v # u /\ rpc'[v] = rpc[v] /\ rpc[v].lobby \in LobbyIds
        /\ userToLobby'[v] = userToLobby[v]
    BY <1>2 DEF TypeInv, CallsOK
  <2>4. CASE rpc[v].who = v
    BY <2>3, <2>4 DEF AwayInv
  <2>5. CASE rpc[v].who # v
    <3>1. lobby[rpc[v].lobby].leader = v
      BY <2>3, <2>5 DEF AwayInv
    <3>2. rpc[v].lobby = l => rpc[u].who # v
      BY <2>2, <2>3, <3>1 DEF AwayInv
    <3>3. lobby'[rpc[v].lobby].leader = lobby[rpc[v].lobby].leader
      BY <2>1, <2>3, <3>1, <3>2
    <3> QED
      BY <2>3, <2>5, <3>1, <3>3
  <2> QED
    BY <2>4, <2>5
<1>6. ASSUME EnqueueResume(u)
      PROVE  \A k \in LobbyIds : lobby'[k].leader = lobby[k].leader
  <2>1. rpc[u].lobby \in LobbyIds
    BY <1>6 DEF EnqueueResume, TypeInv, CallsOK
  <2> QED
    BY <1>6, <2>1, StateEffects DEF EnqueueResume
<1> QED
  BY <1>3, <1>4, <1>5, <1>6, ResumeKeepsLeaders DEF Resume, MemberResume, Quiet

LEMMA AwayNext ==
  ASSUME TypeInv, SeatInv, AwayInv, [Next]_vars
  PROVE  AwayInv'
<1>1. ASSUME NEW l \in LobbyIds, MarkInGame(l) \/ ReleaseFromGame(l)
      PROVE  AwayInv'
  BY <1>1, TransitionKeepsLeaders, AwayKept DEF MarkInGame, ReleaseFromGame
<1>2. CASE Evict
  <2>1. UNCHANGED userToLobby
    BY <1>2 DEF Evict, EvictBegin, EvictSeat, EvictNextLobby, EvictKeyError
  <2> QED
    BY <1>2, <2>1, EvictKeepsLeaders, AwayKept DEF Quiet
<1>3. CASE UNCHANGED vars
  BY <1>3, AwayKept DEF vars
<1> QED
  BY <1>1, <1>2, <1>3, AwayRequest, AwayResume DEF Next

(* What Membership sees of a step that seats and unseats no human, and of  *)
(* one that changes nothing it sees.                                       *)
SameMembers == \A k \in LobbyIds : Humans(k)' = Humans(k)

LEMMA GroupKept ==
  ASSUME SameMembers, \A k \in LobbyIds : lobby'[k].leader = lobby[k].leader,
         UNCHANGED <<userToLobby, live>>
  PROVE  UNCHANGED Group!membership
BY DEF SameMembers, Group!membership

LEMMA SeatsGiveMembers ==
  ASSUME \A k \in LobbyIds, j \in Slots :
            lobby'[k].seats[j] = lobby[k].seats[j]
  PROVE  SameMembers
BY DEF SameMembers, Humans, Seated

LEMMA SetSeatMembers ==
  ASSUME TypeInv, NEW l \in LobbyIds, NEW i \in Slots, NEW name,
         SetSeat(l, i, name), name \notin Users, lobby[l].seats[i] \notin Users
  PROVE  SameMembers
<1>1. lobby \in [LobbyIds -> Lobby] /\ lobby[l] \in Lobby
  BY DEF TypeInv, TypeOK
<1>2. lobby'[l] = [lobby[l] EXCEPT !.seats[i] = name]
  BY <1>1 DEF SetSeat
<1>3. \A j \in Slots : lobby'[l].seats[j] =
                          IF j = i THEN name ELSE lobby[l].seats[j]
  BY <1>1, <1>2 DEF Lobby
<1>4. \A k \in LobbyIds \ {l} : lobby'[k] = lobby[k]
  BY <1>1 DEF SetSeat
<1>5. \A u \in Users : Seated(u, l)' <=> Seated(u, l)
  BY <1>3 DEF Seated
<1>6. Humans(l)' = Humans(l)
  BY <1>5 DEF Humans
<1>7. \A k \in LobbyIds \ {l} : Humans(k)' = Humans(k)
  BY <1>4 DEF Humans, Seated
<1> QED
  BY <1>6, <1>7 DEF SameMembers

(* A lobby is made for a user who is in none, with an object in which      *)
(* nobody sits or is mapped to.                                            *)
LEMMA FoundStep ==
  ASSUME TypeInv, SeatInv, NEW u \in Users, CreateResume(u)
  PROVE  Group!MembershipNext
<1>1. PICK l \in LobbyIds :
        /\ Fresh(l)
        /\ lobby' = [lobby EXCEPT ![l] =
              [BlankLobby EXCEPT !.leader = u, !.seats[0] = u]]
        /\ live' = live \cup {l}
        /\ userToLobby' = [userToLobby EXCEPT ![u] = l]
  BY DEF CreateResume
<1>2. lobby \in [LobbyIds -> Lobby]
  BY DEF TypeInv, TypeOK
<1>3. /\ \A j \in Slots : lobby'[l].seats[j] = IF j = 0 THEN u ELSE Nobody
      /\ lobby'[l].leader = u
  BY <1>1, <1>2 DEF BlankLobby, EmptySeats, Slots
<1>4. \A k \in LobbyIds \ {l} : lobby'[k] = lobby[k]
  BY <1>1, <1>2
<1>5. Humans(l)' = {u}
  BY <1>3, ConstantsAssumption DEF Humans, Seated, Slots
<1>6. \A k \in LobbyIds \ {l} : Humans(k)' = Humans(k)
  BY <1>4 DEF Humans, Seated
<1>7. userToLobby[u] = NoLobby
  BY DEF CreateResume, SeatInv, PendingIsUnmapped
<1>8. l \notin live /\ \A v \in Users : userToLobby[v] # l
  BY <1>1 DEF Fresh
<1>9. Humans(l) = {}
  BY <1>8 DEF Humans, SeatInv, SeatedIsMapped
<1>10. [k \in LobbyIds |-> Humans(k)'] =
          [[k \in LobbyIds |-> Humans(k)] EXCEPT ![l] = {u}]
  BY <1>5, <1>6
<1>11. [k \in LobbyIds |-> lobby'[k].leader] =
          [[k \in LobbyIds |-> lobby[k].leader] EXCEPT ![l] = u]
  BY <1>3, <1>4
<1>12. Group!Found(u, l)
  BY <1>1, <1>7, <1>8, <1>9, <1>10, <1>11 DEF Group!Found
<1> QED
  BY <1>12 DEF Group!MembershipNext

(* join_at seats a user who was outside, in the place of whoever has got   *)
(* the seat during its load.                                               *)
LEMMA EnterStep ==
  ASSUME TypeInv, SeatInv, NEW u \in Users, JoinResume(u)
  PROVE  Group!MembershipNext
<1>1. PICK l \in LobbyIds, i \in Slots : l = rpc[u].lobby /\ i = rpc[u].idx
  BY DEF JoinResume, TypeInv, TypeOK, CallsOK, Calls
<1> DEFINE out == {lobby[l].seats[i]} \cap Users
<1>2. lobby \in [LobbyIds -> Lobby]
  BY DEF TypeInv, TypeOK
<1>3. \A k \in LobbyIds, j \in Slots :
         lobby'[k].seats[j] = IF k = l /\ j = i THEN u ELSE lobby[k].seats[j]
  BY <1>1, <1>2 DEF JoinResume, SetSeat, Lobby
<1>4. userToLobby[u] = NoLobby
  BY DEF JoinResume, SeatInv, PendingIsUnmapped
<1>5. \A v \in Users : Seated(v, l)' <=>
         v = u \/ (Seated(v, l) /\ v # lobby[l].seats[i])
  BY <1>1, <1>3 DEF Seated, SeatInv, OneSeatPerHuman
<1>6. Humans(l)' = (Humans(l) \ out) \cup {u}
  BY <1>5 DEF Humans
<1>7. \A k \in LobbyIds \ {l} : Humans(k)' = Humans(k)
  BY <1>3 DEF Humans, Seated
<1>8. out \in {{}} \cup {{q} : q \in Humans(l)}
  <2>1. CASE lobby[l].seats[i] \in Users
    <3>1. lobby[l].seats[i] \in Humans(l) /\ out = {lobby[l].seats[i]}
      BY <1>1, <2>1 DEF Humans, Seated
    <3> QED
      BY <3>1
  <2>2. CASE lobby[l].seats[i] \notin Users
    BY <2>2
  <2> QED
    BY <2>1, <2>2
<1>9. \A k \in LobbyIds : lobby'[k].leader = lobby[k].leader
  BY ResumeKeepsLeaders DEF Quiet
<1> HIDE DEF out
<1>10. [k \in LobbyIds |-> Humans(k)'] =
          [[k \in LobbyIds |-> Humans(k)] EXCEPT ![l] = (Humans(l) \ out) \cup {u}]
  BY <1>6, <1>7
<1>11. Group!Enter(u, l, out)
  BY <1>1, <1>4, <1>9, <1>10 DEF Group!Enter, JoinResume
<1> QED
  BY <1>1, <1>8, <1>11 DEF Group!MembershipNext

(* leave and kick take a member out of the lobby, and of no other.         *)
LEMMA ExitStep ==
  ASSUME TypeInv, SeatInv, NEW u \in Users, NEW t \in Users, BeginLeave(u, t)
  PROVE  Group!MembershipNext
<1>1. PICK l \in LobbyIds : l = userToLobby[t] /\ l \in live
  BY DEF BeginLeave, Mutable, TypeInv, TypeOK
<1> DEFINE pos == First(SlotsOf(t, lobby[l].seats))
<1>2. pos \in Slots /\ lobby[l].seats[pos] = t
  BY <1>1, FirstIsMember DEF BeginLeave, SlotsOf
<1>3. lobby \in [LobbyIds -> Lobby]
  BY DEF TypeInv, TypeOK
<1>4. \A k \in LobbyIds, j \in Slots :
         lobby'[k].seats[j] =
             IF k = l /\ j = pos THEN Nobody ELSE lobby[k].seats[j]
  BY <1>1, <1>2, <1>3 DEF BeginLeave, SetSeat, Lobby
<1>5. \A v \in Users : Seated(v, l)' <=> Seated(v, l) /\ v # t
  BY <1>1, <1>2, <1>4, ConstantsAssumption DEF Seated, SeatInv, OneSeatPerHuman
<1>6. Humans(l)' = Humans(l) \ {t}
  BY <1>5 DEF Humans
<1>7. \A k \in LobbyIds \ {l} : Humans(k)' = Humans(k)
  BY <1>4 DEF Humans, Seated
<1>8. t \in Humans(l)
  BY <1>2 DEF Humans, Seated
<1>9. \A k \in LobbyIds : lobby'[k].leader = lobby[k].leader
  BY SetSeatQuiet DEF BeginLeave, Quiet
<1>10. [k \in LobbyIds |-> Humans(k)'] =
          [[k \in LobbyIds |-> Humans(k)] EXCEPT ![l] = Humans(l) \ {t}]
  BY <1>6, <1>7
<1>11. Group!Exit(t, l)
  BY <1>1, <1>8, <1>9, <1>10 DEF Group!Exit, BeginLeave
<1> QED
  BY <1>1, <1>11 DEF Group!MembershipNext

(* leave replaces a leader who is not in the lobby any more.               *)
LEMMA SucceedStep ==
  ASSUME TypeInv, SeatInv, AwayInv, NEW u \in Users, LeaveRemains(u)
  PROVE  [Group!MembershipNext]_(Group!membership)
<1>1. PICK l, p :
         /\ l \in LobbyIds
         /\ l = rpc[u].lobby /\ p = lobby'[l].leader
         /\ \A k \in LobbyIds : lobby'[k].leader # lobby[k].leader =>
               k = l /\ lobby[l].leader = rpc[u].who /\ p \in Humans(l)
  BY LeaveRemainsFacts
<1>2. \A k \in LobbyIds, j \in Slots :
         lobby'[k].seats[j] = lobby[k].seats[j]
  BY <1>1, FieldsKeepSeats DEF LeaveRemains
<1>3. SameMembers /\ UNCHANGED <<userToLobby, live>> /\ rpc[u].op = "leave"
  BY <1>2, SeatsGiveMembers DEF LeaveRemains
<1>4. CASE p = lobby[l].leader
  BY <1>1, <1>3, <1>4, GroupKept
<1>5. CASE p # lobby[l].leader
  <2>1. lobby[l].leader = rpc[u].who /\ p \in Humans(l)
    BY <1>1, <1>5
  <2>2. rpc[u].who \in Users
    BY <1>3 DEF TypeInv, CallsOK
  <2>3. rpc[u].who = u /\ userToLobby[u] = NoLobby
    BY <1>1, <1>3, <2>1 DEF AwayInv
  <2>4. lobby[l].leader \notin Humans(l)
    BY <1>1, <2>1, <2>3, ConstantsAssumption
       DEF Humans, SeatInv, SeatedIsMapped
  <2>5. \A k \in LobbyIds \ {l} : lobby'[k].leader = lobby[k].leader
    BY <1>1
  <2>6. [k \in LobbyIds |-> lobby'[k].leader] =
          [[k \in LobbyIds |-> lobby[k].leader] EXCEPT ![l] = p]
    BY <1>1, <2>5
  <2>7. p \in Users
    BY <2>1 DEF Humans
  <2>8. Group!Succeed(p, l)
    BY <1>1, <1>3, <2>1, <2>4, <2>6 DEF Group!Succeed, SameMembers
  <2> QED
    BY <1>1, <2>7, <2>8 DEF Group!MembershipNext
<1> QED
  BY <1>4, <1>5

(* leave and the eviction of a bot close a lobby nobody sits in; a bot     *)
(* that goes is not a member.                                              *)
LEMMA CloseStep ==
  ASSUME TypeInv, NEW l \in live, Humans(l) = {}, live' = live \ {l},
         SameMembers, \A k \in LobbyIds : lobby'[k].leader = lobby[k].leader,
         UNCHANGED userToLobby
  PROVE  Group!MembershipNext
<1>1. l \in LobbyIds
  BY DEF TypeInv, TypeOK
<1>2. Group!Close(l)
  BY <1>1 DEF Group!Close, SameMembers
<1> QED
  BY <1>1, <1>2 DEF Group!MembershipNext

LEMMA EvictStep ==
  ASSUME TypeInv, Evict
  PROVE  [Group!MembershipNext]_(Group!membership)
<1>1. /\ evict.bot \in Bots \cup {Nobody} /\ evict.todo \subseteq LobbyIds
      /\ evict.cur # NoLobby => evict.cur \in LobbyIds
      /\ live \subseteq LobbyIds
  BY DEF TypeInv, TypeOK
<1>2. ASSUME NEW b \in Bots \cup {Nobody}, NEW l \in LobbyIds, Evictable(l, b),
             SetSeat(l, First(SlotsOf(b, lobby[l].seats)), Nobody)
      PROVE  SameMembers
  <2>1. First(SlotsOf(b, lobby[l].seats)) \in SlotsOf(b, lobby[l].seats)
    BY <1>2, FirstIsMember DEF Evictable, SlotsOf
  <2>2. First(SlotsOf(b, lobby[l].seats)) \in Slots
        /\ lobby[l].seats[First(SlotsOf(b, lobby[l].seats))] \notin Users
    BY <2>1, ConstantsAssumption DEF SlotsOf
  <2> QED
    BY <1>2, <2>2, SetSeatMembers, ConstantsAssumption
<1>3. ASSUME NEW todo \in SUBSET LobbyIds, NEW b \in Bots \cup {Nobody},
             NEW newLive, EvictFrom(todo, b, newLive)
      PROVE  SameMembers
  <2>1. \/ lobby' = lobby
        \/ \E l \in todo : Evictable(l, b)
              /\ SetSeat(l, First(SlotsOf(b, lobby[l].seats)), Nobody)
    BY <1>3, Zenon DEF EvictFrom
  <2>2. CASE \E l \in todo : Evictable(l, b)
              /\ SetSeat(l, First(SlotsOf(b, lobby[l].seats)), Nobody)
    BY <1>2, <2>2, Zenon
  <2>3. CASE lobby' = lobby
    BY <2>3, SeatsGiveMembers
  <2> QED
    BY <2>1, <2>2, <2>3
<1>4. CASE EvictNextLobby
  <2>1. SameMembers
    BY <1>1, <1>3, <1>4 DEF EvictNextLobby
  <2>2. UNCHANGED userToLobby
        /\ \A k \in LobbyIds : lobby'[k].leader = lobby[k].leader
    BY <1>4, EvictKeepsLeaders DEF EvictNextLobby, Quiet
  <2>3. CASE HasHuman(lobby[evict.cur].seats)
    BY <1>4, <2>1, <2>2, <2>3, GroupKept DEF EvictNextLobby, EvictFrom
  <2>4. CASE ~HasHuman(lobby[evict.cur].seats)
    BY <1>4, <2>1, <2>2, <2>4, CloseStep, HumansAreSeated
       DEF EvictNextLobby, EvictFrom
  <2> QED
    BY <2>3, <2>4
<1>5. ASSUME NEW b \in Bots, EvictBegin(b) PROVE SameMembers
  BY <1>1, <1>3, <1>5 DEF EvictBegin
<1>6. ASSUME EvictSeat PROVE SameMembers
  <2>1. First(EvictLater) \in EvictLater
    BY <1>6, FirstIsMember DEF EvictSeat, EvictLater, SlotsOf
  <2>2. First(EvictLater) \in Slots
        /\ lobby[evict.cur].seats[First(EvictLater)] = evict.bot
    BY <2>1 DEF EvictLater, SlotsOf
  <2> QED
    BY <1>1, <1>6, <2>2, SetSeatMembers, ConstantsAssumption DEF EvictSeat
<1>7. EvictKeyError => SameMembers
  BY SeatsGiveMembers DEF EvictKeyError
<1>8. CASE ~EvictNextLobby
  <2>1. SameMembers /\ UNCHANGED <<userToLobby, live>>
    BY <1>5, <1>6, <1>7, <1>8
       DEF Evict, EvictBegin, EvictFrom, EvictSeat, EvictKeyError
  <2> QED
    BY <2>1, EvictKeepsLeaders, GroupKept DEF Quiet
<1> QED
  BY <1>4, <1>8

LEMMA RequestStep ==
  ASSUME TypeInv, SeatInv, NEW u \in Users, Request(u)
  PROVE  [Group!MembershipNext]_(Group!membership)
<1>1. live \subseteq LobbyIds /\ live' = live
      /\ \A k \in LobbyIds : lobby'[k].leader = lobby[k].leader
  BY RequestKeepsLeaders DEF TypeInv, TypeOK
<1>2. ASSUME NEW t \in Users, BeginLeave(u, t)
      PROVE  Group!MembershipNext
  BY <1>2, ExitStep
<1>3. ASSUME NEW b \in Bots, KickBot(u, b) PROVE SameMembers
  <2>1. PICK l \in LobbyIds :
          /\ SlotsOf(b, lobby[l].seats) # {}
          /\ SetSeat(l, First(SlotsOf(b, lobby[l].seats)), Nobody)
    BY <1>3 DEF KickBot
  <2>2. First(SlotsOf(b, lobby[l].seats)) \in SlotsOf(b, lobby[l].seats)
    BY <2>1, FirstIsMember DEF SlotsOf
  <2>3. First(SlotsOf(b, lobby[l].seats)) \in Slots
        /\ lobby[l].seats[First(SlotsOf(b, lobby[l].seats))] \notin Users
    BY <2>2, ConstantsAssumption DEF SlotsOf
  <2> QED
    BY <2>1, <2>3, SetSeatMembers, ConstantsAssumption
<1>4. CancelMatchmaking(u) => SameMembers
  <2>1. ASSUME CancelMatchmaking(u) PROVE LobbyOf(u) \in LobbyIds
    BY <1>1, <2>1 DEF CancelMatchmaking, LobbyOf
  <2> QED
    BY <2>1, FieldsKeepSeats, SeatsGiveMembers DEF CancelMatchmaking
<1>5. ASSUME NEW rated \in BOOLEAN, SetLobbyConfig(u, rated) PROVE SameMembers
  <2>1. PICK l \in LobbyIds : lobby' = [lobby EXCEPT ![l].rated = rated]
    BY <1>5 DEF SetLobbyConfig
  <2> QED
    BY <2>1, FieldsKeepSeats, SeatsGiveMembers
<1>6. CASE \/ CreateLobby(u) \/ StartMatchmaking(u)
           \/ \E name \in Players, i \in InviteSlots : SendInvite(u, name, i)
           \/ \E inv \in invites : AcceptInvite(u, inv) \/ RejectInvite(u, inv)
  <2>1. UNCHANGED <<lobby, userToLobby>>
    BY <1>6 DEF CreateLobby, StartMatchmaking, SendInvite, AcceptInvite, RejectInvite
  <2> QED
    BY <1>1, <2>1, SeatsGiveMembers, GroupKept
<1>7. CASE \/ \E b \in Bots : KickBot(u, b)
           \/ \E rated \in BOOLEAN : SetLobbyConfig(u, rated)
           \/ CancelMatchmaking(u)
  <2>1. SameMembers /\ UNCHANGED userToLobby
    BY <1>3, <1>4, <1>5, <1>7 DEF KickBot, SetLobbyConfig, CancelMatchmaking
  <2> QED
    BY <1>1, <2>1, GroupKept
<1> QED
  BY <1>2, <1>6, <1>7 DEF Request, MemberRequest, LeaveLobby, KickUser

LEMMA ResumeStep ==
  ASSUME TypeInv, SeatInv, AwayInv, NEW u \in Users, Resume(u) \/ Disconnect(u)
  PROVE  [Group!MembershipNext]_(Group!membership)
<1>1. live \subseteq LobbyIds
  BY DEF TypeInv, TypeOK
<1>2. CASE SeatBotResume(u)
  <2>1. rpc[u].lobby \in LobbyIds /\ rpc[u].idx \in Slots /\ rpc[u].who \in Bots
    BY <1>2 DEF SeatBotResume, TypeInv, TypeOK, CallsOK, Calls
  <2>2. SameMembers
    BY <1>2, <2>1, SetSeatMembers, ConstantsAssumption DEF SeatBotResume
  <2> QED
    BY <1>2, <2>2, ResumeKeepsLeaders, GroupKept DEF SeatBotResume, Quiet
<1>3. CASE EnqueueResume(u)
  <2>1. rpc[u].lobby \in LobbyIds
    BY <1>3 DEF EnqueueResume, TypeInv, CallsOK
  <2>2. \A k \in LobbyIds, j \in Slots : lobby'[k].seats[j] = lobby[k].seats[j]
    BY <1>3, <2>1, FieldsKeepSeats DEF EnqueueResume
  <2> QED
    BY <1>3, <2>1, <2>2, StateEffects, SeatsGiveMembers, GroupKept DEF EnqueueResume
<1>4. CASE LeaveDissolves(u)
  <2>1. rpc[u].lobby \in live /\ Humans(rpc[u].lobby) = {}
        /\ UNCHANGED <<lobby, userToLobby>> /\ live' = live \ {rpc[u].lobby}
    BY <1>4, HumansAreSeated DEF LeaveDissolves
  <2> QED
    BY <2>1, SeatsGiveMembers, CloseStep
<1>5. CASE \/ InviteResume(u) \/ RequestFails(u) \/ LeaveKeyError(u)
           \/ CleanupResume(u) \/ QueuedResume(u) \/ Disconnect(u)
  <2>1. UNCHANGED <<lobby, userToLobby, live>>
    BY <1>5 DEF InviteResume, RequestFails, LeaveKeyError, CleanupResume,
       QueuedResume, Disconnect
  <2> QED
    BY <2>1, SeatsGiveMembers, GroupKept
<1> QED
  BY <1>2, <1>3, <1>4, <1>5, FoundStep, EnterStep, SucceedStep
     DEF Resume, MemberResume

LEMMA MembershipStep ==
  ASSUME TypeInv, SeatInv, AwayInv, [Next]_vars
  PROVE  [Group!MembershipNext]_(Group!membership)
<1>1. ASSUME NEW l \in LobbyIds, MarkInGame(l) \/ ReleaseFromGame(l)
      PROVE  UNCHANGED Group!membership
  <2>1. \A k \in LobbyIds, j \in Slots : lobby'[k].seats[j] = lobby[k].seats[j]
    BY <1>1, FieldsKeepSeats DEF MarkInGame, ReleaseFromGame
  <2> QED
    BY <1>1, <2>1, TransitionKeepsLeaders, SeatsGiveMembers, GroupKept
       DEF MarkInGame, ReleaseFromGame
<1>2. CASE UNCHANGED vars
  BY <1>2, SeatsGiveMembers, GroupKept DEF vars
<1> QED
  BY <1>1, <1>2, RequestStep, ResumeStep, EvictStep DEF Next

LEMMA MembershipBegins == Init => Group!MembershipInit /\ AwayInv
<1> SUFFICES ASSUME Init PROVE Group!MembershipInit /\ AwayInv
  OBVIOUS
<1>1. \A k \in LobbyIds : Humans(k) = {} /\ lobby[k].leader = Nobody
  BY ConstantsAssumption DEF Init, Humans, Seated, BlankLobby, EmptySeats
<1>2. Group!MembershipInit
  BY <1>1 DEF Init, Group!MembershipInit
<1> QED
  BY <1>2 DEF Init, AwayInv, NoCall, Call

(* Whatever the order in which handlers go on, fail or are cut off, every  *)
(* step of the lobbies is one that Membership allows: users come in from   *)
(* outside, leave from a seat, one at a time, and succeed a leader who has *)
(* gone, and a lobby is closed when nobody sits in it.                     *)
THEOREM LobbiesKeepMembership == Spec => KeepsMembership
<1>1. Spec => [](TypeInv /\ SeatInv /\ AwayInv)
  BY ConstantsAssumption, TypeInvInit, TypeInvNext, SeatInvInit, SeatInvNext,
     MembershipBegins, AwayNext, PTL DEF Spec
<1> QED
  BY <1>1, MembershipBegins, MembershipStep, PTL
     DEF Spec, KeepsMembership, Group!MembershipSpec
=============================================================================
