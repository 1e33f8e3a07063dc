------------------------------ MODULE Presence ------------------------------
(***************************************************************************)
(* Who is online and who is available: the websocket endpoint of the       *)
(* backend (services/backend/websocket/main.py), with its lock             *)
(* ws:online:<user> that expires, against Notifier.mark_busy and           *)
(* mark_idle_if_online (services/core/notifier.py), called by the core     *)
(* while users enter and leave lobbies and games.                          *)
(*                                                                         *)
(* The two processes meet in Redis only.  An action is the code from one   *)
(* Redis command, or gRPC reply, to the next.                              *)
(***************************************************************************)
EXTENDS ActivePlayers, Naturals, FiniteSets

CONSTANTS
    Users,          \* usernames of humans
    Conns,          \* websocket connections, each with the conn_uuid of its
                    \* lock (an id is reused when nothing refers to it)
    NoConn,         \* no such key in Redis
    MaxMarks        \* BOUND: marks in flight about one user

ASSUME PresenceAssumption ==
    /\ NoConn \notin Conns
    /\ Conns \cap {"leader", "core"} = {}
    /\ MaxMarks \in Nat

VARIABLES
    lock,           \* ws:online:<u>: the connection that holds it
    conn,           \* the connections
    core,           \* what the core holds of a user
    calls,          \* mark_busy and mark_idle_if_online in flight
    disturbed,      \* HISTORY: the users about whom writes met in a way the
                    \* code does not order, since they were last offline
    stranded        \* HISTORY: the users who are in no lobby and no game since
                    \* a step that marks nobody idle, and were not added to
                    \* the set of available players since

presenceVars == <<lock, conn, core, calls, disturbed, stranded>>

(* pc: what the endpoint does next.                                        *)
(*   snapshot   GetUserSnapshot, after SET NX took the lock                *)
(*   add        SADD, the snapshot said IDLE                               *)
(*   open       its three tasks run                                        *)
(*   srem       SREM, the first command of its finally block               *)
(*   release    the compare-and-delete of the lock                         *)
Endpoint == [pc : {"none", "snapshot", "add", "open", "srem", "release"},
             user : Users]

(* lobby: the user's lobby exists and the user sits in it, or somebody who *)
(* joined has taken the seat; or the user is mapped to one that was        *)
(* dissolved.                                                              *)
(* game: _user_to_game leads to a game that runs.  Its lobby is closed     *)
(* until it ends when the queue held the lobby as it was ("held").  The    *)
(* tick also fires entries that were cancelled meanwhile: their players    *)
(* may leave the lobby, before the game or during it, and it may be        *)
(* dissolved ("loose").                                                    *)
(* due: a loose game that _user_to_game does not name any more, because it *)
(* ended or the user plays another one, has not returned the user yet.     *)
Place == [lobby : {"none", "seated", "unseated", "gone"},
          game : {"none", "held", "loose"}, due : BOOLEAN]

Nowhere == [lobby |-> "none", game |-> "none", due |-> FALSE]

InLobby(place) == place.lobby \in {"seated", "unseated"}

(* A mark about user, in a handler run for the request of a connection, of *)
(* another user's connection (the leader who kicks), or by the core's own  *)
(* tasks.                                                                  *)
Mark == [user : Users, by : Conns \cup {"leader", "core"},
         want : {"busy", "idle"}, pc : {"check", "write"}]

(* Of core, also: who plays for a lobby that is closed stays in it.        *)
PresenceTypeOK ==
    /\ lock \in [Users -> Conns \cup {NoConn}]
    /\ conn \in [Conns -> Endpoint]
    /\ core \in [Users -> Place]
    /\ \A u \in Users : core[u].game = "held" => InLobby(core[u])
    /\ calls \subseteq Mark
    /\ disturbed \subseteq Users
    /\ stranded \subseteq Users

----------------------------------------------------------------------------
(* UserSessionIndex.get_sync: a lobby that was dissolved is none.          *)
SyncState(place) ==
    CASE place.game # "none" -> "GAME"
      [] place.game = "none" /\ InLobby(place) -> "LOBBY"
      [] OTHER -> "IDLE"

Live(c) == conn[c].pc # "none"

ConnsOf(u) == {c \in Conns : conn[c].user = u /\ Live(c)}

(* The lock of a live connection expired before its refresh came.          *)
Lost(c) == Live(c) /\ lock[conn[c].user] # c

Closing(u) == \E c \in ConnsOf(u) : conn[c].pc \in {"srem", "release"}

Adding(u) == \E c \in ConnsOf(u) : conn[c].pc = "add"

CallsOf(u) == {k \in calls : k.user = u}

InFlight(u, want) == \E k \in CallsOf(u) : k.want = want

Goto(c, pc) == conn' = [conn EXCEPT ![c].pc = pc]

Disturb(S) == disturbed' = disturbed \cup S

DisturbIf(u, test) == Disturb(IF test THEN {u} ELSE {})

(* The name is in the set again.                                           *)
Readd(u) == Sadd(u) /\ stranded' = stranded \ {u}

----------------------------------------------------------------------------
(* The endpoint                                                            *)

(* A fresh uuid: nothing refers to the connection any more.                *)
Unused(c) ==
    /\ ~Live(c)
    /\ \A u \in Users : lock[u] # c
    /\ \A k \in calls : k.by # c

(* SET NX EX.  A connection that does not get the lock is closed with 4409 *)
(* and changes nothing.                                                    *)
Accept(c, u) ==
    /\ Unused(c)
    /\ lock[u] = NoConn
    /\ lock' = [lock EXCEPT ![u] = c]
    /\ conn' = [conn EXCEPT ![c] = [pc |-> "snapshot", user |-> u]]
    /\ UNCHANGED <<available, core, calls, disturbed, stranded>>

(* Mutant: every user who connects becomes available.                      *)
AddsAnyone(place) == TRUE

(* Add to active set only when user is idle (no lobby/game).               *)
AddsToActive(place) == SyncState(place) = "IDLE"

(* A busy mark that is still in flight about an idle user comes before or  *)
(* after the SADD.                                                         *)
Snapshot(c) ==
    LET u == conn[c].user IN
    /\ conn[c].pc = "snapshot"
    /\ Goto(c, IF AddsToActive(core[u]) THEN "add" ELSE "open")
    /\ DisturbIf(u, AddsToActive(core[u]) /\ InFlight(u, "busy"))
    /\ UNCHANGED <<available, lock, core, calls, stranded>>

(* The core does not answer: the user is told and stays connected.         *)
SnapshotFails(c) ==
    /\ conn[c].pc = "snapshot"
    /\ Goto(c, "open")
    /\ Disturb({conn[c].user})
    /\ UNCHANGED <<available, lock, core, calls, stranded>>

AddActive(c) ==
    /\ conn[c].pc = "add"
    /\ Readd(conn[c].user)
    /\ Goto(c, "open")
    /\ UNCHANGED <<lock, core, calls, disturbed>>

(* SADD or SREM fails, which is logged; the endpoint goes on.              *)
CommandFails(c) ==
    /\ \/ conn[c].pc = "add" /\ Goto(c, "open")
       \/ conn[c].pc = "srem" /\ Goto(c, "release")
    /\ Disturb({conn[c].user})
    /\ UNCHANGED <<available, lock, core, calls, stranded>>

(* The client leaves, or one of the tasks fails.  A mark_idle_if_online    *)
(* that has seen the user online may add the name after the finally block  *)
(* removed it.                                                             *)
Close(c) ==
    /\ conn[c].pc = "open"
    /\ Goto(c, "srem")
    /\ LET u == conn[c].user IN DisturbIf(u, InFlight(u, "idle"))
    /\ UNCHANGED <<available, lock, core, calls, stranded>>

(* Mutant: a refresh extends the lock whoever holds it.                    *)
RefreshFailsNever(c) == FALSE

RefreshFails(c) == Lost(c)

(* _refresh_lock_loop ends, and with it the connection.                    *)
LosesLock(c) == RefreshFails(c) /\ Close(c)

(* The finally block.  SREM comes first: the next connection, which adds   *)
(* the name again, cannot start before the lock is free.                   *)
RemoveActive(c) ==
    /\ conn[c].pc = "srem"
    /\ Srem(conn[c].user)
    /\ Goto(c, "release")
    /\ UNCHANGED <<lock, core, calls, disturbed, stranded>>

(* Mutant: DEL without comparing.                                          *)
DeletesAny(c) == TRUE

DeletesLock(c) == lock[conn[c].user] = c

(* A user left alone, offline and not available starts anew.               *)
Release(c) ==
    LET u == conn[c].user IN
    /\ conn[c].pc = "release"
    /\ lock' = IF DeletesLock(c) THEN [lock EXCEPT ![u] = NoConn] ELSE lock
    /\ Goto(c, "none")
    /\ disturbed' =
         IF lock'[u] = NoConn /\ CallsOf(u) = {} /\ ConnsOf(u) = {c} /\ u \notin available
         THEN disturbed \ {u} ELSE disturbed
    /\ UNCHANGED <<available, core, calls, stranded>>

(* The endpoint ends without its finally block: the client is gone when    *)
(* the first sync is sent, or the process is killed.                       *)
Vanish(c) ==
    /\ Live(c)
    /\ Goto(c, "none")
    /\ Disturb({conn[c].user})
    /\ UNCHANGED <<available, lock, core, calls, stranded>>

(* Mutant: SET NX without EX.                                              *)
ExpireNever(u) == FALSE /\ UNCHANGED <<available, presenceVars>>

(* The lock of a connection that vanished runs out.                        *)
ExpireStale(u) ==
    /\ lock[u] # NoConn
    /\ ~Live(lock[u])
    /\ lock' = [lock EXCEPT ![u] = NoConn]
    /\ UNCHANGED <<available, conn, core, calls, disturbed, stranded>>

(* LOCK_TTL_SEC pass without a refresh of a connection that lives.         *)
ExpireLate(u) ==
    /\ lock[u] # NoConn
    /\ Live(lock[u])
    /\ lock' = [lock EXCEPT ![u] = NoConn]
    /\ Disturb({u})
    /\ UNCHANGED <<available, conn, core, calls, stranded>>

----------------------------------------------------------------------------
(* The core                                                                *)

NewMark(u, by, want) ==
    [user |-> u, by |-> by, want |-> want,
     pc |-> IF want = "idle" THEN "check" ELSE "write"]

(* Nobody marks a user who is idle after this step.                        *)
StrandIfIdle(u) ==
    stranded' = IF SyncState(core'[u]) = "IDLE" THEN stranded \cup {u}
                ELSE stranded \ {u}

(* Marks of opposite kinds in flight together, a mark that meets the end   *)
(* of the user's connection or its first SADD, and an idle mark for a user *)
(* who is elsewhere by now are not ordered by the code.                    *)
Unordered(u, want) ==
    \/ \E k \in CallsOf(u) : k.want # want
    \/ want = "idle" /\ (Closing(u) \/ SyncState(core'[u]) # "IDLE")
    \/ want = "busy" /\ Adding(u)

BeginMark(u, by, want) ==
    /\ NewMark(u, by, want) \notin calls
    /\ Cardinality(CallsOf(u)) < MaxMarks
    /\ calls' = calls \cup {NewMark(u, by, want)}
    /\ DisturbIf(u, Unordered(u, want))

(* A connection waits for the reply to its request before it sends another *)
(* one; a request may still arrive while the connection is being closed.   *)
MayRequest(c) ==
    /\ conn[c].pc \in {"open", "srem", "release"}
    /\ \A k \in calls : k.by # c

(* create and join_at put the user in the map and then mark busy.  The     *)
(* lobby may have been dissolved while join_at loaded the seat.            *)
EnterLobby(c) ==
    LET u == conn[c].user IN
    /\ MayRequest(c)
    /\ core[u].lobby = "none"
    /\ \E l \in {"seated", "gone"} : core' = [core EXCEPT ![u].lobby = l]
    /\ BeginMark(u, c, "busy")
    /\ StrandIfIdle(u)
    /\ UNCHANGED <<available, lock, conn>>

(* A join_at that looked at the seat before the user sat down writes it.   *)
LoseSeat(u) ==
    /\ core[u].lobby = "seated"
    /\ core' = [core EXCEPT ![u].lobby = "unseated"]
    /\ UNCHANGED <<available, lock, conn, calls, disturbed, stranded>>

(* The last human with a seat leaves the lobby of a user without one.      *)
LoseLobby(u) ==
    /\ core[u].lobby = "unseated"
    /\ core[u].game # "held"
    /\ core' = [core EXCEPT ![u].lobby = "gone"]
    /\ StrandIfIdle(u)
    /\ UNCHANGED <<available, lock, conn, calls, disturbed>>

(* Mutants: leave does not ask whether the lobby is mutable; it does not   *)
(* mark.                                                                   *)
LeaveAnyLobby(u, by) ==
    /\ core[u].lobby = "seated"
    /\ core' = [core EXCEPT ![u].lobby = "none"]
    /\ BeginMark(u, by, "idle")
    /\ UNCHANGED <<available, lock, conn, stranded>>

LeaveQuietly(u, by) ==
    /\ core[u].lobby = "seated"
    /\ core[u].game # "held"
    /\ core' = [core EXCEPT ![u].lobby = "none"]
    /\ UNCHANGED <<available, lock, conn, calls, disturbed, stranded>>

(* leave takes the user out of the map and then marks idle.  The lobby     *)
(* must be mutable, and the user must have a seat in it.                   *)
LeaveLobby(u, by) ==
    /\ core[u].lobby = "seated"
    /\ core[u].game # "held"
    /\ core' = [core EXCEPT ![u].lobby = "none"]
    /\ BeginMark(u, by, "idle")
    /\ UNCHANGED <<available, lock, conn, stranded>>

Leave(c) == MayRequest(c) /\ LeaveLobby(conn[c].user, c)

Kick(u) == LeaveLobby(u, "leader")

(* create_game maps its players one by one and marks them busy.  The entry *)
(* may be stale: the user may be anywhere by now, in an earlier game of    *)
(* that kind too, which _user_to_game forgets.  A player who comes last    *)
(* may be mapped to a game that has ended meanwhile, which is none.        *)
StartGame(u) ==
    /\ core[u].game # "held"
    /\ \E g \in {"none", "held", "loose"} :
          /\ g = "held" => InLobby(core[u])
          /\ core' = [core EXCEPT ![u].game = g,
                                  ![u].due = @ \/ core[u].game = "loose"]
    /\ BeginMark(u, "core", "busy")
    /\ StrandIfIdle(u)
    /\ UNCHANGED <<available, lock, conn>>

(* _detach_game.  Who played for a closed lobby is back in it.             *)
EndGame(u) ==
    /\ core[u].game # "none"
    /\ core' = [core EXCEPT ![u].game = "none",
                            ![u].due = @ \/ core[u].game = "loose"]
    /\ StrandIfIdle(u)
    /\ UNCHANGED <<available, lock, conn, calls, disturbed>>

(* _return_to_lobbies, some awaits later, marks who played for a lobby     *)
(* that does not exist any more.  While that lobby exists it marks nobody, *)
(* whether the user is in it or not.                                       *)
ReturnToLobbies(u) ==
    /\ core[u].due
    /\ \E due \in BOOLEAN : core' = [core EXCEPT ![u].due = due]
    /\ BeginMark(u, "core", "idle") \/ UNCHANGED <<calls, disturbed>>
    /\ UNCHANGED <<available, lock, conn, stranded>>

Done(k) == calls' = calls \ {k}

MarkBusy(k) ==
    /\ k.want = "busy"
    /\ Srem(k.user)
    /\ Done(k)
    /\ UNCHANGED <<lock, conn, core, disturbed, stranded>>

(* Mutant: mark_idle without the test.                                     *)
AssumesOnline(u) == TRUE

IsOnline(u) == lock[u] # NoConn

CheckOnline(k) ==
    /\ k.pc = "check"
    /\ calls' = (calls \ {k}) \cup
                (IF IsOnline(k.user) THEN {[k EXCEPT !.pc = "write"]} ELSE {})
    /\ UNCHANGED <<available, lock, conn, core, disturbed, stranded>>

MarkIdle(k) ==
    /\ k.want = "idle"
    /\ k.pc = "write"
    /\ Readd(k.user)
    /\ Done(k)
    /\ UNCHANGED <<lock, conn, core, disturbed>>

(* The end of a connection cancels its request where it is suspended.      *)
CancelMark(k) ==
    /\ k.by \in Conns
    /\ conn[k.by].pc # "open"
    /\ Done(k)
    /\ UNCHANGED <<available, lock, conn, core, disturbed, stranded>>

(* A Redis error, which is logged and ignored, or the connection of the    *)
(* leader who kicks ends.                                                  *)
FailMark(k) ==
    /\ Done(k)
    /\ Disturb({k.user})
    /\ UNCHANGED <<available, lock, conn, core, stranded>>

(* The core starts again with empty maps and tells nobody.  Marks that     *)
(* were in flight may have been written or not.                            *)
CoreForgets ==
    LET left == {u \in Users : SyncState(core[u]) # "IDLE" \/ CallsOf(u) # {}} IN
    /\ core' = [u \in Users |-> Nowhere]
    /\ calls' = {}
    /\ stranded' = stranded \cup (left \ available)
    /\ Disturb(left \cap available)
    /\ UNCHANGED <<available, lock, conn>>

(* Mutant: the set of available players survives.                          *)
ClearLocks ==
    /\ lock' = [u \in Users |-> NoConn]
    /\ UNCHANGED available

(* Bootstrap, before the services start: DEL of the set, then of the locks.*)
ClearStalePresence ==
    /\ available' = {}
    /\ lock' = [u \in Users |-> NoConn]

(* The stack stops and starts.  An error while clearing is logged only.    *)
StackStarts ==
    /\ conn' = [c \in Conns |-> [conn[c] EXCEPT !.pc = "none"]]
    /\ core' = [u \in Users |-> Nowhere]
    /\ calls' = {}
    /\ \/ ClearStalePresence /\ disturbed' = {}
       \/ available' \in {available, {}} /\ Disturb(Users) /\ UNCHANGED lock
    /\ UNCHANGED stranded

----------------------------------------------------------------------------
PresenceInit ==
    /\ available = {}
    /\ lock = [u \in Users |-> NoConn]
    /\ conn \in [Conns -> {e \in Endpoint : e.pc = "none"}]
    /\ core = [u \in Users |-> Nowhere]
    /\ calls = {}
    /\ disturbed = {}
    /\ stranded = {}

ConnStep(c) ==
    \/ Snapshot(c) \/ SnapshotFails(c) \/ AddActive(c)
    \/ LosesLock(c) \/ RemoveActive(c) \/ Release(c)

MarkStep(k) == MarkBusy(k) \/ CheckOnline(k) \/ MarkIdle(k)

PresenceStep ==
    \/ \E c \in Conns : ConnStep(c) \/ Close(c) \/ Vanish(c) \/ CommandFails(c)
    \/ \E c \in Conns : EnterLobby(c) \/ Leave(c)
    \/ \E c \in Conns, u \in Users : Accept(c, u)
    \/ \E u \in Users : ExpireStale(u) \/ ExpireLate(u)
    \/ \E u \in Users : Kick(u) \/ LoseSeat(u) \/ LoseLobby(u)
    \/ \E u \in Users : StartGame(u) \/ EndGame(u) \/ ReturnToLobbies(u)
    \/ \E k \in calls : MarkStep(k) \/ CancelMark(k) \/ FailMark(k)

PresenceNext == PresenceStep \/ CoreForgets \/ StackStarts

(* Tasks of the endpoint and of the core go on, Redis answers, and time    *)
(* passes for keys with a TTL.                                             *)
PresenceFairness ==
    /\ \A c \in Conns : WF_<<available, presenceVars>>(ConnStep(c))
    /\ \A u \in Users : WF_<<available, presenceVars>>(ExpireStale(u))
    /\ WF_<<available, presenceVars>>(\E k \in calls : MarkStep(k))

PresenceSpec ==
    /\ PresenceInit
    /\ [][PresenceNext]_<<available, presenceVars>>
    /\ PresenceFairness

----------------------------------------------------------------------------
(* Nothing about u is under way: one open connection with its lock, or     *)
(* none at all.                                                            *)
Settled(u) ==
    /\ CallsOf(u) = {}
    /\ \A c \in ConnsOf(u) : conn[c].pc = "open" /\ ~Lost(c)

(* A user who is settled and undisturbed is available exactly when online  *)
(* and in no lobby and no game, whatever order the endpoint's and the      *)
(* core's Redis commands took; but who was left idle without a mark is     *)
(* not, until a mark or the next connection adds the name.                 *)
AvailableIsExact ==
    \A u \in Users \ disturbed : Settled(u) =>
        (u \in available <=>
            lock[u] # NoConn /\ SyncState(core[u]) = "IDLE" /\ u \notin stranded)

(* Only a late refresh takes the lock from a connection that is being      *)
(* served: nobody else deletes or replaces it.                             *)
NobodyElseReleases ==
    [][\A c \in Conns :
          Live(c) /\ ~Lost(c) /\ Lost(c)' => ExpireLate(conn[c].user)]_<<available, presenceVars>>

Served(c) == conn[c].pc \in {"snapshot", "add", "open"}

(* A user is not locked out for ever by a connection that ended, with or   *)
(* without its finally block.                                              *)
LockFollowsConnection ==
    \A u \in Users :
        (lock[u] # NoConn /\ ~Served(lock[u]))
            ~> (lock[u] = NoConn \/ Served(lock[u]))

(* A connection whose lock expired under it ends.                          *)
LostConnectionEnds == \A c \in Conns : Lost(c) ~> ~Lost(c)

(* A user who stays connected, in no lobby and no game, becomes available, *)
(* unless stranded.                                                        *)
IdleBecomesAvailable ==
    \A u \in Users :
        (lock[u] # NoConn /\ SyncState(core[u]) = "IDLE" /\ u \notin available)
          ~> \/ u \in available \/ u \in disturbed \cup stranded
             \/ lock[u] = NoConn \/ SyncState(core[u]) # "IDLE"
=============================================================================
