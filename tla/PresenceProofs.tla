--------------------------- MODULE PresenceProofs ---------------------------
(***************************************************************************)
(* Who is available, for any number of users, connections and marks.       *)
(*                                                                         *)
(* A user about whom nothing unordered happened has at most one            *)
(* connection, the one that holds the lock.  AvailableIsExact follows when *)
(* no mark is in flight; while some are, the invariant says what is still  *)
(* to be written: a busy mark for a user who is in the set and should not  *)
(* be, an idle mark for a user who should be and is not, and no mark that  *)
(* could add a user who is leaving.                                        *)
(***************************************************************************)
EXTENDS Presence, TLAPS

presence == <<available, presenceVars>>

Idle(u) == SyncState(core[u]) = "IDLE"

(* Belongs in the set while online.                                        *)
Free(u) == Idle(u) /\ u \notin stranded

StrandedAreIdle == \A u \in stranded : Idle(u)

NoneBusy(u) == \A k \in calls : k.user = u => k.want # "busy"

Ending == {"srem", "release"}

(* A request is about the user of its connection.                          *)
MarksOfOwners == \A k \in calls : k.by \in Conns => conn[k.by].user = k.user

(* The connection that holds the lock is the only one.                     *)
OneConnection(u) ==
    \A c \in Conns : Live(c) /\ conn[c].user = u <=> lock[u] = c

(* The end of its connection does not cancel the mark.                     *)
Kept(k) == k.by \in Conns => conn[k.by].pc = "open"

MarksInOrder(u) ==
    \A k \in calls : k.user = u =>
        /\ k.want = "busy" => ~Free(u)
        /\ k.want = "idle" =>
              /\ Idle(u) /\ NoneBusy(u) /\ Kept(k)
              /\ lock[u] \in Conns => conn[lock[u]].pc \notin Ending
              /\ k.pc = "write" => lock[u] # NoConn

(* What is still to be written.                                            *)
Exact(u) ==
    /\ lock[u] = NoConn => u \notin available
    /\ lock[u] \in Conns =>
          /\ conn[lock[u]].pc = "release" => u \notin available
          /\ conn[lock[u]].pc = "add" => Idle(u) /\ NoneBusy(u)
          /\ conn[lock[u]].pc \notin Ending /\ u \in available /\ ~Free(u) =>
                \E k \in calls : k.user = u /\ k.want = "busy" /\ Kept(k)
          /\ conn[lock[u]].pc = "open" /\ Free(u) /\ u \notin available =>
                \E k \in calls : k.user = u /\ k.want = "idle"

Ordered(u) == OneConnection(u) /\ MarksInOrder(u) /\ Exact(u)

PresenceInv ==
    /\ PresenceTypeOK
    /\ MarksOfOwners
    /\ StrandedAreIdle
    /\ \A u \in Users : u \notin disturbed => Ordered(u)

----------------------------------------------------------------------------
LEMMA InitHolds == PresenceInit => PresenceInv
<1> SUFFICES ASSUME PresenceInit PROVE PresenceInv
  OBVIOUS
<1>1. PresenceTypeOK
  BY DEF PresenceInit, PresenceTypeOK, Place, Nowhere
<1>2. MarksOfOwners /\ StrandedAreIdle /\ \A u \in Users : Ordered(u)
  BY PresenceAssumption DEF PresenceInit, MarksOfOwners, StrandedAreIdle, Ordered,
     OneConnection, MarksInOrder, Exact, Live
<1> QED
  BY <1>1, <1>2 DEF PresenceInv

(* A step about u leaves what is known of v alone.                         *)
LEMMA OthersKeep ==
  ASSUME PresenceInv, NEW u \in Users, NEW v \in Users, v # u, v \notin disturbed,
         lock'[v] = lock[v], core'[v] = core[v], v \in available' <=> v \in available,
         v \in stranded' <=> v \in stranded,
         \A c \in Conns : \/ conn'[c] = conn[c]
                          \/ (conn[c].user = u \/ Unused(c)) /\ conn'[c].user = u,
         \A k : k.user = v => (k \in calls' <=> k \in calls)
  PROVE  Ordered(v)'
<1>1. Ordered(v)
  BY DEF PresenceInv
<1>2. lock[v] \in Conns => conn'[lock[v]] = conn[lock[v]]
  BY <1>1 DEF Ordered, OneConnection, Unused
<1>3. \A k \in calls : k.user = v => (Kept(k)' <=> Kept(k))
  BY DEF PresenceInv, MarksOfOwners, Kept, Unused
<1>4. OneConnection(v)'
  BY <1>1 DEF Ordered, OneConnection, Live, Unused
<1>5. /\ Idle(v)' <=> Idle(v)
      /\ Free(v)' <=> Free(v)
      /\ NoneBusy(v)' <=> NoneBusy(v)
  BY DEF Idle, Free, NoneBusy
<1>6. MarksInOrder(v)'
  BY <1>1, <1>2, <1>3, <1>5 DEF Ordered, MarksInOrder
<1>7. Exact(v)'
  BY <1>1, <1>2, <1>3, <1>5 DEF Ordered, Exact
<1> QED
  BY <1>4, <1>6, <1>7 DEF Ordered

(* What is left to show of a step about u.                                 *)
LEMMA StepAbout ==
  ASSUME PresenceInv, NEW u \in Users, PresenceTypeOK', MarksOfOwners',
         disturbed \subseteq disturbed' \cup {u},
         u \notin disturbed' => Ordered(u)',
         u \in stranded' => Idle(u)',
         \A v \in Users \ {u} :
            /\ lock'[v] = lock[v] /\ core'[v] = core[v]
            /\ v \in available' <=> v \in available
            /\ v \in stranded' <=> v \in stranded,
         \A c \in Conns : \/ conn'[c] = conn[c]
                          \/ (conn[c].user = u \/ Unused(c)) /\ conn'[c].user = u,
         \A k : k.user # u => (k \in calls' <=> k \in calls)
  PROVE  PresenceInv'
<1>1. ASSUME NEW v \in Users, v # u, v \notin disturbed'
      PROVE  Ordered(v)'
  BY <1>1, OthersKeep
<1>2. StrandedAreIdle'
  <2>1. ASSUME NEW v \in Users, v # u, v \in stranded' PROVE Idle(v)'
    BY <2>1 DEF PresenceInv, StrandedAreIdle, Idle
  <2> QED
    BY <2>1 DEF StrandedAreIdle, PresenceTypeOK
<1> QED
  BY <1>1, <1>2 DEF PresenceInv

----------------------------------------------------------------------------
(* The endpoint                                                            *)

(* What a step of a connection does to the connections.                    *)
LEMMA GotoFacts ==
  ASSUME PresenceTypeOK, NEW c \in Conns,
         NEW pc \in {"none", "snapshot", "add", "open", "srem", "release"},
         Goto(c, pc)
  PROVE  /\ conn' \in [Conns -> Endpoint]
         /\ conn'[c].pc = pc
         /\ \A d \in Conns : conn'[d].user = conn[d].user
         /\ \A d \in Conns \ {c} : conn'[d] = conn[d]
         /\ conn[c].user \in Users
BY DEF Goto, PresenceTypeOK, Endpoint

LEMMA AcceptHolds ==
  ASSUME PresenceInv, NEW c \in Conns, NEW u \in Users, Accept(c, u)
  PROVE  PresenceInv'
<1>1. PresenceTypeOK /\ MarksOfOwners
  BY DEF PresenceInv
<1>2. PresenceTypeOK'
  BY <1>1 DEF Accept, PresenceTypeOK, Endpoint
<1>3. conn'[c].pc = "snapshot" /\ conn'[c].user = u /\ \A d \in Conns \ {c} : conn'[d] = conn[d]
  BY <1>1 DEF Accept, PresenceTypeOK
<1>4. lock[u] = NoConn /\ lock'[u] = c /\ \A v \in Users \ {u} : lock'[v] = lock[v]
  BY <1>1 DEF Accept, PresenceTypeOK
<1>5. MarksOfOwners'
  BY <1>1, <1>3 DEF Accept, MarksOfOwners, Unused
<1>6. ASSUME u \notin disturbed' PROVE Ordered(u)'
  <2>1. Ordered(u)
    BY <1>6 DEF PresenceInv, Accept
  <2>2. OneConnection(u)'
    BY <2>1, <1>3, <1>4, PresenceAssumption DEF Ordered, OneConnection, Live
  <2>3. \A k \in calls : Kept(k)' <=> Kept(k)
    BY <1>3 DEF Accept, Unused, Kept
  <2>4. MarksInOrder(u)'
    BY <2>1, <2>3, <1>3, <1>4, PresenceAssumption
       DEF Ordered, MarksInOrder, Accept, Idle, Free, NoneBusy, Ending
  <2>5. Exact(u)'
    BY <2>1, <1>3, <1>4, PresenceAssumption DEF Ordered, Exact, Accept
  <2> QED
    BY <2>2, <2>4, <2>5 DEF Ordered
<1>7. u \in stranded' => Idle(u)'
  BY DEF PresenceInv, StrandedAreIdle, Accept, Idle
<1> QED
  BY <1>2, <1>3, <1>4, <1>5, <1>6, <1>7, StepAbout DEF Accept

(* A connection that goes on without touching the lock.                    *)
LEMMA ConnGoesOn ==
  ASSUME PresenceInv, NEW c \in Conns, NEW u, u = conn[c].user,
         NEW pc \in {"add", "open", "srem", "release"}, Goto(c, pc), Live(c),
         UNCHANGED <<lock, core, calls>>,
         available' \in {available, available \cup {u}, available \ {u}},
         stranded' \in {stranded, stranded \ {u}},
         disturbed \subseteq disturbed', disturbed' \subseteq Users,
         u \notin disturbed' /\ lock[u] = c => MarksInOrder(u)' /\ Exact(u)'
  PROVE  PresenceInv'
<1>1. PresenceTypeOK /\ MarksOfOwners
  BY DEF PresenceInv
<1>2. /\ conn' \in [Conns -> Endpoint] /\ conn'[c].pc = pc /\ u \in Users
      /\ \A d \in Conns : conn'[d].user = conn[d].user
      /\ \A d \in Conns \ {c} : conn'[d] = conn[d]
  BY <1>1, GotoFacts
<1>3. PresenceTypeOK' /\ MarksOfOwners'
  BY <1>1, <1>2 DEF PresenceTypeOK, MarksOfOwners
<1>4. ASSUME u \notin disturbed' PROVE Ordered(u)'
  <2>1. OneConnection(u)
    BY <1>2, <1>4 DEF PresenceInv, Ordered
  <2>2. lock[u] = c
    BY <2>1 DEF OneConnection
  <2>3. OneConnection(u)'
    BY <1>2, <2>1 DEF OneConnection, Live
  <2> QED
    BY <1>4, <2>2, <2>3 DEF Ordered
<1>5. u \in stranded' => Idle(u)'
  BY DEF PresenceInv, StrandedAreIdle, Idle
<1> QED
  BY <1>2, <1>3, <1>4, <1>5, StepAbout

(* A step of u's own connection sees what is known of u.                   *)
LEMMA Known ==
  ASSUME PresenceInv, NEW c \in Conns, NEW u, u = conn[c].user, u \notin disturbed
  PROVE  u \in Users /\ Ordered(u)
BY DEF PresenceInv, PresenceTypeOK, Endpoint

LEMMA SnapshotHolds ==
  ASSUME PresenceInv, NEW c \in Conns, Snapshot(c)
  PROVE  PresenceInv'
<1> PICK u : u = conn[c].user
  OBVIOUS
<1> PICK pc \in {"add", "open"} : pc = IF AddsToActive(core[u]) THEN "add" ELSE "open"
  OBVIOUS
<1>1. /\ conn[c].pc = "snapshot" /\ Goto(c, pc)
      /\ disturbed' = disturbed \cup (IF pc = "add" /\ InFlight(u, "busy") THEN {u} ELSE {})
      /\ UNCHANGED <<available, lock, core, calls, stranded>>
  BY DEF Snapshot, DisturbIf, Disturb
<1>2. /\ conn'[c].pc = pc /\ \A d \in Conns \ {c} : conn'[d] = conn[d]
      /\ u \in Users /\ disturbed \subseteq disturbed' /\ disturbed' \subseteq Users
  BY <1>1, GotoFacts DEF PresenceInv, PresenceTypeOK
<1>3. pc = "add" <=> Idle(u)
  BY DEF AddsToActive, Idle
<1>4. ASSUME u \notin disturbed', lock[u] = c
      PROVE  MarksInOrder(u)' /\ Exact(u)'
  <2>1. Ordered(u) /\ (pc = "add" => NoneBusy(u))
    BY <1>1, <1>4, Known DEF InFlight, CallsOf, NoneBusy
  <2>2. (Idle(u)' <=> Idle(u)) /\ (Free(u)' <=> Free(u)) /\ (NoneBusy(u)' <=> NoneBusy(u))
    BY <1>1 DEF Idle, Free, NoneBusy
  <2>3. \A k \in calls : Kept(k) => Kept(k)'
    BY <1>1, <1>2 DEF Kept
  <2>4. MarksInOrder(u)'
    BY <2>1, <2>2, <2>3, <1>1, <1>2, <1>4 DEF Ordered, MarksInOrder, Ending
  <2>5. Exact(u)'
    BY <2>1, <2>2, <2>3, <1>1, <1>2, <1>3, <1>4, PresenceAssumption
       DEF Ordered, Exact, Ending, Free
  <2> QED
    BY <2>4, <2>5
<1> QED
  BY <1>1, <1>2, <1>4, ConnGoesOn DEF Live

LEMMA AddActiveHolds ==
  ASSUME PresenceInv, NEW c \in Conns, AddActive(c)
  PROVE  PresenceInv'
<1> PICK u : u = conn[c].user
  OBVIOUS
<1>1. /\ conn[c].pc = "add" /\ Goto(c, "open") /\ available' = available \cup {u}
      /\ stranded' = stranded \ {u}
      /\ UNCHANGED <<lock, core, calls, disturbed>>
  BY DEF AddActive, Readd, Sadd
<1>2. conn'[c].pc = "open" /\ \A d \in Conns \ {c} : conn'[d] = conn[d]
  BY <1>1, GotoFacts DEF PresenceInv
<1>4. ASSUME u \notin disturbed', lock[u] = c
      PROVE  MarksInOrder(u)' /\ Exact(u)'
  <2>1. Ordered(u)
    BY <1>1, <1>4, Known
  <2>2. Idle(u) /\ Idle(u)' /\ Free(u)' /\ NoneBusy(u) /\ NoneBusy(u)'
    BY <2>1, <1>1, <1>4, PresenceAssumption DEF Ordered, Exact, Idle, Free, NoneBusy
  <2>3. \A k \in calls : Kept(k) => Kept(k)'
    BY <1>1, <1>2 DEF Kept
  <2>4. MarksInOrder(u)'
    BY <2>1, <2>2, <2>3, <1>1, <1>2, <1>4 DEF Ordered, MarksInOrder, NoneBusy, Ending
  <2>5. Exact(u)'
    BY <2>1, <2>2, <1>1, <1>2, <1>4, PresenceAssumption DEF Ordered, Exact, Ending
  <2> QED
    BY <2>4, <2>5
<1> QED
  BY <1>1, <1>4, ConnGoesOn DEF Live, PresenceInv, PresenceTypeOK

LEMMA RemoveActiveHolds ==
  ASSUME PresenceInv, NEW c \in Conns, RemoveActive(c)
  PROVE  PresenceInv'
<1> PICK u : u = conn[c].user
  OBVIOUS
<1>1. /\ conn[c].pc = "srem" /\ Goto(c, "release") /\ available' = available \ {u}
      /\ UNCHANGED <<lock, core, calls, disturbed, stranded>>
  BY DEF RemoveActive, Srem
<1>2. conn'[c].pc = "release" /\ \A d \in Conns \ {c} : conn'[d] = conn[d]
  BY <1>1, GotoFacts DEF PresenceInv
<1>4. ASSUME u \notin disturbed', lock[u] = c
      PROVE  MarksInOrder(u)' /\ Exact(u)'
  <2>1. Ordered(u)
    BY <1>1, <1>4, Known
  <2>2. (Idle(u)' <=> Idle(u)) /\ (Free(u)' <=> Free(u)) /\ (NoneBusy(u)' <=> NoneBusy(u))
    BY <1>1 DEF Idle, Free, NoneBusy
  <2>3. MarksInOrder(u)'
    BY <2>1, <2>2, <1>1, <1>2, <1>4 DEF Ordered, MarksInOrder, Ending
  <2>4. Exact(u)'
    BY <1>1, <1>2, <1>4, PresenceAssumption DEF Exact, Ending
  <2> QED
    BY <2>3, <2>4
<1> QED
  BY <1>1, <1>4, ConnGoesOn DEF Live, PresenceInv, PresenceTypeOK

(* Steps that leave the user to the next connection.                       *)
LEMMA DisturbingSteps ==
  ASSUME PresenceInv, NEW c \in Conns,
         SnapshotFails(c) \/ CommandFails(c)
  PROVE  PresenceInv'
<1> PICK u : u = conn[c].user
  OBVIOUS
<1>1. PICK pc \in {"open", "release"} :
        /\ Goto(c, pc) /\ Live(c) /\ disturbed' = disturbed \cup {u}
        /\ UNCHANGED <<available, lock, core, calls, stranded>>
  BY DEF SnapshotFails, CommandFails, Live, Disturb
<1>2. u \in Users /\ disturbed \subseteq Users
  BY GotoFacts, <1>1 DEF PresenceInv, PresenceTypeOK
<1> QED
  BY <1>1, <1>2, ConnGoesOn

LEMMA CloseHolds ==
  ASSUME PresenceInv, NEW c \in Conns, Close(c)
  PROVE  PresenceInv'
<1> PICK u : u = conn[c].user
  OBVIOUS
<1>1. /\ conn[c].pc = "open" /\ Goto(c, "srem")
      /\ UNCHANGED <<available, lock, core, calls, stranded>>
      /\ disturbed' = disturbed \cup (IF \E k \in calls : k.user = u /\ k.want = "idle"
                                      THEN {u} ELSE {})
  BY DEF Close, DisturbIf, Disturb, InFlight, CallsOf
<1>2. /\ conn'[c].pc = "srem" /\ \A d \in Conns \ {c} : conn'[d] = conn[d]
      /\ u \in Users
  BY <1>1, GotoFacts DEF PresenceInv
<1>3. disturbed \subseteq disturbed' /\ disturbed' \subseteq Users
  BY <1>1, <1>2 DEF PresenceInv, PresenceTypeOK
<1>4. ASSUME u \notin disturbed', lock[u] = c
      PROVE  MarksInOrder(u)' /\ Exact(u)'
  <2>1. Ordered(u) /\ ~\E k \in calls : k.user = u /\ k.want = "idle"
    BY <1>1, <1>4, Known
  <2>2. (Idle(u)' <=> Idle(u)) /\ (Free(u)' <=> Free(u)) /\ (NoneBusy(u)' <=> NoneBusy(u))
    BY <1>1 DEF Idle, Free, NoneBusy
  <2>3. MarksInOrder(u)'
    BY <2>1, <2>2, <1>1 DEF Ordered, MarksInOrder
  <2>4. Exact(u)'
    BY <1>1, <1>2, <1>4, PresenceAssumption DEF Exact, Ending
  <2> QED
    BY <2>3, <2>4
<1> QED
  BY <1>1, <1>3, <1>4, ConnGoesOn DEF Live

LEMMA ReleaseHolds ==
  ASSUME PresenceInv, NEW c \in Conns, Release(c)
  PROVE  PresenceInv'
<1> PICK u : u = conn[c].user
  OBVIOUS
<1>1. /\ conn[c].pc = "release" /\ Goto(c, "none")
      /\ UNCHANGED <<available, core, calls, stranded>>
      /\ lock' = IF lock[u] = c THEN [lock EXCEPT ![u] = NoConn] ELSE lock
  BY DEF Release, DeletesLock
<1>2. PresenceTypeOK /\ MarksOfOwners
  BY DEF PresenceInv
<1>3. /\ conn' \in [Conns -> Endpoint] /\ conn'[c].pc = "none" /\ u \in Users
      /\ \A d \in Conns : conn'[d].user = conn[d].user
      /\ \A d \in Conns \ {c} : conn'[d] = conn[d]
  BY <1>1, <1>2, GotoFacts
<1>4. /\ lock' \in [Users -> Conns \cup {NoConn}]
      /\ \A v \in Users \ {u} : lock'[v] = lock[v]
      /\ lock[u] = c => lock'[u] = NoConn
      /\ lock[u] # c => lock'[u] = lock[u]
  BY <1>1, <1>3, <1>2 DEF PresenceTypeOK
<1>5. disturbed' \subseteq Users /\ disturbed \subseteq disturbed' \cup {u}
  BY <1>2 DEF Release, PresenceTypeOK
<1>6. PresenceTypeOK' /\ MarksOfOwners'
  BY <1>1, <1>2, <1>3, <1>4, <1>5 DEF PresenceTypeOK, MarksOfOwners
<1>7. u \in stranded' => Idle(u)'
  BY <1>1 DEF PresenceInv, StrandedAreIdle, Idle
<1>8. CASE u \notin disturbed
  <2>1. Ordered(u)
    BY <1>3, <1>8 DEF PresenceInv
  <2>2. lock[u] = c
    BY <1>1, <2>1 DEF Ordered, OneConnection, Live
  <2>3. u \notin available /\ \A k \in calls : ~(k.user = u /\ k.want = "idle")
    BY <1>1, <2>1, <2>2 DEF Ordered, Exact, MarksInOrder, Ending
  <2>4. OneConnection(u)'
    BY <1>3, <1>4, <2>1, <2>2, PresenceAssumption DEF Ordered, OneConnection, Live
  <2>5. MarksInOrder(u)' /\ Exact(u)'
    BY <1>1, <1>4, <2>1, <2>2, <2>3, PresenceAssumption
       DEF Ordered, MarksInOrder, Exact, Idle, Free, NoneBusy
  <2> QED
    BY <1>1, <1>3, <1>4, <1>5, <1>6, <1>7, <2>4, <2>5, StepAbout DEF Ordered
<1>9. CASE u \in disturbed /\ u \notin disturbed'
  <2>1. lock'[u] = NoConn /\ CallsOf(u) = {} /\ ConnsOf(u) = {c} /\ u \notin available
    BY <1>9 DEF Release
  <2>2. OneConnection(u)'
    BY <1>3, <2>1, PresenceAssumption DEF OneConnection, ConnsOf, Live
  <2>3. MarksInOrder(u)' /\ Exact(u)'
    BY <1>1, <2>1, PresenceAssumption DEF MarksInOrder, Exact, CallsOf
  <2> QED
    BY <1>1, <1>3, <1>4, <1>5, <1>6, <1>7, <2>2, <2>3, StepAbout DEF Ordered
<1>10. CASE u \in disturbed'
  BY <1>1, <1>3, <1>4, <1>5, <1>6, <1>10, <1>7, StepAbout
<1> QED
  BY <1>8, <1>9, <1>10

LEMMA VanishHolds ==
  ASSUME PresenceInv, NEW c \in Conns, Vanish(c)
  PROVE  PresenceInv'
<1> PICK u : u = conn[c].user
  OBVIOUS
<1>1. /\ Goto(c, "none") /\ UNCHANGED <<available, lock, core, calls, stranded>>
      /\ disturbed' = disturbed \cup {u}
  BY DEF Vanish, Disturb
<1>2. PresenceTypeOK /\ MarksOfOwners
  BY DEF PresenceInv
<1>3. /\ conn' \in [Conns -> Endpoint] /\ u \in Users
      /\ \A d \in Conns : conn'[d].user = conn[d].user
      /\ \A d \in Conns \ {c} : conn'[d] = conn[d]
  BY <1>1, <1>2, GotoFacts
<1>4. PresenceTypeOK' /\ MarksOfOwners'
  BY <1>1, <1>2, <1>3 DEF PresenceTypeOK, MarksOfOwners
<1>5. u \in stranded' => Idle(u)'
  BY <1>1 DEF PresenceInv, StrandedAreIdle, Idle
<1> QED
  BY <1>1, <1>3, <1>4, <1>5, StepAbout

LEMMA ExpireHolds ==
  ASSUME PresenceInv, NEW u \in Users, ExpireStale(u) \/ ExpireLate(u)
  PROVE  PresenceInv'
<1>1. /\ lock[u] # NoConn /\ lock' = [lock EXCEPT ![u] = NoConn]
      /\ UNCHANGED <<available, conn, core, calls, stranded>>
      /\ disturbed \subseteq disturbed' /\ disturbed' \subseteq disturbed \cup {u}
  BY DEF ExpireStale, ExpireLate, Disturb
<1>2. PresenceTypeOK /\ MarksOfOwners
  BY DEF PresenceInv
<1>3. PresenceTypeOK' /\ MarksOfOwners'
  BY <1>1, <1>2 DEF PresenceTypeOK, MarksOfOwners
<1>4. u \in disturbed'
  <2>1. CASE ExpireLate(u)
    BY <2>1 DEF ExpireLate, Disturb
  <2>2. CASE ExpireStale(u)
    <3>1. ~OneConnection(u)
      BY <1>2, <2>2 DEF ExpireStale, OneConnection, PresenceTypeOK
    <3> QED
      BY <1>1, <3>1 DEF PresenceInv, Ordered
  <2> QED
    BY <2>1, <2>2
<1>5. \A v \in Users \ {u} : lock'[v] = lock[v]
  BY <1>1, <1>2 DEF PresenceTypeOK
<1>6. u \in stranded' => Idle(u)'
  BY <1>1 DEF PresenceInv, StrandedAreIdle, Idle
<1> QED
  BY <1>1, <1>3, <1>4, <1>5, <1>6, StepAbout

----------------------------------------------------------------------------
(* The core                                                                *)

(* The core moves u and marks it.  by is the connection that asked, if     *)
(* that connection is u's own.                                             *)
LEMMA BeginMarkHolds ==
  ASSUME PresenceInv, NEW u \in Users, NEW by \in Conns \cup {"leader", "core"},
         NEW want \in {"busy", "idle"}, BeginMark(u, by, want),
         core' \in [Users -> Place],
         \A v \in Users : core'[v].game = "held" => InLobby(core'[v]),
         \A v \in Users \ {u} : core'[v] = core[v],
         want = "busy" => StrandIfIdle(u),
         want = "idle" =>
            /\ UNCHANGED stranded
            /\ ~Idle(u) \/ SyncState(core'[u]) = SyncState(core[u]),
         by \in Conns => conn[by].user = u /\ conn[by].pc \in {"open", "srem", "release"},
         UNCHANGED <<available, lock, conn>>
  PROVE  PresenceInv'
<1> PICK k : k = NewMark(u, by, want)
  OBVIOUS
<1>1. /\ k \in Mark /\ k.user = u /\ k.by = by /\ k.want = want
      /\ k.pc = "write" => want = "busy"
  BY DEF NewMark, Mark
<1>2. calls' = calls \cup {k} /\ disturbed \subseteq disturbed' /\ disturbed' \subseteq disturbed \cup {u}
  BY DEF BeginMark, DisturbIf, Disturb
<1>3. PresenceTypeOK /\ MarksOfOwners /\ StrandedAreIdle
  BY DEF PresenceInv
<1>4. /\ stranded' \subseteq Users
      /\ \A v \in Users \ {u} : v \in stranded' <=> v \in stranded
      /\ want = "busy" => ~Free(u)'
  BY <1>3 DEF StrandIfIdle, PresenceTypeOK, Free, Idle
<1>5. u \in stranded' => Idle(u)'
  BY <1>3 DEF StrandIfIdle, StrandedAreIdle, Idle
<1>6. PresenceTypeOK' /\ MarksOfOwners'
  BY <1>1, <1>2, <1>3, <1>4 DEF PresenceTypeOK, MarksOfOwners
<1>7. ASSUME u \notin disturbed' PROVE Ordered(u)'
  <2>1. Ordered(u) /\ ~Unordered(u, want)
    BY <1>2, <1>7 DEF PresenceInv, BeginMark, DisturbIf, Disturb
  <2>2. \A m \in calls : m.user = u => m.want = want
    BY <2>1 DEF Unordered, CallsOf
  <2>3. want = "idle" => Idle(u)' /\ NoneBusy(u)'
    BY <1>1, <1>2, <2>1, <2>2 DEF Unordered, Idle, NoneBusy
  <2>4. lock[u] \in Conns => /\ conn[lock[u]].user = u /\ Live(lock[u])
    BY <2>1 DEF Ordered, OneConnection
  <2>5. want = "idle" /\ lock[u] \in Conns => conn[lock[u]].pc \notin Ending
    BY <2>1, <2>4 DEF Unordered, Closing, ConnsOf, Ending
  <2>6. by \in Conns => lock[u] = by
    BY <2>1 DEF Ordered, OneConnection, Live
  <2>7. want = "idle" => Kept(k)
    BY <1>1, <2>5, <2>6 DEF Kept, Ending
  <2>8. OneConnection(u)'
    BY <2>1 DEF Ordered, OneConnection, Live
  <2>9. \A m \in calls' : Kept(m)' <=> Kept(m)
    BY DEF Kept
  <2>10. MarksInOrder(u)'
    BY <1>1, <1>2, <1>4, <2>1, <2>2, <2>3, <2>5, <2>7, <2>9
       DEF Ordered, MarksInOrder
  <2>11. want = "busy" /\ lock[u] \in Conns => conn[lock[u]].pc # "add"
    BY <2>1, <2>4 DEF Unordered, Adding, ConnsOf
  <2>12. lock[u] \in Conns /\ conn[lock[u]].pc \notin Ending /\ want = "busy" => Kept(k)
    BY <1>1, <2>6 DEF Kept, Ending
(* An idle mark: nobody who should not be in the set is in it, whether u   *)
(* comes from somewhere or was idle before.                                *)
  <2>13. want = "idle" /\ lock[u] \in Conns /\ conn[lock[u]].pc \notin Ending
           /\ u \in available => Free(u)'
    <3>1. ASSUME want = "idle", lock[u] \in Conns, conn[lock[u]].pc \notin Ending,
                 u \in available
          PROVE  Free(u)
      BY <2>1, <2>2, <3>1 DEF Ordered, Exact
    <3> QED
      BY <2>3, <3>1 DEF Free
  <2>14. Exact(u)'
    BY <1>1, <1>2, <1>4, <2>1, <2>3, <2>9, <2>11, <2>12, <2>13 DEF Ordered, Exact
  <2> QED
    BY <2>8, <2>10, <2>14 DEF Ordered
<1> QED
  BY <1>1, <1>2, <1>4, <1>5, <1>6, <1>7, StepAbout

(* The core moves u, who was not idle or stays what u is, and marks        *)
(* nobody.                                                                 *)
LEMMA QuietHolds ==
  ASSUME PresenceInv, NEW u \in Users,
         core' \in [Users -> Place],
         \A v \in Users : core'[v].game = "held" => InLobby(core'[v]),
         \A v \in Users \ {u} : core'[v] = core[v],
         \/ ~Idle(u) /\ StrandIfIdle(u)
         \/ SyncState(core'[u]) = SyncState(core[u]) /\ UNCHANGED stranded,
         UNCHANGED <<available, lock, conn, calls, disturbed>>
  PROVE  PresenceInv'
<1>1. PresenceTypeOK /\ MarksOfOwners /\ StrandedAreIdle
  BY DEF PresenceInv
<1>2. /\ stranded' \subseteq Users
      /\ \A v \in Users \ {u} : v \in stranded' <=> v \in stranded
      /\ u \in stranded' => Idle(u)'
  BY <1>1 DEF StrandIfIdle, PresenceTypeOK, StrandedAreIdle, Idle
<1>3. PresenceTypeOK' /\ MarksOfOwners'
  BY <1>1, <1>2 DEF PresenceTypeOK, MarksOfOwners
<1>4. ASSUME u \notin disturbed' PROVE Ordered(u)'
  <2>1. Ordered(u)
    BY <1>4 DEF PresenceInv
  <2>2. \A k \in calls : Kept(k)' <=> Kept(k)
    BY DEF Kept
  <2>3. (Free(u)' <=> Free(u)) /\ (Idle(u) => Idle(u)') /\ (NoneBusy(u)' <=> NoneBusy(u))
    BY DEF Free, Idle, StrandIfIdle, NoneBusy
  <2>4. OneConnection(u)'
    BY <2>1 DEF Ordered, OneConnection, Live
  <2>5. MarksInOrder(u)'
    BY <2>1, <2>2, <2>3 DEF Ordered, MarksInOrder
  <2>6. Exact(u)'
    BY <2>1, <2>2, <2>3 DEF Ordered, Exact
  <2> QED
    BY <2>4, <2>5, <2>6 DEF Ordered
<1> QED
  BY <1>2, <1>3, <1>4, StepAbout

(* What a step does to the places of the users.                            *)
LEMMA PlaceFacts ==
  ASSUME PresenceTypeOK, NEW u \in Users, NEW place \in Place,
         core' = [core EXCEPT ![u] = place],
         place.game = "held" => InLobby(place)
  PROVE  /\ core' \in [Users -> Place] /\ core'[u] = place
         /\ \A v \in Users \ {u} : core'[v] = core[v]
         /\ \A v \in Users : core'[v].game = "held" => InLobby(core'[v])
BY DEF PresenceTypeOK

(* A request of a connection is about its own user.                        *)
LEMMA RequestFacts ==
  ASSUME PresenceTypeOK, NEW c \in Conns, MayRequest(c)
  PROVE  conn[c].user \in Users /\ conn[c].pc \in {"open", "srem", "release"}
BY DEF MayRequest, PresenceTypeOK, Endpoint

LEMMA EnterLobbyHolds ==
  ASSUME PresenceInv, NEW c \in Conns, EnterLobby(c)
  PROVE  PresenceInv'
<1> PICK u : u = conn[c].user
  OBVIOUS
<1>1. PresenceTypeOK
  BY DEF PresenceInv
<1>2. u \in Users /\ conn[c].pc \in {"open", "srem", "release"}
  BY <1>1, RequestFacts DEF EnterLobby
<1>3. PICK l \in {"seated", "gone"} : core' = [core EXCEPT ![u].lobby = l]
  BY DEF EnterLobby
<1> PICK place : place = [core[u] EXCEPT !.lobby = l]
  OBVIOUS
<1>4. /\ core[u] \in Place /\ core[u].lobby = "none"
      /\ core[u].game = "held" => InLobby(core[u])
  BY <1>1, <1>2 DEF EnterLobby, PresenceTypeOK
<1>5. place \in Place /\ (place.game = "held" => InLobby(place))
  BY <1>4 DEF Place, InLobby
<1>6. core' = [core EXCEPT ![u] = place]
  BY <1>3
<1> QED
  BY <1>1, <1>2, <1>5, <1>6, PlaceFacts, BeginMarkHolds DEF EnterLobby

LEMMA LeaveLobbyHolds ==
  ASSUME PresenceInv, NEW u \in Users, NEW by \in Conns \cup {"leader"},
         LeaveLobby(u, by),
         by \in Conns => conn[by].user = u /\ conn[by].pc \in {"open", "srem", "release"}
  PROVE  PresenceInv'
<1>1. PresenceTypeOK
  BY DEF PresenceInv
<1> PICK place : place = [core[u] EXCEPT !.lobby = "none"]
  OBVIOUS
<1>2. core[u] \in Place /\ core[u].lobby = "seated" /\ core[u].game # "held"
  BY <1>1 DEF LeaveLobby, PresenceTypeOK
<1>3. place \in Place /\ place.game # "held"
  BY <1>2 DEF Place
<1>4. core' = [core EXCEPT ![u] = place]
  BY DEF LeaveLobby
<1>5. ~Idle(u)
  BY <1>2 DEF Idle, SyncState, InLobby
<1> QED
  BY <1>1, <1>3, <1>4, <1>5, PlaceFacts, BeginMarkHolds DEF LeaveLobby

LEMMA StartGameHolds ==
  ASSUME PresenceInv, NEW u \in Users, StartGame(u)
  PROVE  PresenceInv'
<1>1. PresenceTypeOK
  BY DEF PresenceInv
<1>2. PICK g \in {"none", "held", "loose"} :
        /\ g = "held" => InLobby(core[u])
        /\ core' = [core EXCEPT ![u].game = g,
                                ![u].due = @ \/ core[u].game = "loose"]
  BY DEF StartGame
<1> PICK place :
      place = [core[u] EXCEPT !.game = g, !.due = @ \/ core[u].game = "loose"]
  OBVIOUS
<1>3. core[u] \in Place
  BY <1>1 DEF PresenceTypeOK
<1>4. place \in Place /\ (place.game = "held" => InLobby(place))
  BY <1>2, <1>3 DEF Place, InLobby
<1>5. core' = [core EXCEPT ![u] = place]
  BY <1>1, <1>2, <1>3 DEF PresenceTypeOK, Place
<1> QED
  BY <1>1, <1>4, <1>5, PlaceFacts, BeginMarkHolds, PresenceAssumption DEF StartGame

LEMMA EndGameHolds ==
  ASSUME PresenceInv, NEW u \in Users, EndGame(u)
  PROVE  PresenceInv'
<1>1. PresenceTypeOK
  BY DEF PresenceInv
<1> PICK place :
      place = [core[u] EXCEPT !.game = "none", !.due = @ \/ core[u].game = "loose"]
  OBVIOUS
<1>2. core[u] \in Place /\ core[u].game # "none"
  BY <1>1 DEF EndGame, PresenceTypeOK
<1>3. place \in Place /\ place.game # "held"
  BY <1>2 DEF Place
<1>4. core' = [core EXCEPT ![u] = place]
  BY <1>1, <1>2 DEF EndGame, PresenceTypeOK, Place
<1>5. ~Idle(u)
  BY <1>2 DEF Idle, SyncState
<1> QED
  BY <1>1, <1>3, <1>4, <1>5, PlaceFacts, QuietHolds DEF EndGame

LEMMA LosesHold ==
  ASSUME PresenceInv, NEW u \in Users, LoseSeat(u) \/ LoseLobby(u)
  PROVE  PresenceInv'
<1>1. PresenceTypeOK
  BY DEF PresenceInv
<1>2. PICK l \in {"unseated", "gone"} :
        /\ core' = [core EXCEPT ![u].lobby = l]
        /\ l = "unseated" => UNCHANGED stranded
        /\ l = "gone" => core[u].game # "held" /\ StrandIfIdle(u)
  BY DEF LoseSeat, LoseLobby
<1> PICK place : place = [core[u] EXCEPT !.lobby = l]
  OBVIOUS
<1>3. core[u] \in Place /\ InLobby(core[u])
  BY <1>1 DEF LoseSeat, LoseLobby, PresenceTypeOK, InLobby
<1>4. place \in Place /\ (place.game = "held" => InLobby(place))
  BY <1>2, <1>3 DEF Place, InLobby
<1>5. core' = [core EXCEPT ![u] = place]
  BY <1>2
<1>6. ~Idle(u)
  BY <1>3 DEF Idle, SyncState
<1>7. l = "unseated" => SyncState(place) = SyncState(core[u])
  BY <1>3 DEF Place, SyncState, InLobby
<1>8. UNCHANGED <<available, lock, conn, calls, disturbed>>
  BY DEF LoseSeat, LoseLobby
<1> QED
  BY <1>1, <1>2, <1>4, <1>5, <1>6, <1>7, <1>8, PlaceFacts, QuietHolds

LEMMA ReturnHolds ==
  ASSUME PresenceInv, NEW u \in Users, ReturnToLobbies(u)
  PROVE  PresenceInv'
<1>1. PresenceTypeOK
  BY DEF PresenceInv
<1>2. PICK due \in BOOLEAN : core' = [core EXCEPT ![u].due = due]
  BY DEF ReturnToLobbies
<1> PICK place : place = [core[u] EXCEPT !.due = due]
  OBVIOUS
<1>3. core[u] \in Place /\ (core[u].game = "held" => InLobby(core[u]))
  BY <1>1 DEF PresenceTypeOK
<1>4. /\ place \in Place /\ (place.game = "held" => InLobby(place))
      /\ SyncState(place) = SyncState(core[u])
  BY <1>2, <1>3 DEF Place, InLobby, SyncState
<1>5. core' = [core EXCEPT ![u] = place]
  BY <1>2
<1>6. UNCHANGED <<available, lock, conn, stranded>>
  BY DEF ReturnToLobbies
<1>7. CASE BeginMark(u, "core", "idle")
  BY <1>1, <1>4, <1>5, <1>6, <1>7, PlaceFacts, BeginMarkHolds, PresenceAssumption
<1>8. CASE UNCHANGED <<calls, disturbed>>
  BY <1>1, <1>4, <1>5, <1>6, <1>8, PlaceFacts, QuietHolds
<1> QED
  BY <1>7, <1>8 DEF ReturnToLobbies

LEMMA CoreHolds ==
  ASSUME PresenceInv,
         \/ \E c \in Conns : EnterLobby(c) \/ Leave(c)
         \/ \E u \in Users : Kick(u) \/ LoseSeat(u) \/ LoseLobby(u)
         \/ \E u \in Users : StartGame(u) \/ EndGame(u) \/ ReturnToLobbies(u)
  PROVE  PresenceInv'
<1>1. ASSUME NEW c \in Conns, Leave(c)
      PROVE  PresenceInv'
  BY <1>1, RequestFacts, LeaveLobbyHolds DEF Leave, PresenceInv
<1>2. ASSUME NEW u \in Users, Kick(u)
      PROVE  PresenceInv'
  BY <1>2, LeaveLobbyHolds, PresenceAssumption DEF Kick
<1> QED
  BY <1>1, <1>2, EnterLobbyHolds, StartGameHolds, EndGameHolds, LosesHold, ReturnHolds

(* A mark goes on or ends.                                                 *)
LEMMA MarkHolds ==
  ASSUME PresenceInv, NEW k \in calls,
         MarkStep(k) \/ CancelMark(k) \/ FailMark(k)
  PROVE  PresenceInv'
<1> PICK u : u = k.user
  OBVIOUS
<1> PICK next : next = [k EXCEPT !.pc = "write"]
  OBVIOUS
<1>1. PresenceTypeOK /\ MarksOfOwners /\ k \in Mark /\ u \in Users
  BY DEF PresenceInv, PresenceTypeOK, Mark
<1>2. /\ next \in Mark /\ next.user = u /\ next.by = k.by /\ next.want = k.want
      /\ next.pc = "write"
  BY <1>1 DEF Mark
<1>3. UNCHANGED <<lock, conn, core>> /\ disturbed \subseteq disturbed'
  BY DEF MarkStep, MarkBusy, CheckOnline, MarkIdle, CancelMark, FailMark, Disturb
<1>4. calls' \in {calls \ {k}, (calls \ {k}) \cup {next}}
  BY DEF MarkStep, MarkBusy, CheckOnline, MarkIdle, CancelMark, FailMark, Done
<1>5. available' \in {available, available \cup {u}, available \ {u}}
  BY DEF MarkStep, MarkBusy, CheckOnline, MarkIdle, CancelMark, FailMark, Readd,
     Sadd, Srem
<1>6. /\ disturbed' \subseteq Users
      /\ stranded' = IF MarkIdle(k) THEN stranded \ {u} ELSE stranded
  BY <1>1 DEF MarkStep, MarkBusy, CheckOnline, MarkIdle, CancelMark, FailMark,
     Readd, Disturb, PresenceTypeOK
<1>7. PresenceTypeOK' /\ MarksOfOwners'
  <2>1. \A m \in calls' : m \in calls \/ m = next
    BY <1>4
  <2>2. calls' \subseteq Mark
    BY <1>1, <1>2, <2>1 DEF PresenceTypeOK
  <2>3. PresenceTypeOK'
    BY <1>1, <1>3, <1>6, <2>2 DEF PresenceTypeOK
  <2>4. MarksOfOwners'
    <3>1. ASSUME NEW m \in calls', m.by \in Conns PROVE conn[m.by].user = m.user
      <4>1. CASE m \in calls
        BY <1>1, <3>1, <4>1 DEF MarksOfOwners
      <4>2. CASE m = next
        BY <1>1, <1>2, <3>1, <4>2 DEF MarksOfOwners
      <4> QED
        BY <2>1, <4>1, <4>2
    <3> QED
      BY <1>3, <3>1 DEF MarksOfOwners
  <2> QED
    BY <2>3, <2>4
<1>8. ASSUME u \notin disturbed' PROVE Ordered(u)'
  <2>1. Ordered(u)
    BY <1>1, <1>3, <1>8 DEF PresenceInv
  <2>2. \A m \in calls : Kept(m)' <=> Kept(m)
    BY <1>3 DEF Kept
  <2>3. (Idle(u)' <=> Idle(u)) /\ (Kept(next)' <=> Kept(k))
    BY <1>2, <1>3 DEF Idle, Kept
  <2>4. NoneBusy(u) => NoneBusy(u)'
    BY <1>2, <1>4 DEF NoneBusy
  <2>5. ~MarkIdle(k) => (Free(u)' <=> Free(u))
    BY <1>6, <2>3 DEF Free
  <2>6. OneConnection(u)'
    BY <1>3, <2>1 DEF Ordered, OneConnection, Live
  <2>7. ~FailMark(k)
    BY <1>8 DEF FailMark, Disturb
  <2>8. CASE MarkBusy(k)
    <3>1. /\ k.want = "busy" /\ u \notin available' /\ calls' = calls \ {k} /\ ~Free(u)
         /\ ~Free(u)'
      BY <2>1, <2>8, <2>5 DEF MarkBusy, MarkIdle, Srem, Done, Ordered, MarksInOrder
    <3>2. MarksInOrder(u)' /\ Exact(u)'
      BY <1>3, <2>1, <2>2, <2>3, <2>4, <3>1 DEF Ordered, MarksInOrder, Exact
    <3> QED
      BY <2>6, <3>2 DEF Ordered
  <2>9. CASE CheckOnline(k)
    <3>1. k.pc = "check" /\ UNCHANGED available /\ (Free(u)' <=> Free(u))
          /\ calls' = (calls \ {k}) \cup (IF lock[u] # NoConn THEN {next} ELSE {})
      BY <2>9, <2>5 DEF CheckOnline, IsOnline, MarkIdle
    <3>2. MarksInOrder(u)'
      BY <1>2, <1>3, <2>1, <2>2, <2>3, <2>4, <3>1 DEF Ordered, MarksInOrder
    <3>3. Exact(u)'
      <4>1. CASE lock[u] = NoConn
        BY <1>3, <2>1, <3>1, <4>1, PresenceAssumption DEF Ordered, Exact
      <4>2. CASE lock[u] # NoConn
        <5>1. \A m \in calls : m \in calls' \/ m = k
          BY <3>1
        <5>2. next \in calls'
          BY <3>1, <4>2
        <5> QED
          BY <1>2, <1>3, <2>1, <2>2, <2>3, <2>4, <3>1, <4>2, <5>1, <5>2
             DEF Ordered, Exact
      <4> QED
        BY <4>1, <4>2
    <3> QED
      BY <2>6, <3>2, <3>3 DEF Ordered
  <2>10. CASE MarkIdle(k)
    <3>1. /\ k.want = "idle" /\ k.pc = "write" /\ u \in available'
          /\ calls' = calls \ {k} /\ u \notin stranded'
      BY <1>6, <2>10 DEF MarkIdle, Readd, Sadd, Done
    <3>2. /\ Idle(u) /\ Free(u)' /\ NoneBusy(u) /\ lock[u] # NoConn
          /\ lock[u] \in Conns => conn[lock[u]].pc \notin Ending
      BY <2>1, <2>3, <3>1 DEF Ordered, MarksInOrder, Free
    <3>3. MarksInOrder(u)' /\ Exact(u)'
      BY <1>3, <2>1, <2>2, <2>3, <2>4, <3>1, <3>2
         DEF Ordered, MarksInOrder, Exact, Ending, NoneBusy
    <3> QED
      BY <2>6, <3>3 DEF Ordered
  <2>11. CASE CancelMark(k)
    <3>1. /\ calls' = calls \ {k} /\ UNCHANGED <<available, stranded>> /\ ~Kept(k)
          /\ Free(u)' <=> Free(u)
      BY <2>3, <2>11 DEF CancelMark, Done, Kept, Free
    <3>2. k.want # "idle"
      BY <2>1, <3>1 DEF Ordered, MarksInOrder
    <3>3. MarksInOrder(u)' /\ Exact(u)'
      BY <1>3, <2>1, <2>2, <2>3, <2>4, <3>1, <3>2 DEF Ordered, MarksInOrder, Exact
    <3> QED
      BY <2>6, <3>3 DEF Ordered
  <2> QED
    BY <2>7, <2>8, <2>9, <2>10, <2>11 DEF MarkStep
<1>9. u \in stranded' => Idle(u)'
  BY <1>3, <1>6 DEF PresenceInv, StrandedAreIdle, Idle
<1> QED
  BY <1>1, <1>2, <1>3, <1>4, <1>5, <1>6, <1>7, <1>8, <1>9, StepAbout

----------------------------------------------------------------------------
(* Restarts                                                                *)
LEMMA CoreForgetsHolds ==
  ASSUME PresenceInv, CoreForgets
  PROVE  PresenceInv'
<1> DEFINE Left == {u \in Users : SyncState(core[u]) # "IDLE" \/ CallsOf(u) # {}}
<1>1. PresenceTypeOK /\ calls' = {} /\ UNCHANGED <<available, lock, conn>>
  BY DEF PresenceInv, CoreForgets
<1>2. /\ core' = [u \in Users |-> Nowhere]
      /\ stranded' = stranded \cup (Left \ available)
      /\ disturbed' = disturbed \cup (Left \cap available)
  BY DEF CoreForgets, Disturb
<1>3. PresenceTypeOK' /\ MarksOfOwners'
  BY <1>1, <1>2 DEF PresenceTypeOK, Place, Nowhere, MarksOfOwners
<1>4. \A u \in Users : Idle(u)' /\ NoneBusy(u)'
  BY <1>1, <1>2 DEF Idle, SyncState, InLobby, Nowhere, NoneBusy
<1>5. StrandedAreIdle'
  BY <1>3, <1>4 DEF StrandedAreIdle, PresenceTypeOK
<1>6. ASSUME NEW u \in Users, u \notin disturbed'
      PROVE  Ordered(u)'
  <2>1. Ordered(u)
    BY <1>2, <1>6 DEF PresenceInv
  <2>2. OneConnection(u)' /\ MarksInOrder(u)'
    BY <1>1, <2>1 DEF Ordered, OneConnection, Live, MarksInOrder
  <2>3. CASE u \in Left
    <3>1. u \notin available /\ ~Free(u)'
      BY <1>2, <1>6, <2>3 DEF Free
    <3> QED
      BY <1>1, <1>4, <2>1, <2>2, <3>1 DEF Ordered, Exact
  <2>4. CASE u \notin Left
    <3>1. /\ Idle(u) /\ \A k \in calls : k.user # u
          /\ Free(u)' <=> Free(u)
      BY <1>2, <1>4, <2>4 DEF CallsOf, Idle, Free
    <3> QED
      BY <1>1, <1>4, <2>1, <2>2, <3>1 DEF Ordered, Exact
  <2> QED
    BY <2>3, <2>4
<1> QED
  BY <1>3, <1>5, <1>6 DEF PresenceInv

LEMMA StackStartsHolds ==
  ASSUME PresenceInv, StackStarts
  PROVE  PresenceInv'
<1>1. PresenceTypeOK /\ calls' = {} /\ UNCHANGED stranded
  BY DEF PresenceInv, StackStarts
<1>2. /\ conn' \in [Conns -> Endpoint] /\ core' \in [Users -> Place]
      /\ \A c \in Conns : conn'[c].pc = "none"
      /\ \A u \in Users : core'[u] = Nowhere
  BY <1>1 DEF StackStarts, PresenceTypeOK, Endpoint, Place, Nowhere
<1>3. \A u \in Users : core'[u].game = "none" /\ Idle(u)'
  BY <1>2 DEF Nowhere, Idle, SyncState, InLobby
<1>4. MarksOfOwners' /\ StrandedAreIdle'
  BY <1>1, <1>3 DEF MarksOfOwners, StrandedAreIdle, PresenceTypeOK
<1>5. CASE ClearStalePresence /\ disturbed' = {}
  <2>1. available' = {} /\ \A u \in Users : lock'[u] = NoConn
    BY <1>5 DEF ClearStalePresence
  <2>2. PresenceTypeOK'
    BY <1>1, <1>2, <1>3, <1>5 DEF ClearStalePresence, PresenceTypeOK
  <2>3. \A u \in Users : Ordered(u)'
    BY <1>1, <1>2, <2>1, PresenceAssumption
       DEF Ordered, OneConnection, MarksInOrder, Exact, Live
  <2> QED
    BY <1>4, <2>2, <2>3 DEF PresenceInv
<1>6. CASE Disturb(Users) /\ UNCHANGED lock
  BY <1>1, <1>2, <1>3, <1>4, <1>6 DEF Disturb, PresenceTypeOK, PresenceInv
<1> QED
  BY <1>5, <1>6 DEF StackStarts

----------------------------------------------------------------------------
LEMMA StepHolds == PresenceInv /\ [PresenceNext]_presence => PresenceInv'
<1> SUFFICES ASSUME PresenceInv, [PresenceNext]_presence PROVE PresenceInv'
  OBVIOUS
<1>1. ASSUME NEW c \in Conns, ConnStep(c) \/ Close(c) \/ Vanish(c) \/ CommandFails(c)
      PROVE  PresenceInv'
  BY <1>1, SnapshotHolds, DisturbingSteps, AddActiveHolds, CloseHolds,
     RemoveActiveHolds, ReleaseHolds, VanishHolds DEF ConnStep, LosesLock
<1>2. CASE UNCHANGED presence
  <2>1. PresenceTypeOK' /\ MarksOfOwners' /\ StrandedAreIdle'
    BY <1>2 DEF presence, presenceVars, PresenceInv, PresenceTypeOK, MarksOfOwners,
       StrandedAreIdle, Idle
  <2>2. ASSUME NEW u \in Users, Ordered(u) PROVE Ordered(u)'
    BY <1>2, <2>2 DEF presence, presenceVars, Ordered, OneConnection, MarksInOrder,
       Exact, Live, Idle, Free, NoneBusy, Kept
  <2> QED
    BY <1>2, <2>1, <2>2 DEF presence, presenceVars, PresenceInv
<1> QED
  BY <1>1, <1>2, AcceptHolds, ExpireHolds, CoreHolds, MarkHolds,
     CoreForgetsHolds, StackStartsHolds DEF PresenceNext, PresenceStep

LEMMA InvHolds == PresenceSpec => []PresenceInv
BY InitHolds, StepHolds, PTL DEF PresenceSpec, presence

(* Locks, connections and calls under way keep their types, whatever       *)
(* connections come and go.                                                *)
THEOREM PresenceTypeCorrect == PresenceSpec => []PresenceTypeOK
<1>1. PresenceInv => PresenceTypeOK
  BY DEF PresenceInv
<1> QED
  BY <1>1, InvHolds, PTL

(* Redis says exactly who is available, for any number of users,           *)
(* connections and marks in flight, of everybody about whom no writes met  *)
(* unordered: who is online and idle, but for those who were left idle     *)
(* without a mark.                                                         *)
THEOREM AvailabilityIsExact == PresenceSpec => []AvailableIsExact
<1>1. PresenceInv => AvailableIsExact
  <2> SUFFICES ASSUME PresenceInv, NEW u \in Users, u \notin disturbed, Settled(u)
               PROVE  u \in available <=> lock[u] # NoConn /\ Free(u)
    BY DEF AvailableIsExact, Idle, Free
  <2>1. Ordered(u) /\ PresenceTypeOK
    BY DEF PresenceInv
  <2>2. \A k \in calls : k.user # u
    BY DEF Settled, CallsOf
  <2>3. CASE lock[u] = NoConn
    BY <2>1, <2>3 DEF Ordered, Exact
  <2>4. CASE lock[u] \in Conns
    <3>1. conn[lock[u]].pc = "open"
      BY <2>1, <2>4 DEF Ordered, OneConnection, Settled, ConnsOf
    <3>2. u \in available <=> Free(u)
      BY <2>1, <2>2, <2>4, <3>1 DEF Ordered, Exact, Ending
    <3> QED
      BY <2>4, <3>2, PresenceAssumption
  <2> QED
    BY <2>1, <2>3, <2>4 DEF PresenceTypeOK
<1> QED
  BY InvHolds, <1>1, PTL

(* The lock of a connection that is being served is never taken from it by *)
(* another connection, the core or a restart, only by a refresh that came  *)
(* late.                                                                   *)
THEOREM OnlyTimeReleases == PresenceSpec => NobodyElseReleases
<1> DEFINE Only == \A c \in Conns :
                     Live(c) /\ ~Lost(c) /\ Lost(c)' => ExpireLate(conn[c].user)
<1>1. PresenceInv /\ [PresenceNext]_presence => [Only]_presence
  <2> SUFFICES ASSUME PresenceInv, PresenceNext, NEW c \in Conns,
                      Live(c), ~Lost(c), Lost(c)'
               PROVE  ExpireLate(conn[c].user)
    BY DEF presence
  <2> PICK u : u = conn[c].user
    OBVIOUS
  <2>1. u \in Users /\ lock[u] = c /\ PresenceTypeOK
    BY DEF PresenceInv, PresenceTypeOK, Endpoint, Lost
  <2>2. Live(c)' /\ lock'[conn'[c].user] # c
    BY DEF Lost
  <2>3. ~StackStarts
    BY <2>1, <2>2 DEF StackStarts, Live, PresenceTypeOK, Endpoint
  <2>4. ASSUME UNCHANGED <<lock, conn>> PROVE FALSE
    BY <2>1, <2>2, <2>4
  <2>5. ASSUME NEW d \in Conns,
               NEW pc \in {"none", "snapshot", "add", "open", "srem", "release"},
               Goto(d, pc), UNCHANGED lock
        PROVE  FALSE
    <3>1. conn'[c].user = u
      BY <2>1, <2>5, GotoFacts
    <3> QED
      BY <2>1, <2>2, <2>5, <3>1
  <2>6. ASSUME NEW d \in Conns,
               Snapshot(d) \/ SnapshotFails(d) \/ AddActive(d) \/ CommandFails(d)
                 \/ Close(d) \/ LosesLock(d) \/ RemoveActive(d) \/ Vanish(d)
        PROVE  FALSE
    BY <2>5, <2>6 DEF Snapshot, SnapshotFails, AddActive, CommandFails, Close,
       LosesLock, RemoveActive, Vanish
  <2>7. ASSUME NEW d \in Conns, Release(d) PROVE FALSE
    <3>1. /\ conn'[d].pc = "none" /\ conn'[c].user = u
      BY <2>1, <2>7, GotoFacts DEF Release
    <3>2. d # c
      BY <2>2, <3>1 DEF Live
    <3>3. lock'[u] = c
      BY <2>1, <2>7, <3>2 DEF Release, DeletesLock, PresenceTypeOK
    <3> QED
      BY <2>2, <3>1, <3>3
  <2>8. ASSUME NEW d \in Conns, NEW v \in Users, Accept(d, v) PROVE FALSE
    <3>1. d # c /\ v # u
      BY <2>1, <2>8, PresenceAssumption DEF Accept, Unused
    <3>2. conn'[c] = conn[c] /\ lock'[u] = c
      BY <2>1, <2>8, <3>1 DEF Accept, PresenceTypeOK
    <3> QED
      BY <2>2, <3>2
  <2>9. ASSUME NEW v \in Users, ExpireStale(v) PROVE FALSE
    <3>1. v # u
      BY <2>1, <2>9 DEF ExpireStale
    <3> QED
      BY <2>1, <2>2, <2>9, <3>1 DEF ExpireStale, PresenceTypeOK
  <2>10. ASSUME NEW v \in Users, ExpireLate(v) PROVE ExpireLate(u)
    <3>1. CASE v # u
      BY <2>1, <2>2, <2>10, <3>1 DEF ExpireLate, PresenceTypeOK
    <3> QED
      BY <2>10, <3>1
  <2>11. ASSUME \/ CoreForgets
                \/ \E d \in Conns : EnterLobby(d) \/ Leave(d)
                \/ \E v \in Users : Kick(v) \/ LoseSeat(v) \/ LoseLobby(v)
                \/ \E v \in Users : StartGame(v) \/ EndGame(v) \/ ReturnToLobbies(v)
                \/ \E k \in calls : MarkStep(k) \/ CancelMark(k) \/ FailMark(k)
         PROVE  FALSE
    BY <2>4, <2>11 DEF CoreForgets, EnterLobby, Leave, LeaveLobby, Kick, LoseSeat,
       LoseLobby, StartGame, EndGame, ReturnToLobbies, MarkStep, MarkBusy, CheckOnline, MarkIdle, CancelMark, FailMark
  <2> QED
    BY <2>3, <2>6, <2>7, <2>8, <2>9, <2>10, <2>11
       DEF PresenceNext, PresenceStep, ConnStep
<1> QED
  BY InvHolds, <1>1, PTL DEF PresenceSpec, NobodyElseReleases, presence
=============================================================================
