-------------------------- MODULE EnginePoolProofs --------------------------
(***************************************************************************)
(* The safety of the engine pool, for every number of workers, searches,   *)
(* calls of sync and loads.                                                *)
(*                                                                         *)
(* The properties are not inductive.  They hold because the calls under    *)
(* _lock keep _loaded FALSE until they are done (LockInv), because a load  *)
(* in progress has its processes for itself (LoadInv), and because a       *)
(* worker is in one place: one queue or one search (PlaceInv).  What is    *)
(* true of the first pool only rests on there being nothing before it      *)
(* (EmptyInv) and on a count of the searches that owe a worker (FirstInv). *)
(***************************************************************************)
EXTENDS EnginePool, FiniteSetTheorems, TLAPS

Busy == {"load", "undo", "drain", "quit"}

(* A call that awaits under _lock holds it and finds the pool unloaded;    *)
(* nobody else has processes to start or quit.                             *)
LockInv ==
    /\ loaded <=> avail # 0
    /\ \A s \in Callers :
          /\ sync[s].pc \in Busy => holder = {s} /\ ~loaded
          /\ sync[s].pc \notin Busy => sync[s].mine = {}

(* The processes of a load run, and nobody has seen them yet.              *)
LoadInv ==
    \A s \in Callers : sync[s].pc = "load" =>
        /\ loads < MaxLoads
        /\ sync[s].mine \subseteq procs
        /\ \A q \in 1 .. MaxLoads : queues[q] \cap sync[s].mine = {}
        /\ \A c \in Searchers : search[c].worker \notin sync[s].mine

(* A worker is in one queue or one search at most.                         *)
PlaceInv ==
    /\ \A c \in Searchers :
          /\ search[c].worker # NoWorker <=> search[c].pc \in {"play", "retire"}
          /\ search[c].pc # "none" => search[c].queue \in 1 .. loads
          /\ \A q \in 1 .. MaxLoads : search[c].worker \notin queues[q]
    /\ \A c, d \in Searchers :
          c # d /\ search[c].worker # NoWorker
              => search[c].worker # search[d].worker
    /\ \A p, q \in 1 .. MaxLoads : p # q => queues[p] \cap queues[q] = {}

(* What is in the queue choose gets from runs.                             *)
RunInv == avail # 0 => queues[avail] \subseteq procs

PoolInv == TypeOK /\ LockInv /\ LoadInv /\ PlaceInv /\ RunInv

(* Searches that have to put a new process in the place of their worker.   *)
Owing == {c \in Searchers : search[c].pc \in {"retire", "spawn"}}

(* A load starts no more processes than the pool has places.               *)
SizeInv ==
    \A s \in Callers : sync[s].pc = "load" =>
        IsFiniteSet(sync[s].mine) /\ Cardinality(sync[s].mine) < PoolSize

(* Before the first load ends, there are the processes it started and      *)
(* nothing else, unless the program is being stopped.                      *)
EmptyInv ==
    /\ closing => \A s \in Callers : sync[s].pc \in {"none", "drain", "quit"}
    /\ loads = 0 =>
          /\ \A c \in Searchers : search[c].pc = "none"
          /\ closing \/ procs \subseteq Mine

(* FirstPoolIsWhole with what makes it inductive: who retired a worker may *)
(* add one.                                                                *)
FirstInv ==
    loads = 1 /\ loaded =>
        /\ pool = queues[avail] \cup Playing
        /\ procs \subseteq pool \cup Retiring
        /\ IsFiniteSet(pool)
        /\ IsFiniteSet(Owing)
        /\ Cardinality(pool) + Cardinality(Owing) <= PoolSize

WholeInv == PoolInv /\ SizeInv /\ EmptyInv /\ FirstInv

----------------------------------------------------------------------------
(* The records of a call, as a step writes them.                           *)

LEMMA Records ==
    /\ NoSync \in SyncCall
    /\ NoSearch \in SearchCall
    /\ NoSync.pc = "none" /\ NoSync.mine = {}
    /\ NoSearch.pc = "none" /\ NoSearch.worker = NoWorker
  BY PoolAssumption
     DEF NoSync, NoSearch, SyncCall, SearchCall, PoolAssumption

LEMMA InitPool == Init => PoolInv
<1> SUFFICES ASSUME Init PROVE PoolInv
  OBVIOUS
<1>1. TypeOK
  <2>1. sync \in [Callers -> SyncCall] /\ search \in [Searchers -> SearchCall]
    BY Records DEF Init
  <2>2. queues \in [1 .. MaxLoads -> SUBSET Workers]
    BY DEF Init
  <2>3. loads \in 0 .. MaxLoads /\ avail \in {0, loads}
    BY PoolAssumption DEF Init, PoolAssumption
  <2>4. holder \in {{}} \cup {{s} : s \in Callers}
    BY DEF Init
  <2> QED
    BY <2>1, <2>2, <2>3, <2>4 DEF Init, TypeOK
<1>2. LockInv /\ LoadInv
  BY Records DEF Init, LockInv, LoadInv, Busy
<1>3. PlaceInv /\ RunInv
  <2>1. \A c \in Searchers : search[c] = NoSearch
    BY DEF Init
  <2>2. \A q \in 1 .. MaxLoads : queues[q] = {}
    BY DEF Init
  <2> QED
    BY <2>1, <2>2, Records DEF Init, PlaceInv, RunInv
<1> QED
  BY <1>1, <1>2, <1>3 DEF PoolInv

(* One call of sync begins to wait, or changes what it waits for.          *)
LEMMA SyncBeginKeeps ==
    ASSUME PoolInv, NEW s \in Syncs, SyncBegin(s)
    PROVE  PoolInv'
<1>1. s \in Callers /\ sync[s].pc = "none"
  BY DEF Callers, SyncBegin
<1>2. PICK got \in SUBSET Bots :
        sync' = [sync EXCEPT ![s] = [NoSync EXCEPT !.pc = "apply", !.got = got]]
  BY DEF SyncBegin, SetSync
<1>3. sync \in [Callers -> SyncCall]
  BY DEF PoolInv, TypeOK
<1> DEFINE call == [NoSync EXCEPT !.pc = "apply", !.got = got]
<1>5. call \in SyncCall /\ call.pc = "apply" /\ call.mine = {}
  <2>1. call \in SyncCall
    BY Records DEF SyncCall
  <2>2. call.pc = "apply" /\ call.mine = {}
    BY DEF NoSync
  <2> QED
    BY <2>1, <2>2
<1>6. /\ sync'[s] = call
      /\ \A x \in Callers \ {s} : sync'[x] = sync[x]
      /\ sync' \in [Callers -> SyncCall]
  BY <1>1, <1>2, <1>3, <1>5
<1>4. UNCHANGED <<engineOn, loaded, pool, loads, avail, queues, procs, holder,
                   search, closing>>
  BY DEF SyncBegin
<1> QED
  BY <1>1, <1>4, <1>5, <1>6
     DEF PoolInv, TypeOK, LockInv, LoadInv, PlaceInv, RunInv, Busy

(* The part of sync that runs when the lock is had: a load begins, an      *)
(* unload begins, or there is nothing to do.                               *)
UnderLockCase(s) ==
    \/ /\ ~loaded /\ loads < MaxLoads
       /\ holder' = {s}
       /\ SetSync(s, [NoSync EXCEPT !.pc = "load"])
       /\ UNCHANGED <<loaded, pool, avail>>
    \/ BeginUnload(s)
    \/ /\ SetSync(s, NoSync)
       /\ UNCHANGED <<loaded, pool, avail, holder>>

LEMMA UnderLockKeeps ==
    ASSUME PoolInv, NEW s \in Callers,
           sync[s].pc \in {"apply", "lock"}, holder = {},
           engineOn' \in SUBSET Bots,
           UnderLockCase(s),
           UNCHANGED <<loads, queues, procs, search, closing>>
    PROVE  PoolInv'
<1>1. sync \in [Callers -> SyncCall]
  BY DEF PoolInv, TypeOK
<1>2. \A x \in Callers : sync[x].pc \notin Busy /\ sync[x].mine = {}
  BY DEF PoolInv, LockInv, Busy
<1>3. CASE /\ ~loaded /\ loads < MaxLoads
           /\ holder' = {s}
           /\ SetSync(s, [NoSync EXCEPT !.pc = "load"])
           /\ UNCHANGED <<loaded, pool, avail>>
  <2> DEFINE call == [NoSync EXCEPT !.pc = "load"]
  <2>1. call \in SyncCall
    BY Records DEF SyncCall
  <2>2. call.pc = "load" /\ call.mine = {}
    BY DEF NoSync
  <2>3. /\ sync'[s] = call
        /\ \A x \in Callers \ {s} : sync'[x] = sync[x]
        /\ sync' \in [Callers -> SyncCall]
    BY <1>1, <1>3, <2>1 DEF SetSync
  <2> HIDE DEF call
  <2>4. TypeOK'
    BY <1>3, <2>3 DEF PoolInv, TypeOK
  <2>5. LockInv' /\ LoadInv'
    BY <1>2, <1>3, <2>2, <2>3 DEF PoolInv, LockInv, LoadInv, Busy
  <2> QED
    BY <1>3, <2>4, <2>5 DEF PoolInv, PlaceInv, RunInv
<1>4. CASE BeginUnload(s)
  <2> DEFINE call == [pc |-> "drain", got |-> {}, mine |-> pool,
                      queue |-> avail]
  <2>1. call \in SyncCall
    BY PoolAssumption DEF SyncCall, PoolInv, TypeOK, PoolAssumption
  <2>2. call.pc = "drain"
    OBVIOUS
  <2>3. /\ sync'[s] = call
        /\ \A x \in Callers \ {s} : sync'[x] = sync[x]
        /\ sync' \in [Callers -> SyncCall]
    BY <1>1, <1>4, <2>1 DEF BeginUnload, SetSync
  <2> HIDE DEF call
  <2>4. TypeOK'
    BY <1>4, <2>3 DEF BeginUnload, PoolInv, TypeOK
  <2>5. LockInv' /\ LoadInv'
    BY <1>2, <1>4, <2>2, <2>3
       DEF BeginUnload, PoolInv, LockInv, LoadInv, Busy
  <2> QED
    BY <1>4, <2>4, <2>5 DEF BeginUnload, PoolInv, PlaceInv, RunInv
<1>5. CASE /\ SetSync(s, NoSync)
           /\ UNCHANGED <<loaded, pool, avail, holder>>
  <2>1. /\ sync'[s] = NoSync
        /\ \A x \in Callers \ {s} : sync'[x] = sync[x]
        /\ sync' \in [Callers -> SyncCall]
    BY <1>1, <1>5, Records DEF SetSync
  <2> QED
    BY <1>2, <1>5, <2>1, Records
       DEF PoolInv, TypeOK, LockInv, LoadInv, PlaceInv, RunInv, Busy
<1> QED
  BY <1>3, <1>4, <1>5 DEF UnderLockCase

LEMMA SyncApplyKeeps ==
    ASSUME PoolInv, NEW s \in Callers, SyncApply(s)
    PROVE  PoolInv'
<1>1. sync[s].pc = "apply" /\ engineOn' = sync[s].got
  BY DEF SyncApply
<1>2. engineOn' \in SUBSET Bots
  <2>1. sync[s] \in SyncCall
    BY DEF PoolInv, TypeOK
  <2> QED
    BY <1>1, <2>1 DEF SyncCall
<1>3. CASE LockIsFree
  <2>1. UnderLock(s, sync[s].got)
    BY <1>3 DEF SyncApply
  <2>2. UnderLockCase(s) /\ UNCHANGED <<loads, queues, procs, search, closing>>
    BY <2>1 DEF UnderLock, UnderLockCase, BeginLoad, NothingToDo
  <2> QED
    BY <1>1, <1>2, <1>3, <2>2, UnderLockKeeps DEF LockIsFree
<1>4. CASE ~LockIsFree
  <2> DEFINE call == [NoSync EXCEPT !.pc = "lock"]
  <2>1. call \in SyncCall
    BY Records DEF SyncCall
  <2>2. call.pc = "lock" /\ call.mine = {}
    BY DEF NoSync
  <2>3. /\ sync' = [sync EXCEPT ![s] = call]
        /\ UNCHANGED <<loaded, pool, loads, avail, queues, procs,
                       holder, search, closing>>
    BY <1>4 DEF SyncApply, SetSync
  <2> HIDE DEF call
  <2>4. /\ sync'[s] = call
        /\ \A x \in Callers \ {s} : sync'[x] = sync[x]
        /\ sync' \in [Callers -> SyncCall]
    BY <2>1, <2>3 DEF PoolInv, TypeOK
  <2> QED
    BY <1>1, <1>2, <2>2, <2>3, <2>4
       DEF PoolInv, TypeOK, LockInv, LoadInv, PlaceInv, RunInv, Busy
<1> QED
  BY <1>3, <1>4

LEMMA SyncAcquireKeeps ==
    ASSUME PoolInv, NEW s \in Callers, SyncAcquire(s)
    PROVE  PoolInv'
<1>1. /\ sync[s].pc = "lock" /\ holder = {}
      /\ UnderLock(s, engineOn)
      /\ engineOn' = engineOn
  BY DEF SyncAcquire
<1>2. UnderLockCase(s) /\ UNCHANGED <<loads, queues, procs, search, closing>>
  BY <1>1 DEF UnderLock, UnderLockCase, BeginLoad, NothingToDo
<1>3. engineOn' \in SUBSET Bots
  BY <1>1 DEF PoolInv, TypeOK
<1> QED
  BY <1>1, <1>2, <1>3, UnderLockKeeps

(* The call that holds the lock goes on: sets of processes and the queues  *)
(* change, and a call that is done gives the lock back.                    *)
LEMMA DoneFacts ==
    ASSUME PoolInv, NEW s \in Callers, Done(s)
    PROVE  /\ sync'[s] = NoSync
           /\ \A x \in Callers \ {s} : sync'[x] = sync[x]
           /\ sync' \in [Callers -> SyncCall]
           /\ holder' = {}
  BY Records DEF Done, SetSync, PoolInv, TypeOK

(* While s is busy no other call is, and no other has processes.           *)
LEMMA BusyAlone ==
    ASSUME PoolInv, NEW s \in Callers, sync[s].pc \in Busy
    PROVE  /\ holder = {s}
           /\ ~loaded /\ avail = 0
           /\ \A x \in Callers \ {s} :
                 sync[x].pc \notin Busy /\ sync[x].mine = {}
  BY DEF PoolInv, LockInv

LEMMA FreshFacts ==
    ASSUME PoolInv, NEW w \in FreshWorkers
    PROVE  /\ w \in Workers /\ w # NoWorker
           /\ w \notin procs /\ w \notin pool
           /\ \A q \in 1 .. MaxLoads : w \notin queues[q]
           /\ \A c \in Searchers : search[c].worker # w
           /\ \A s \in Callers : w \notin sync[s].mine
<1>1. w \in Workers /\ w # NoWorker /\ w \notin procs /\ w \notin pool
  BY PoolAssumption DEF FreshWorkers, PoolAssumption
<1>2. \A q \in 1 .. MaxLoads : w \notin queues[q]
  BY DEF FreshWorkers, Queued
<1>3. \A c \in Searchers : search[c].worker # w
  BY <1>1 DEF FreshWorkers, Held
<1>4. \A s \in Callers : w \notin sync[s].mine
  BY DEF FreshWorkers, Mine
<1> QED
  BY <1>1, <1>2, <1>3, <1>4

LEMMA LoadSpawnKeeps ==
    ASSUME PoolInv, NEW s \in Callers, LoadSpawn(s)
    PROVE  PoolInv'
<1>1. sync[s].pc = "load" /\ UNCHANGED <<engineOn, search, closing>>
  BY DEF LoadSpawn
<1>2. PICK w \in FreshWorkers :
        LET mine == sync[s].mine \cup {w} IN
          /\ procs' = procs \cup {w}
          /\ IF Cardinality(mine) < PoolSize
             THEN /\ SetSync(s, [sync[s] EXCEPT !.mine = mine])
                  /\ UNCHANGED <<loaded, pool, loads, avail, queues, holder>>
             ELSE /\ pool' = mine
                  /\ loads' = loads + 1
                  /\ avail' = loads + 1
                  /\ queues' = [queues EXCEPT ![loads + 1] = mine]
                  /\ loaded' = TRUE
                  /\ Done(s)
  BY DEF LoadSpawn
<1> DEFINE mine == sync[s].mine \cup {w}
<1>3. sync \in [Callers -> SyncCall] /\ sync[s] \in SyncCall
  BY DEF PoolInv, TypeOK
<1>4. mine \in SUBSET Workers
  BY <1>3, FreshFacts DEF SyncCall
<1>5. /\ mine \subseteq procs'
      /\ \A q \in 1 .. MaxLoads : queues[q] \cap mine = {}
      /\ \A c \in Searchers : search[c].worker \notin mine
      /\ loads < MaxLoads
  BY <1>1, <1>2, FreshFacts DEF PoolInv, LoadInv
<1>6. /\ holder = {s} /\ ~loaded /\ avail = 0
      /\ \A x \in Callers \ {s} : sync[x].pc \notin Busy /\ sync[x].mine = {}
  BY <1>1, BusyAlone DEF Busy
<1>7. procs' = procs \cup {w} /\ procs' \in SUBSET Workers
  BY <1>2, FreshFacts DEF PoolInv, TypeOK
<1>8. CASE Cardinality(mine) < PoolSize
  <2> DEFINE call == [sync[s] EXCEPT !.mine = mine]
  <2>1. call \in SyncCall
    BY <1>3, <1>4 DEF SyncCall
  <2>2. call.pc = "load" /\ call.mine = mine
    BY <1>1, <1>3 DEF SyncCall
  <2>3. /\ sync' = [sync EXCEPT ![s] = call]
        /\ UNCHANGED <<loaded, pool, loads, avail, queues, holder>>
    BY <1>2, <1>8 DEF SetSync
  <2> HIDE DEF call
  <2>4. /\ sync'[s] = call
        /\ \A x \in Callers \ {s} : sync'[x] = sync[x]
        /\ sync' \in [Callers -> SyncCall]
    BY <1>3, <2>1, <2>3
  <2> HIDE DEF mine
  <2>5. TypeOK'
    BY <1>1, <1>7, <2>3, <2>4 DEF PoolInv, TypeOK
  <2>6. LockInv' /\ LoadInv'
    BY <1>1, <1>5, <1>6, <2>2, <2>3, <2>4
       DEF PoolInv, LockInv, LoadInv, Busy
  <2> QED
    BY <1>1, <1>6, <2>3, <2>5, <2>6 DEF PoolInv, PlaceInv, RunInv
<1>9. CASE ~(Cardinality(mine) < PoolSize)
  <2>1. /\ pool' = mine
        /\ loads' = loads + 1
        /\ avail' = loads + 1
        /\ queues' = [queues EXCEPT ![loads + 1] = mine]
        /\ loaded' = TRUE
        /\ Done(s)
    BY <1>2, <1>9
  <2>2. /\ sync'[s] = NoSync
        /\ \A x \in Callers \ {s} : sync'[x] = sync[x]
        /\ sync' \in [Callers -> SyncCall]
        /\ holder' = {}
    BY <2>1, DoneFacts
  <2> HIDE DEF mine
  <2>3. /\ loads \in Nat /\ loads + 1 \in 1 .. MaxLoads
        /\ queues \in [1 .. MaxLoads -> SUBSET Workers]
    BY <1>5, PoolAssumption DEF PoolInv, TypeOK, PoolAssumption
  <2>4. /\ queues'[loads + 1] = mine
        /\ \A q \in 1 .. MaxLoads : q # loads + 1 => queues'[q] = queues[q]
        /\ queues' \in [1 .. MaxLoads -> SUBSET Workers]
    BY <1>4, <2>1, <2>3
  <2>5. TypeOK'
    BY <1>1, <1>4, <1>7, <2>1, <2>2, <2>3, <2>4 DEF PoolInv, TypeOK
  <2>6. LockInv' /\ LoadInv'
    BY <1>6, <2>1, <2>2, <2>3, Records DEF PoolInv, LockInv, LoadInv, Busy
  <2>7. PlaceInv'
    <3>1. \A c \in Searchers :
             /\ search'[c] = search[c]
             /\ search[c].queue \in 1 .. loads =>
                   search[c].queue \in 1 .. loads'
             /\ \A q \in 1 .. MaxLoads : search'[c].worker \notin queues'[q]
      BY <1>1, <1>5, <2>1, <2>3, <2>4 DEF PoolInv, PlaceInv
    <3>2. \A p, q \in 1 .. MaxLoads : p # q => queues'[p] \cap queues'[q] = {}
      BY <1>5, <2>4 DEF PoolInv, PlaceInv
    <3> QED
      BY <1>1, <3>1, <3>2 DEF PoolInv, PlaceInv
  <2> QED
    BY <1>5, <2>1, <2>4, <2>5, <2>6, <2>7 DEF PoolInv, RunInv
<1> QED
  BY <1>8, <1>9

LEMMA LoadFailsKeeps ==
    ASSUME PoolInv, NEW s \in Callers, LoadFails(s)
    PROVE  PoolInv'
<1>1. /\ sync[s].pc = "load"
      /\ UNCHANGED <<engineOn, loaded, pool, loads, avail, queues, procs,
                     search, closing>>
  BY DEF LoadFails
<1>2. sync \in [Callers -> SyncCall] /\ sync[s] \in SyncCall
  BY DEF PoolInv, TypeOK
<1>3. /\ holder = {s} /\ ~loaded /\ avail = 0
      /\ \A x \in Callers \ {s} : sync[x].pc \notin Busy /\ sync[x].mine = {}
  BY <1>1, BusyAlone DEF Busy
<1>4. CASE sync[s].mine = {}
  <2>1. Done(s)
    BY <1>4 DEF LoadFails
  <2> QED
    BY <1>1, <1>3, <2>1, DoneFacts, Records
       DEF PoolInv, TypeOK, LockInv, LoadInv, PlaceInv, RunInv, Busy
<1>5. CASE sync[s].mine # {}
  <2> DEFINE call == [sync[s] EXCEPT !.pc = "undo"]
  <2>1. call \in SyncCall /\ call.pc = "undo"
    BY <1>2 DEF SyncCall
  <2>2. sync' = [sync EXCEPT ![s] = call] /\ holder' = holder
    BY <1>5 DEF LoadFails, SetSync
  <2> HIDE DEF call
  <2>3. /\ sync'[s] = call
        /\ \A x \in Callers \ {s} : sync'[x] = sync[x]
        /\ sync' \in [Callers -> SyncCall]
    BY <1>2, <2>1, <2>2
  <2> QED
    BY <1>1, <1>3, <2>1, <2>2, <2>3
       DEF PoolInv, TypeOK, LockInv, LoadInv, PlaceInv, RunInv, Busy
<1> QED
  BY <1>4, <1>5

LEMMA DrainedKeeps ==
    ASSUME PoolInv, NEW s \in Callers, Drained(s)
    PROVE  PoolInv'
<1>1. /\ sync[s].pc = "drain"
      /\ queues' = [queues EXCEPT ![sync[s].queue] = {}]
      /\ UNCHANGED <<engineOn, loaded, pool, loads, avail, procs, search,
                     closing>>
  BY DEF Drained
<1>2. sync \in [Callers -> SyncCall] /\ sync[s] \in SyncCall
  BY DEF PoolInv, TypeOK
<1>3. /\ holder = {s} /\ ~loaded /\ avail = 0
      /\ \A x \in Callers \ {s} : sync[x].pc \notin Busy /\ sync[x].mine = {}
  BY <1>1, BusyAlone DEF Busy
<1>4. /\ queues' \in [1 .. MaxLoads -> SUBSET Workers]
      /\ \A q \in 1 .. MaxLoads : queues'[q] \subseteq queues[q]
  BY <1>1 DEF PoolInv, TypeOK
<1>5. PlaceInv' /\ RunInv'
  BY <1>1, <1>3, <1>4 DEF PoolInv, PlaceInv, RunInv
<1>6. CASE sync[s].mine = {}
  <2>1. Done(s)
    BY <1>6 DEF Drained
  <2> QED
    BY <1>1, <1>3, <1>4, <1>5, <2>1, DoneFacts, Records
       DEF PoolInv, TypeOK, LockInv, LoadInv, Busy
<1>7. CASE sync[s].mine # {}
  <2> DEFINE call == [sync[s] EXCEPT !.pc = "quit"]
  <2>1. call \in SyncCall /\ call.pc = "quit"
    BY <1>2 DEF SyncCall
  <2>2. sync' = [sync EXCEPT ![s] = call] /\ holder' = holder
    BY <1>7 DEF Drained, SetSync
  <2> HIDE DEF call
  <2>3. /\ sync'[s] = call
        /\ \A x \in Callers \ {s} : sync'[x] = sync[x]
        /\ sync' \in [Callers -> SyncCall]
    BY <1>2, <2>1, <2>2
  <2> QED
    BY <1>1, <1>3, <1>4, <1>5, <2>1, <2>2, <2>3
       DEF PoolInv, TypeOK, LockInv, LoadInv, Busy
<1> QED
  BY <1>6, <1>7

LEMMA QuitOneKeeps ==
    ASSUME PoolInv, NEW s \in Callers, QuitOne(s)
    PROVE  PoolInv'
<1>1. /\ sync[s].pc \in {"undo", "quit"}
      /\ UNCHANGED <<engineOn, loaded, pool, loads, avail, queues, search,
                     closing>>
  BY DEF QuitOne
<1>2. PICK w \in sync[s].mine :
          /\ procs' = procs \ {w}
          /\ IF sync[s].mine = {w} THEN Done(s)
             ELSE /\ SetSync(s, [sync[s] EXCEPT !.mine = @ \ {w}])
                  /\ UNCHANGED holder
  BY DEF QuitOne
<1>3. sync \in [Callers -> SyncCall] /\ sync[s] \in SyncCall
  BY DEF PoolInv, TypeOK
<1>4. /\ holder = {s} /\ ~loaded /\ avail = 0
      /\ \A x \in Callers \ {s} : sync[x].pc \notin Busy /\ sync[x].mine = {}
  BY <1>1, BusyAlone DEF Busy
<1>5. procs' \in SUBSET Workers /\ PlaceInv' /\ RunInv'
  BY <1>1, <1>2, <1>4 DEF PoolInv, TypeOK, PlaceInv, RunInv
<1>6. CASE sync[s].mine = {w}
  <2>1. Done(s)
    BY <1>2, <1>6
  <2> QED
    BY <1>1, <1>4, <1>5, <2>1, DoneFacts, Records
       DEF PoolInv, TypeOK, LockInv, LoadInv, Busy
<1>7. CASE sync[s].mine # {w}
  <2> DEFINE call == [sync[s] EXCEPT !.mine = @ \ {w}]
  <2>1. call \in SyncCall /\ call.pc = sync[s].pc
    BY <1>3 DEF SyncCall
  <2>2. sync' = [sync EXCEPT ![s] = call] /\ holder' = holder
    BY <1>2, <1>7 DEF SetSync
  <2> HIDE DEF call
  <2>3. /\ sync'[s] = call
        /\ \A x \in Callers \ {s} : sync'[x] = sync[x]
        /\ sync' \in [Callers -> SyncCall]
    BY <1>3, <2>1, <2>2
  <2> QED
    BY <1>1, <1>4, <1>5, <2>1, <2>2, <2>3
       DEF PoolInv, TypeOK, LockInv, LoadInv, Busy
<1> QED
  BY <1>6, <1>7

LEMMA ShutdownKeeps ==
    ASSUME PoolInv, Shutdown
    PROVE  PoolInv'
<1>1. closing' = TRUE /\ UNCHANGED <<engineOn, loads, queues, procs, search>>
  BY DEF Shutdown
<1>2. Closer \in Callers
  BY DEF Callers
<1>3. CASE loaded
  <2> DEFINE call == [pc |-> "drain", got |-> {}, mine |-> pool,
                      queue |-> avail]
  <2>1. call \in SyncCall
    BY PoolAssumption DEF SyncCall, PoolInv, TypeOK, PoolAssumption
  <2>2. call.pc = "drain"
    OBVIOUS
  <2>3. /\ loaded' = FALSE /\ avail' = 0 /\ pool' = {} /\ holder' = {Closer}
        /\ sync' = [s \in Callers |-> IF s = Closer THEN call ELSE NoSync]
    BY <1>3 DEF Shutdown
  <2> HIDE DEF call
  <2>4. /\ sync'[Closer] = call
        /\ \A x \in Callers \ {Closer} : sync'[x] = NoSync
        /\ sync' \in [Callers -> SyncCall]
    BY <1>2, <2>1, <2>3, Records
  <2> QED
    BY <1>1, <1>2, <2>2, <2>3, <2>4, Records
       DEF PoolInv, TypeOK, LockInv, LoadInv, PlaceInv, RunInv, Busy
<1>4. CASE ~loaded
  <2>1. /\ holder' = {} /\ sync' = [s \in Callers |-> NoSync]
        /\ UNCHANGED <<loaded, avail, pool>>
    BY <1>4 DEF Shutdown
  <2>2. /\ \A x \in Callers : sync'[x] = NoSync
        /\ sync' \in [Callers -> SyncCall]
    BY <2>1, Records
  <2> QED
    BY <1>1, <2>1, <2>2, Records
       DEF PoolInv, TypeOK, LockInv, LoadInv, PlaceInv, RunInv, Busy
<1> QED
  BY <1>3, <1>4

----------------------------------------------------------------------------
(* choose and _retire                                                      *)

LEMMA ChooseBeginFacts ==
    ASSUME PoolInv, NEW c \in Searchers, ChooseBegin(c)
    PROVE  \E w \in queues[avail] :
              /\ avail = loads /\ avail \in 1 .. MaxLoads
              /\ w \in Workers /\ w # NoWorker
              /\ search'[c].pc = "play" /\ search'[c].worker = w
              /\ search'[c].queue = avail
              /\ \A x \in Searchers \ {c} : search'[x] = search[x]
              /\ search' \in [Searchers -> SearchCall]
              /\ queues' \in [1 .. MaxLoads -> SUBSET Workers]
              /\ queues'[avail] = queues[avail] \ {w}
              /\ \A q \in 1 .. MaxLoads : q # avail => queues'[q] = queues[q]
<1>1. PICK w \in queues[avail] :
          /\ queues' = [queues EXCEPT ![avail] = @ \ {w}]
          /\ SetSearch(c, [pc |-> "play", worker |-> w, queue |-> avail])
  BY DEF ChooseBegin
<1>2. /\ avail = loads /\ avail \in 1 .. MaxLoads
      /\ search \in [Searchers -> SearchCall]
      /\ queues \in [1 .. MaxLoads -> SUBSET Workers]
      /\ w \in Workers /\ w # NoWorker
  BY <1>1, PoolAssumption DEF ChooseBegin, PoolInv, TypeOK, PoolAssumption
<1> DEFINE call == [pc |-> "play", worker |-> w, queue |-> avail]
<1>3. call \in SearchCall /\ call.pc = "play" /\ call.worker = w
      /\ call.queue = avail
  BY <1>2 DEF SearchCall
<1>4. search' = [search EXCEPT ![c] = call]
  BY <1>1 DEF SetSearch
<1> HIDE DEF call
<1>5. /\ search'[c] = call
      /\ \A x \in Searchers \ {c} : search'[x] = search[x]
      /\ search' \in [Searchers -> SearchCall]
  BY <1>2, <1>3, <1>4
<1> QED
  BY <1>1, <1>2, <1>3, <1>5

LEMMA ChooseBeginKeeps ==
    ASSUME PoolInv, NEW c \in Searchers, ChooseBegin(c)
    PROVE  PoolInv'
<1>1. /\ search[c].pc = "none" /\ loaded /\ avail # 0
      /\ UNCHANGED <<engineOn, loaded, pool, loads, avail, procs, holder,
                     sync, closing>>
  BY DEF ChooseBegin
<1>2. PICK w \in queues[avail] :
          /\ avail = loads /\ avail \in 1 .. MaxLoads
          /\ w \in Workers /\ w # NoWorker
          /\ search'[c].pc = "play" /\ search'[c].worker = w
          /\ search'[c].queue = avail
          /\ \A x \in Searchers \ {c} : search'[x] = search[x]
          /\ search' \in [Searchers -> SearchCall]
          /\ queues' \in [1 .. MaxLoads -> SUBSET Workers]
          /\ queues'[avail] = queues[avail] \ {w}
          /\ \A q \in 1 .. MaxLoads : q # avail => queues'[q] = queues[q]
  BY ChooseBeginFacts
<1>3. \A q \in 1 .. MaxLoads :
         w \notin queues'[q] /\ queues'[q] \subseteq queues[q]
  BY <1>2 DEF PoolInv, PlaceInv
<1>4. \A s \in Callers : sync[s].pc \notin Busy
  BY <1>1 DEF PoolInv, LockInv
<1>5. TypeOK' /\ LockInv' /\ LoadInv' /\ RunInv'
  BY <1>1, <1>2, <1>3, <1>4
     DEF PoolInv, TypeOK, LockInv, LoadInv, RunInv, Busy
<1>6. PlaceInv'
  <2>1. \A x \in Searchers \ {c} :
           search[x].worker # w /\ (search[x].worker # NoWorker
                                      <=> search[x].pc \in {"play", "retire"})
    BY <1>2 DEF PoolInv, PlaceInv
  <2>2. \A x \in Searchers :
          /\ search'[x].worker # NoWorker
                <=> search'[x].pc \in {"play", "retire"}
          /\ search'[x].pc # "none" => search'[x].queue \in 1 .. loads'
    BY <1>1, <1>2 DEF PoolInv, PlaceInv
  <2>3. \A x \in Searchers :
          \A q \in 1 .. MaxLoads : search'[x].worker \notin queues'[q]
    BY <1>2, <1>3 DEF PoolInv, PlaceInv
  <2>4. \A p, q \in 1 .. MaxLoads : p # q => queues'[p] \cap queues'[q] = {}
    BY <1>3 DEF PoolInv, PlaceInv
  <2>5. \A x, y \in Searchers :
          x # y /\ search'[x].worker # NoWorker
              => search'[x].worker # search'[y].worker
    BY <1>2, <2>1 DEF PoolInv, PlaceInv
  <2> QED
    BY <2>2, <2>3, <2>4, <2>5 DEF PlaceInv
<1> QED
  BY <1>5, <1>6 DEF PoolInv

(* A search is over, or has given up its worker.                           *)
LEMMA NoSearchFacts ==
    ASSUME PoolInv, NEW c \in Searchers, SetSearch(c, NoSearch)
    PROVE  /\ search'[c] = NoSearch
           /\ \A x \in Searchers \ {c} : search'[x] = search[x]
           /\ search' \in [Searchers -> SearchCall]
  BY Records DEF SetSearch, PoolInv, TypeOK

LEMMA PutBackKeeps ==
    ASSUME PoolInv, NEW c \in Searchers, PutBack(c)
    PROVE  PoolInv'
<1> DEFINE w == search[c].worker
           n == search[c].queue
<1>1. /\ search[c].pc = "play" /\ w \in procs /\ loaded
      /\ queues' = [queues EXCEPT ![n] = @ \cup {w}]
      /\ SetSearch(c, NoSearch)
      /\ UNCHANGED <<engineOn, loaded, pool, loads, avail, procs, holder,
                     sync, closing>>
  BY DEF PutBack
<1>2. /\ w \in Workers /\ w # NoWorker /\ n \in 1 .. MaxLoads
      /\ queues \in [1 .. MaxLoads -> SUBSET Workers]
  BY <1>1, PoolAssumption DEF PoolInv, TypeOK, PlaceInv, PoolAssumption
<1>3. /\ \A q \in 1 .. MaxLoads : w \notin queues[q]
      /\ \A x \in Searchers \ {c} : search[x].worker # w
  BY <1>1, <1>2 DEF PoolInv, PlaceInv
<1>4. /\ search'[c] = NoSearch
      /\ \A x \in Searchers \ {c} : search'[x] = search[x]
      /\ search' \in [Searchers -> SearchCall]
  BY <1>1, NoSearchFacts
<1> HIDE DEF w, n
<1>5. /\ queues' \in [1 .. MaxLoads -> SUBSET Workers]
      /\ queues'[n] = queues[n] \cup {w}
      /\ \A q \in 1 .. MaxLoads : q # n => queues'[q] = queues[q]
  BY <1>1, <1>2
<1>6. \A s \in Callers : sync[s].pc \notin Busy
  BY <1>1 DEF PoolInv, LockInv
<1>7. avail # 0 => avail \in 1 .. MaxLoads
  BY PoolAssumption DEF PoolInv, TypeOK, PoolAssumption
<1>8. TypeOK' /\ LockInv' /\ LoadInv' /\ RunInv'
  BY <1>1, <1>4, <1>5, <1>6, <1>7
     DEF PoolInv, TypeOK, LockInv, LoadInv, RunInv, Busy
<1>9. PlaceInv'
  <2>1. \A x \in Searchers :
          /\ search'[x].worker # NoWorker
                <=> search'[x].pc \in {"play", "retire"}
          /\ search'[x].pc # "none" => search'[x].queue \in 1 .. loads'
    BY <1>1, <1>4, Records DEF PoolInv, PlaceInv
  <2>2. \A x \in Searchers :
          \A q \in 1 .. MaxLoads : search'[x].worker \notin queues'[q]
    BY <1>2, <1>3, <1>4, <1>5, Records, PoolAssumption
       DEF PoolInv, PlaceInv, PoolAssumption
  <2>3. \A p, q \in 1 .. MaxLoads : p # q => queues'[p] \cap queues'[q] = {}
    BY <1>3, <1>5 DEF PoolInv, PlaceInv
  <2>4. \A x, y \in Searchers :
          x # y /\ search'[x].worker # NoWorker
              => search'[x].worker # search'[y].worker
    BY <1>4, Records DEF PoolInv, PlaceInv
  <2> QED
    BY <2>1, <2>2, <2>3, <2>4 DEF PlaceInv
<1> QED
  BY <1>8, <1>9 DEF PoolInv

LEMMA RetireBeginFacts ==
    ASSUME PoolInv, NEW c \in Searchers, RetireBegin(c)
    PROVE  /\ search'[c].pc = "retire"
           /\ \A x \in Searchers :
                 /\ search'[x].worker = search[x].worker
                 /\ search'[x].queue = search[x].queue
           /\ \A x \in Searchers \ {c} : search'[x] = search[x]
           /\ search' \in [Searchers -> SearchCall]
<1> DEFINE call == [search[c] EXCEPT !.pc = "retire"]
<1>1. search \in [Searchers -> SearchCall] /\ search[c] \in SearchCall
  BY DEF PoolInv, TypeOK
<1>2. /\ call \in SearchCall /\ call.pc = "retire"
      /\ call.worker = search[c].worker /\ call.queue = search[c].queue
  BY <1>1 DEF SearchCall
<1>3. search' = [search EXCEPT ![c] = call]
  BY DEF RetireBegin, SetSearch
<1> HIDE DEF call
<1> QED
  BY <1>1, <1>2, <1>3

LEMMA RetireBeginKeeps ==
    ASSUME PoolInv, NEW c \in Searchers, RetireBegin(c)
    PROVE  PoolInv'
<1>1. /\ search[c].pc = "play" /\ pool' = pool \ {search[c].worker}
      /\ UNCHANGED <<engineOn, loaded, loads, avail, queues, procs, holder,
                     sync, closing>>
  BY DEF RetireBegin
<1> QED
  BY <1>1, RetireBeginFacts
     DEF PoolInv, TypeOK, LockInv, LoadInv, PlaceInv, RunInv, Busy

LEMMA RetireQuitFacts ==
    ASSUME PoolInv, NEW c \in Searchers, RetireQuit(c)
    PROVE  /\ search'[c] \in SearchCall
           /\ search'[c].worker = NoWorker
           /\ search'[c].pc = IF loaded THEN "spawn" ELSE "none"
           /\ search'[c].pc # "none" => search'[c].queue = search[c].queue
           /\ \A x \in Searchers \ {c} : search'[x] = search[x]
           /\ search' \in [Searchers -> SearchCall]
<1>1. SetSearch(c, IF loaded THEN [search[c] EXCEPT !.pc = "spawn",
                                                    !.worker = NoWorker]
                   ELSE NoSearch)
  BY DEF RetireQuit
<1>2. search \in [Searchers -> SearchCall] /\ search[c] \in SearchCall
  BY DEF PoolInv, TypeOK
<1>3. CASE loaded
  <2> DEFINE call == [search[c] EXCEPT !.pc = "spawn", !.worker = NoWorker]
  <2>1. /\ call \in SearchCall /\ call.pc = "spawn"
        /\ call.worker = NoWorker /\ call.queue = search[c].queue
    BY <1>2 DEF SearchCall
  <2>2. search' = [search EXCEPT ![c] = call]
    BY <1>1, <1>3 DEF SetSearch
  <2> HIDE DEF call
  <2> QED
    BY <1>2, <1>3, <2>1, <2>2
<1>4. CASE ~loaded
  <2>1. SetSearch(c, NoSearch)
    BY <1>1, <1>4
  <2> QED
    BY <1>4, <2>1, NoSearchFacts, Records
<1> QED
  BY <1>3, <1>4

LEMMA RetireQuitKeeps ==
    ASSUME PoolInv, NEW c \in Searchers, RetireQuit(c)
    PROVE  PoolInv'
<1>1. /\ search[c].pc = "retire" /\ procs' = procs \ {search[c].worker}
      /\ UNCHANGED <<engineOn, loaded, pool, loads, avail, queues, holder,
                     sync, closing>>
  BY DEF RetireQuit
<1>2. /\ search \in [Searchers -> SearchCall] /\ search[c] \in SearchCall
      /\ procs' \in SUBSET Workers
  BY <1>1 DEF PoolInv, TypeOK
<1>3. /\ search'[c] \in SearchCall
      /\ search'[c].worker = NoWorker
      /\ search'[c].pc \in {"none", "spawn"}
      /\ search'[c].pc # "none" => search'[c].queue = search[c].queue
      /\ \A x \in Searchers \ {c} : search'[x] = search[x]
      /\ search' \in [Searchers -> SearchCall]
  BY RetireQuitFacts
<1>4. \A q \in 1 .. MaxLoads : search[c].worker \notin queues[q]
  BY DEF PoolInv, PlaceInv
<1>5. \A s \in Callers : sync[s].pc = "load" =>
         search[c].worker \notin sync[s].mine
  BY DEF PoolInv, LoadInv
<1>6. \A x \in Searchers :
         search'[x].worker = search[x].worker \/ search'[x].worker = NoWorker
  BY <1>3
<1>7. /\ \A q \in 1 .. MaxLoads : NoWorker \notin queues[q]
      /\ \A s \in Callers : NoWorker \notin sync[s].mine
  BY PoolAssumption DEF PoolInv, TypeOK, SyncCall, PoolAssumption
<1>8. avail # 0 => avail \in 1 .. MaxLoads
  BY PoolAssumption DEF PoolInv, TypeOK, PoolAssumption
<1>9. TypeOK' /\ LockInv'
  BY <1>1, <1>2, <1>3 DEF PoolInv, TypeOK, LockInv
<1>10. LoadInv' /\ RunInv'
  BY <1>1, <1>4, <1>5, <1>6, <1>7, <1>8 DEF PoolInv, LoadInv, RunInv
<1>11. PlaceInv'
  BY <1>1, <1>3, <1>6, <1>7 DEF PoolInv, PlaceInv
<1> QED
  BY <1>9, <1>10, <1>11 DEF PoolInv

LEMMA RetireSpawnKeeps ==
    ASSUME PoolInv, NEW c \in Searchers, RetireSpawn(c)
    PROVE  PoolInv'
<1> DEFINE n == search[c].queue
<1>1. /\ search[c].pc = "spawn" /\ SetSearch(c, NoSearch)
      /\ UNCHANGED <<engineOn, loaded, loads, avail, holder, sync, closing>>
  BY DEF RetireSpawn
<1>2. PICK w \in FreshWorkers :
          /\ procs' = procs \cup {w}
          /\ pool' = pool \cup {w}
          /\ queues' = [queues EXCEPT ![n] = @ \cup {w}]
  BY DEF RetireSpawn
<1>3. /\ w \in Workers /\ w # NoWorker /\ w \notin procs
      /\ \A q \in 1 .. MaxLoads : w \notin queues[q]
      /\ \A x \in Searchers : search[x].worker # w
      /\ \A s \in Callers : w \notin sync[s].mine
  BY FreshFacts
<1>4. /\ n \in 1 .. MaxLoads
      /\ queues \in [1 .. MaxLoads -> SUBSET Workers]
  BY <1>1, PoolAssumption DEF PoolInv, TypeOK, PlaceInv, PoolAssumption
<1>5. /\ search'[c] = NoSearch
      /\ \A x \in Searchers \ {c} : search'[x] = search[x]
      /\ search' \in [Searchers -> SearchCall]
  BY <1>1, NoSearchFacts
<1> HIDE DEF n
<1>6. /\ queues' \in [1 .. MaxLoads -> SUBSET Workers]
      /\ queues'[n] = queues[n] \cup {w}
      /\ \A q \in 1 .. MaxLoads : q # n => queues'[q] = queues[q]
  BY <1>2, <1>3, <1>4
<1>7. \A s \in Callers : NoWorker \notin sync[s].mine
  BY PoolAssumption DEF PoolInv, TypeOK, SyncCall, PoolAssumption
<1>8. avail # 0 => avail \in 1 .. MaxLoads
  BY PoolAssumption DEF PoolInv, TypeOK, PoolAssumption
<1>9. TypeOK' /\ LockInv' /\ RunInv'
  BY <1>1, <1>2, <1>3, <1>5, <1>6, <1>8
     DEF PoolInv, TypeOK, LockInv, RunInv
<1>10. LoadInv'
  BY <1>1, <1>2, <1>3, <1>5, <1>6, <1>7, Records DEF PoolInv, LoadInv
<1>11. PlaceInv'
  <2>1. \A x \in Searchers :
          /\ search'[x].worker # NoWorker
                <=> search'[x].pc \in {"play", "retire"}
          /\ search'[x].pc # "none" => search'[x].queue \in 1 .. loads'
    BY <1>1, <1>5, Records DEF PoolInv, PlaceInv
  <2>2. \A x \in Searchers :
          \A q \in 1 .. MaxLoads : search'[x].worker \notin queues'[q]
    <3>1. \A x \in Searchers : search'[x].worker # w
      BY <1>3, <1>5, Records
    <3>2. \A q \in 1 .. MaxLoads : NoWorker \notin queues[q]
      BY <1>4, PoolAssumption DEF PoolAssumption
    <3> QED
      BY <1>5, <1>6, <3>1, <3>2, Records DEF PoolInv, PlaceInv
  <2>3. \A p, q \in 1 .. MaxLoads : p # q => queues'[p] \cap queues'[q] = {}
    BY <1>3, <1>6 DEF PoolInv, PlaceInv
  <2>4. \A x, y \in Searchers :
          x # y /\ search'[x].worker # NoWorker
              => search'[x].worker # search'[y].worker
    BY <1>5, Records DEF PoolInv, PlaceInv
  <2> QED
    BY <2>1, <2>2, <2>3, <2>4 DEF PlaceInv
<1> QED
  BY <1>9, <1>10, <1>11 DEF PoolInv

LEMMA RetireSpawnFailsKeeps ==
    ASSUME PoolInv, NEW c \in Searchers, RetireSpawnFails(c)
    PROVE  PoolInv'
<1>1. /\ search[c].pc = "spawn" /\ SetSearch(c, NoSearch)
      /\ UNCHANGED <<engineOn, loaded, pool, loads, avail, queues, procs,
                     holder, sync, closing>>
  BY DEF RetireSpawnFails
<1>2. /\ search'[c] = NoSearch
      /\ \A x \in Searchers \ {c} : search'[x] = search[x]
      /\ search' \in [Searchers -> SearchCall]
      /\ search[c].worker = NoWorker
  BY <1>1, NoSearchFacts DEF PoolInv, PlaceInv
<1>3. \A x \in Searchers : search'[x].worker = search[x].worker
  BY <1>2, Records
<1> QED
  BY <1>1, <1>2, <1>3, Records
     DEF PoolInv, TypeOK, LockInv, LoadInv, PlaceInv, RunInv, Busy

----------------------------------------------------------------------------
LEMMA StepPool == PoolInv /\ [Next]_vars => PoolInv'
<1> SUFFICES ASSUME PoolInv, [Next]_vars PROVE PoolInv'
  OBVIOUS
<1>1. ASSUME NEW s \in Syncs, SyncBegin(s) PROVE PoolInv'
  BY <1>1, SyncBeginKeeps
<1>2. ASSUME NEW s \in Callers, SyncStep(s) PROVE PoolInv'
  BY <1>2, SyncApplyKeeps, SyncAcquireKeeps, LoadSpawnKeeps, LoadFailsKeeps,
     DrainedKeeps, QuitOneKeeps DEF SyncStep
<1>3. ASSUME NEW c \in Searchers, ChooseBegin(c) \/ SearchStep(c)
      PROVE  PoolInv'
  BY <1>3, ChooseBeginKeeps, PutBackKeeps, RetireBeginKeeps, RetireQuitKeeps,
     RetireSpawnKeeps, RetireSpawnFailsKeeps DEF SearchStep
<1>4. CASE Shutdown
  BY <1>4, ShutdownKeeps
<1>5. CASE UNCHANGED vars
  BY <1>5
     DEF vars, PoolInv, TypeOK, LockInv, LoadInv, PlaceInv, RunInv
<1> QED
  BY <1>1, <1>2, <1>3, <1>4, <1>5 DEF Next

(* The inductive invariant of the lock, the loads and the places of the    *)
(* workers holds in every reachable state.                                 *)
THEOREM PoolInvariant == Spec => []PoolInv
  BY InitPool, StepPool, PTL DEF Spec

(* The variables of the pool have their types in every reachable state,    *)
(* whatever the searches, the syncs and a shutdown do.                     *)
THEOREM TypeCorrect == Spec => []TypeOK
<1>1. PoolInv => TypeOK
  BY DEF PoolInv
<1> QED
  BY <1>1, PoolInvariant, PTL

(* choose never gets a worker that another search or _retire still talks   *)
(* to.                                                                     *)
THEOREM OneUser == Spec => []OneUserPerWorker
<1>1. PoolInv => OneUserPerWorker
  BY DEF PoolInv, PlaceInv, OneUserPerWorker, Playing, Retiring
<1> QED
  BY <1>1, PoolInvariant, PTL

(* choose never gets a worker that is dead or that an unload will quit.    *)
THEOREM AvailableIsRunning == Spec => []AvailableRuns
<1>1. PoolInv => AvailableRuns
  BY DEF PoolInv, LockInv, RunInv, AvailableRuns
<1> QED
  BY <1>1, PoolInvariant, PTL

----------------------------------------------------------------------------
(* The first pool.  What a step may make of the call of s: a load that     *)
(* begins has nothing yet, and only LoadSpawn gives it more.               *)
LEMMA CallSteps ==
    ASSUME PoolInv, NEW s \in Callers, SyncStep(s)
    PROVE  /\ \A x \in Callers \ {s} : sync'[x] = sync[x]
           /\ \/ sync'[s].pc = "none" /\ sync'[s].mine = {}
              \/ sync[s].pc = "apply" /\ sync'[s].pc = "lock"
              \/ /\ sync[s].pc \in {"apply", "lock"}
                 /\ sync'[s].pc \in {"load", "drain"}
                 /\ sync'[s].pc = "load" => sync'[s].mine = {}
              \/ LoadSpawn(s) /\ sync'[s].pc = "load"
              \/ sync[s].pc = "load" /\ sync'[s].pc = "undo"
              \/ sync[s].pc = "drain" /\ sync'[s].pc = "quit"
              \/ sync[s].pc \in {"undo", "quit"} /\ sync'[s].pc = sync[s].pc
<1>1. sync \in [Callers -> SyncCall] /\ sync[s] \in SyncCall
  BY DEF PoolInv, TypeOK
<1> DEFINE load == [NoSync EXCEPT !.pc = "load"]
           lock == [NoSync EXCEPT !.pc = "lock"]
<1>2. load.pc = "load" /\ load.mine = {} /\ lock.pc = "lock"
  BY DEF NoSync
<1> HIDE DEF load, lock
<1>3. ASSUME UnderLockCase(s), sync[s].pc \in {"apply", "lock"}
      PROVE  /\ \A x \in Callers \ {s} : sync'[x] = sync[x]
             /\ \/ sync'[s].pc = "none" /\ sync'[s].mine = {}
                \/ sync'[s].pc \in {"load", "drain"}
                   /\ (sync'[s].pc = "load" => sync'[s].mine = {})
  <2>1. CASE sync' = [sync EXCEPT ![s] = load]
    BY <1>1, <1>2, <2>1
  <2>2. CASE BeginUnload(s)
    <3>1. sync'[s] = [pc |-> "drain", got |-> {}, mine |-> pool,
                      queue |-> avail]
      BY <1>1, <2>2 DEF BeginUnload, SetSync
    <3>2. sync'[s].pc = "drain"
      BY <3>1
    <3> QED
      BY <1>1, <2>2, <3>2 DEF BeginUnload, SetSync
  <2>3. CASE SetSync(s, NoSync)
    BY <1>1, <2>3, Records DEF SetSync
  <2> QED
    BY <1>3, <2>1, <2>2, <2>3 DEF UnderLockCase, SetSync, load
<1>4. CASE SyncApply(s)
  <2>1. CASE LockIsFree
    <3>1. UnderLock(s, sync[s].got) /\ sync[s].pc = "apply"
      BY <1>4, <2>1 DEF SyncApply
    <3>2. UnderLockCase(s)
      BY <3>1 DEF UnderLock, UnderLockCase, BeginLoad, NothingToDo
    <3> QED
      BY <1>3, <3>1, <3>2
  <2>2. CASE ~LockIsFree
    <3>1. sync' = [sync EXCEPT ![s] = lock] /\ sync[s].pc = "apply"
      BY <1>4, <2>2 DEF SyncApply, SetSync, lock
    <3> QED
      BY <1>1, <1>2, <3>1
  <2> QED
    BY <2>1, <2>2
<1>5. CASE SyncAcquire(s)
  <2>1. UnderLock(s, engineOn) /\ sync[s].pc = "lock"
    BY <1>5 DEF SyncAcquire
  <2>2. UnderLockCase(s)
    BY <2>1 DEF UnderLock, UnderLockCase, BeginLoad, NothingToDo
  <2> QED
    BY <1>3, <2>1, <2>2
<1>6. ASSUME Done(s)
      PROVE  /\ \A x \in Callers \ {s} : sync'[x] = sync[x]
             /\ sync'[s].pc = "none" /\ sync'[s].mine = {}
  BY <1>6, DoneFacts, Records
<1>7. CASE LoadSpawn(s)
  <2>1. PICK m : \/ SetSync(s, [sync[s] EXCEPT !.mine = m])
                 \/ Done(s)
    BY <1>7 DEF LoadSpawn
  <2>2. CASE SetSync(s, [sync[s] EXCEPT !.mine = m])
    BY <1>1, <1>7, <2>2 DEF SetSync, SyncCall, LoadSpawn
  <2> QED
    BY <1>6, <2>1, <2>2
<1>8. CASE LoadFails(s) \/ Drained(s) \/ QuitOne(s)
  <2>1. CASE Done(s)
    BY <1>6, <2>1
  <2>2. CASE SetSync(s, [sync[s] EXCEPT !.pc = "undo"]) /\ sync[s].pc = "load"
    BY <1>1, <2>2 DEF SetSync, SyncCall
  <2>3. CASE SetSync(s, [sync[s] EXCEPT !.pc = "quit"]) /\ sync[s].pc = "drain"
    BY <1>1, <2>3 DEF SetSync, SyncCall
  <2>4. ASSUME NEW w \in sync[s].mine, sync[s].pc \in {"undo", "quit"},
               SetSync(s, [sync[s] EXCEPT !.mine = @ \ {w}])
        PROVE  /\ \A x \in Callers \ {s} : sync'[x] = sync[x]
               /\ sync'[s].pc = sync[s].pc
    BY <1>1, <2>4 DEF SetSync, SyncCall
  <2> QED
    BY <1>8, <2>1, <2>2, <2>3, <2>4 DEF LoadFails, Drained, QuitOne
<1> QED
  BY <1>4, <1>5, <1>7, <1>8 DEF SyncStep

(* A start of a process leaves the load it belongs to within its size, or  *)
(* ends it with a pool of that size.                                       *)
LEMMA LoadSpawnFacts ==
    ASSUME PoolInv, SizeInv, NEW s \in Callers, LoadSpawn(s)
    PROVE  \E w \in FreshWorkers :
              LET mine == sync[s].mine \cup {w} IN
              /\ procs' = procs \cup {w}
              /\ IsFiniteSet(mine) /\ Cardinality(mine) <= PoolSize
              /\ \/ /\ sync'[s].mine = mine
                    /\ Cardinality(mine) < PoolSize
                    /\ UNCHANGED <<loaded, pool, loads, avail, queues>>
                 \/ /\ pool' = mine /\ queues'[loads + 1] = mine
                    /\ loads' = loads + 1 /\ avail' = loads + 1
                    /\ sync'[s].pc = "none"
<1>1. PICK w \in FreshWorkers :
        LET mine == sync[s].mine \cup {w} IN
          /\ procs' = procs \cup {w}
          /\ IF Cardinality(mine) < PoolSize
             THEN /\ SetSync(s, [sync[s] EXCEPT !.mine = mine])
                  /\ UNCHANGED <<loaded, pool, loads, avail, queues, holder>>
             ELSE /\ pool' = mine
                  /\ loads' = loads + 1
                  /\ avail' = loads + 1
                  /\ queues' = [queues EXCEPT ![loads + 1] = mine]
                  /\ loaded' = TRUE
                  /\ Done(s)
  BY DEF LoadSpawn
<1> DEFINE mine == sync[s].mine \cup {w}
<1>2. /\ sync \in [Callers -> SyncCall] /\ sync[s] \in SyncCall
      /\ queues \in [1 .. MaxLoads -> SUBSET Workers]
      /\ loads \in Nat /\ sync[s].pc = "load"
      /\ loads + 1 \in 1 .. MaxLoads
  BY PoolAssumption DEF LoadSpawn, PoolInv, TypeOK, LoadInv, PoolAssumption
<1>3. IsFiniteSet(sync[s].mine) /\ Cardinality(sync[s].mine) < PoolSize
  BY <1>2 DEF SizeInv
<1>4. w \notin sync[s].mine
  BY FreshFacts
<1>5. /\ IsFiniteSet(mine)
      /\ Cardinality(mine) = Cardinality(sync[s].mine) + 1
  BY <1>3, <1>4, FS_AddElement
<1>6. Cardinality(mine) <= PoolSize
  BY <1>3, <1>5, FS_CardinalityType, PoolAssumption DEF PoolAssumption
<1>7. CASE Cardinality(mine) < PoolSize
  <2>1. /\ sync' = [sync EXCEPT ![s] = [sync[s] EXCEPT !.mine = mine]]
        /\ UNCHANGED <<loaded, pool, loads, avail, queues, holder>>
    BY <1>1, <1>7 DEF SetSync
  <2>2. sync'[s].mine = mine
    BY <1>2, <2>1 DEF SyncCall
  <2> QED
    BY <1>1, <1>5, <1>6, <1>7, <2>1, <2>2
<1>8. CASE ~(Cardinality(mine) < PoolSize)
  <2>1. /\ pool' = mine /\ loads' = loads + 1 /\ avail' = loads + 1
        /\ queues' = [queues EXCEPT ![loads + 1] = mine]
        /\ Done(s)
    BY <1>1, <1>8
  <2>2. queues'[loads + 1] = mine
    BY <1>2, <2>1
  <2>3. sync'[s].pc = "none"
    BY <2>1, DoneFacts, Records
  <2> QED
    BY <1>1, <1>5, <1>6, <2>1, <2>2, <2>3
<1> QED
  BY <1>7, <1>8

(* A step of a call other than the start of a process starts none, and     *)
(* what the call had to quit it quits or keeps.                            *)
LEMMA MineSteps ==
    ASSUME PoolInv, NEW s \in Callers, SyncStep(s), ~LoadSpawn(s)
    PROVE  /\ procs' \subseteq procs
           /\ \A w \in sync[s].mine : w \in sync'[s].mine \/ w \notin procs'
<1>1. sync \in [Callers -> SyncCall] /\ sync[s] \in SyncCall
  BY DEF PoolInv, TypeOK
<1>2. CASE SyncApply(s) \/ SyncAcquire(s)
  <2>1. sync[s].mine = {} /\ procs' = procs
    BY <1>2 DEF SyncApply, SyncAcquire, UnderLock, PoolInv, LockInv, Busy
  <2> QED
    BY <2>1
<1>3. CASE LoadFails(s)
  <2>1. procs' = procs
    BY <1>3 DEF LoadFails
  <2>2. CASE sync[s].mine # {}
    <3>1. sync' = [sync EXCEPT ![s] = [sync[s] EXCEPT !.pc = "undo"]]
      BY <1>3, <2>2 DEF LoadFails, SetSync
    <3>2. sync'[s].mine = sync[s].mine
      BY <1>1, <3>1 DEF SyncCall
    <3> QED
      BY <2>1, <3>2
  <2> QED
    BY <2>1, <2>2
<1>4. CASE Drained(s)
  <2>1. procs' = procs
    BY <1>4 DEF Drained
  <2>2. CASE sync[s].mine # {}
    <3>1. sync' = [sync EXCEPT ![s] = [sync[s] EXCEPT !.pc = "quit"]]
      BY <1>4, <2>2 DEF Drained, SetSync
    <3>2. sync'[s].mine = sync[s].mine
      BY <1>1, <3>1 DEF SyncCall
    <3> QED
      BY <2>1, <3>2
  <2> QED
    BY <2>1, <2>2
<1>5. CASE QuitOne(s)
  <2>1. PICK w \in sync[s].mine :
          /\ procs' = procs \ {w}
          /\ \/ sync[s].mine = {w}
             \/ sync' = [sync EXCEPT ![s] = [sync[s] EXCEPT !.mine = @ \ {w}]]
    BY <1>5 DEF QuitOne, SetSync
  <2>2. CASE sync[s].mine = {w}
    BY <2>1, <2>2
  <2>3. CASE sync' = [sync EXCEPT ![s] = [sync[s] EXCEPT !.mine = @ \ {w}]]
    <3>1. sync'[s].mine = sync[s].mine \ {w}
      BY <1>1, <2>3 DEF SyncCall
    <3> QED
      BY <2>1, <3>1
  <2> QED
    BY <2>1, <2>2, <2>3
<1> QED
  BY <1>2, <1>3, <1>4, <1>5 DEF SyncStep

LEMMA SizeStep ==
    ASSUME PoolInv, SizeInv, [Next]_vars
    PROVE  SizeInv'
<1>1. ASSUME NEW s \in Callers, SyncStep(s) PROVE SizeInv'
  <2>1. IsFiniteSet({}) /\ Cardinality({}) < PoolSize
    BY FS_EmptySet, PoolAssumption DEF PoolAssumption
  <2>2. \A x \in Callers \ {s} : sync'[x] = sync[x]
    BY <1>1, CallSteps
  <2>3. CASE LoadSpawn(s) /\ sync'[s].pc = "load"
    BY <2>2, <2>3, LoadSpawnFacts DEF SizeInv
  <2>4. CASE ~(LoadSpawn(s) /\ sync'[s].pc = "load")
    BY <1>1, <2>1, <2>2, <2>4, CallSteps DEF SizeInv
  <2> QED
    BY <2>3, <2>4
<1>2. ASSUME NEW s \in Syncs, SyncBegin(s) PROVE SizeInv'
  <2> PICK got : sync' = [sync EXCEPT ![s] =
                            [NoSync EXCEPT !.pc = "apply", !.got = got]]
    BY <1>2 DEF SyncBegin, SetSync
  <2> DEFINE call == [NoSync EXCEPT !.pc = "apply", !.got = got]
  <2>1. call.pc = "apply"
    BY DEF NoSync
  <2> HIDE DEF call
  <2>2. /\ sync'[s].pc = "apply"
        /\ \A x \in Callers \ {s} : sync'[x] = sync[x]
    BY <2>1 DEF PoolInv, TypeOK, Callers, call
  <2> QED
    BY <2>2 DEF SizeInv
<1>3. CASE Shutdown
  <2>1. \A x \in Callers : sync'[x].pc # "load"
    BY <1>3, Records DEF Shutdown
  <2> QED
    BY <2>1 DEF SizeInv
<1>4. CASE UNCHANGED sync
  BY <1>4 DEF SizeInv
<1>5. ASSUME NEW c \in Searchers, ChooseBegin(c) \/ SearchStep(c)
      PROVE  UNCHANGED sync
  BY <1>5 DEF ChooseBegin, SearchStep, PutBack, RetireBegin, RetireQuit,
              RetireSpawn, RetireSpawnFails
<1> QED
  BY <1>1, <1>2, <1>3, <1>4, <1>5 DEF Next, vars

LEMMA EmptyStep ==
    ASSUME PoolInv, SizeInv, EmptyInv, [Next]_vars
    PROVE  EmptyInv'
<1> DEFINE Stopping == \A s \in Callers : sync[s].pc \in {"none", "drain", "quit"}
<1>1. ASSUME NEW s \in Callers, SyncStep(s) PROVE EmptyInv'
  <2>1. closing' = closing /\ search' = search
    BY <1>1 DEF SyncStep, SyncApply, SyncAcquire, UnderLock, LoadSpawn,
                LoadFails, Drained, QuitOne
  <2>2. closing => Stopping'
    BY <1>1, CallSteps DEF EmptyInv, LoadSpawn
  <2>3. ASSUME loads' = 0
        PROVE  loads = 0
    <3>1. CASE LoadSpawn(s)
      <4>1. loads' = loads \/ loads' = loads + 1
        BY <3>1, LoadSpawnFacts
      <4>2. loads \in Nat
        BY PoolAssumption DEF PoolInv, TypeOK, PoolAssumption
      <4> QED
        BY <2>3, <4>1, <4>2
    <3>2. CASE ~LoadSpawn(s)
      BY <1>1, <2>3, <3>2
         DEF SyncStep, SyncApply, SyncAcquire, UnderLock, LoadFails, Drained,
             QuitOne
    <3> QED
      BY <3>1, <3>2
  <2>4. ASSUME loads' = 0, ~closing
        PROVE  procs' \subseteq Mine'
    <3>1. procs \subseteq Mine
      BY <2>3, <2>4 DEF EmptyInv
    <3>2. \A x \in Callers \ {s} : sync'[x] = sync[x]
      BY <1>1, CallSteps
    <3>3. CASE ~LoadSpawn(s)
      BY <1>1, <3>1, <3>2, <3>3, MineSteps DEF Mine
    <3>4. CASE LoadSpawn(s)
      <4>1. PICK w \in FreshWorkers :
              LET mine == sync[s].mine \cup {w} IN
              /\ procs' = procs \cup {w}
              /\ \/ sync'[s].mine = mine
                 \/ loads' = loads + 1
        BY <3>4, LoadSpawnFacts
      <4>2. sync'[s].mine = sync[s].mine \cup {w}
        BY <2>3, <2>4, <4>1
      <4> QED
        BY <3>1, <3>2, <4>1, <4>2 DEF Mine
    <3> QED
      BY <3>3, <3>4
  <2> QED
    BY <2>1, <2>2, <2>3, <2>4 DEF EmptyInv
<1>2. ASSUME NEW s \in Syncs, SyncBegin(s) PROVE EmptyInv'
  <2>1. /\ s \in Callers /\ sync[s].pc = "none" /\ ~closing
        /\ UNCHANGED <<closing, loads, procs, search>>
        /\ \A x \in Callers \ {s} : sync'[x] = sync[x]
    BY <1>2 DEF SyncBegin, SetSync, Callers, PoolInv, TypeOK
  <2>2. sync[s].mine = {}
    BY <2>1 DEF PoolInv, LockInv, Busy
  <2>3. Mine \subseteq Mine'
    BY <2>1, <2>2 DEF Mine
  <2> QED
    BY <2>1, <2>3 DEF EmptyInv
<1>3. CASE Shutdown
  <2>1. closing' = TRUE /\ Stopping' /\ UNCHANGED <<loads, search>>
    BY <1>3, Records DEF Shutdown
  <2> QED
    BY <2>1 DEF EmptyInv
<1>4. ASSUME NEW c \in Searchers, ChooseBegin(c) \/ SearchStep(c)
      PROVE  EmptyInv'
  <2>1. UNCHANGED <<closing, loads, sync>>
    BY <1>4 DEF ChooseBegin, SearchStep, PutBack, RetireBegin, RetireQuit,
                RetireSpawn, RetireSpawnFails
  <2>2. loads # 0
    BY <1>4 DEF ChooseBegin, SearchStep, PutBack, RetireBegin, RetireQuit,
                RetireSpawn, RetireSpawnFails, EmptyInv, PoolInv, TypeOK
  <2> QED
    BY <2>1, <2>2 DEF EmptyInv
<1>5. CASE UNCHANGED vars
  BY <1>5 DEF vars, EmptyInv, Mine
<1> QED
  BY <1>1, <1>2, <1>3, <1>4, <1>5 DEF Next

(* The steps of sync leave the first pool alone, end it or make it.        *)
LEMMA FirstSync ==
    ASSUME PoolInv, SizeInv, EmptyInv, FirstInv, NEW s \in Callers, SyncStep(s)
    PROVE  FirstInv'
<1>1. UNCHANGED search
  BY DEF SyncStep, SyncApply, SyncAcquire, UnderLock, LoadSpawn, LoadFails,
         Drained, QuitOne
<1>2. CASE SyncApply(s) \/ SyncAcquire(s)
  <2>1. \/ loaded' = FALSE
        \/ UNCHANGED <<loaded, pool, avail, loads, queues, procs>>
    BY <1>2, Zenon DEF SyncApply, SyncAcquire, UnderLock, BeginLoad, BeginUnload,
                NothingToDo
  <2>2. CASE ~loaded'
    BY <2>2 DEF FirstInv
  <2>3. CASE UNCHANGED <<loaded, pool, avail, loads, queues, procs>>
    BY <1>1, <2>3 DEF FirstInv, Playing, Retiring, Owing
  <2> QED
    BY <2>1, <2>2, <2>3
<1>3. CASE LoadFails(s) \/ Drained(s) \/ QuitOne(s)
  <2>1. ~loaded /\ loaded' = loaded
    BY <1>3, BusyAlone DEF LoadFails, Drained, QuitOne, Busy
  <2> QED
    BY <2>1 DEF FirstInv
<1>4. CASE LoadSpawn(s)
  <2>1. PICK w \in FreshWorkers :
          LET mine == sync[s].mine \cup {w} IN
          /\ procs' = procs \cup {w}
          /\ IsFiniteSet(mine) /\ Cardinality(mine) <= PoolSize
          /\ \/ UNCHANGED loaded
             \/ /\ pool' = mine /\ queues'[loads + 1] = mine
                /\ loads' = loads + 1 /\ avail' = loads + 1
    BY <1>4, LoadSpawnFacts
  <2>2. sync[s].pc = "load"
    BY <1>4 DEF LoadSpawn
  <2>3. /\ ~loaded
        /\ \A x \in Callers \ {s} : sync[x].mine = {}
    BY <2>2, BusyAlone DEF Busy
  <2>4. CASE UNCHANGED loaded
    BY <2>3, <2>4 DEF FirstInv
  <2>5. ASSUME /\ pool' = sync[s].mine \cup {w}
               /\ queues'[loads + 1] = sync[s].mine \cup {w}
               /\ loads' = loads + 1 /\ avail' = loads + 1,
               loads' = 1
        PROVE  /\ pool' = queues'[avail'] \cup Playing'
               /\ procs' \subseteq pool' \cup Retiring'
               /\ IsFiniteSet(pool')
               /\ IsFiniteSet(Owing')
               /\ Cardinality(pool') + Cardinality(Owing') <= PoolSize
    <3>1. loads = 0
      BY <2>5, PoolAssumption DEF PoolInv, TypeOK, PoolAssumption
    <3>2. ~closing
      BY <2>2 DEF EmptyInv
    <3>3. procs \subseteq sync[s].mine
      BY <2>3, <3>1, <3>2 DEF EmptyInv, Mine
    <3>4. Playing' = {} /\ Owing' = {}
      BY <1>1, <3>1 DEF EmptyInv, Playing, Owing
    <3>5. IsFiniteSet({}) /\ Cardinality({}) = 0
      BY FS_EmptySet
    <3>6. /\ IsFiniteSet(pool') /\ Cardinality(pool') \in Nat
          /\ Cardinality(pool') <= PoolSize
      BY <2>1, <2>5, FS_CardinalityType
    <3> QED
      BY <2>1, <2>5, <3>3, <3>4, <3>5, <3>6
  <2> QED
    BY <2>1, <2>4, <2>5 DEF FirstInv
<1> QED
  BY <1>2, <1>3, <1>4 DEF SyncStep

(* The steps of a search move a worker within the first pool, or make and  *)
(* pay a debt.                                                             *)
LEMMA FirstSearch ==
    ASSUME PoolInv, FirstInv, NEW c \in Searchers,
           ChooseBegin(c) \/ SearchStep(c), loads' = 1, loaded'
    PROVE  /\ pool' = queues'[avail'] \cup Playing'
           /\ procs' \subseteq pool' \cup Retiring'
           /\ IsFiniteSet(pool')
           /\ IsFiniteSet(Owing')
           /\ Cardinality(pool') + Cardinality(Owing') <= PoolSize
<1>1. UNCHANGED <<loaded, loads, avail>>
  BY DEF ChooseBegin, SearchStep, PutBack, RetireBegin, RetireQuit,
         RetireSpawn, RetireSpawnFails
<1>2. /\ loaded /\ loads = 1 /\ avail = 1
      /\ queues \in [1 .. MaxLoads -> SUBSET Workers]
      /\ 1 \in 1 .. MaxLoads
  BY <1>1, PoolAssumption DEF PoolInv, TypeOK, LockInv, PoolAssumption
<1>3. /\ pool = queues[avail] \cup Playing
      /\ procs \subseteq pool \cup Retiring
      /\ IsFiniteSet(pool)
      /\ IsFiniteSet(Owing)
      /\ Cardinality(pool) + Cardinality(Owing) <= PoolSize
  BY <1>2 DEF FirstInv
<1>4. /\ Cardinality(pool) \in Nat /\ Cardinality(Owing) \in Nat
      /\ PoolSize \in Nat
  BY <1>3, FS_CardinalityType, PoolAssumption DEF PoolAssumption
<1>5. \A x, y \in Searchers :
         x # y /\ search[x].worker # NoWorker
             => search[x].worker # search[y].worker
  BY DEF PoolInv, PlaceInv
<1>6. \A x \in Searchers :
         /\ search[x].worker # NoWorker <=> search[x].pc \in {"play", "retire"}
         /\ search[x].pc # "none" => search[x].queue = 1
         /\ search[x].worker \notin queues[1]
  BY <1>2 DEF PoolInv, PlaceInv
<1>7. CASE ChooseBegin(c)
  <2>1. PICK w \in queues[avail] :
          /\ w \in Workers
          /\ search'[c].pc = "play" /\ search'[c].worker = w
          /\ \A x \in Searchers \ {c} : search'[x] = search[x]
          /\ queues'[avail] = queues[avail] \ {w}
    BY <1>7, ChooseBeginFacts
  <2>2. search[c].pc = "none" /\ UNCHANGED <<pool, procs>>
    BY <1>7 DEF ChooseBegin
  <2>3. Playing' = Playing \cup {w}
    BY <2>1, <2>2 DEF Playing
  <2>4. Retiring' = Retiring
    BY <2>1, <2>2 DEF Retiring
  <2>5. Owing' = Owing
    BY <2>1, <2>2 DEF Owing
  <2> QED
    BY <1>1, <1>2, <1>3, <2>1, <2>2, <2>3, <2>4, <2>5
<1>8. CASE PutBack(c)
  <2> DEFINE w == search[c].worker
  <2>1. /\ search[c].pc = "play" /\ SetSearch(c, NoSearch)
        /\ UNCHANGED <<pool, procs>>
        /\ queues' = [queues EXCEPT ![search[c].queue] = @ \cup {w}]
    BY <1>8 DEF PutBack
  <2>2. /\ search'[c] = NoSearch
        /\ \A x \in Searchers \ {c} : search'[x] = search[x]
    BY <2>1, NoSearchFacts
  <2>3. queues'[1] = queues[1] \cup {w}
    BY <1>2, <1>6, <2>1
  <2>4. Playing' = Playing \ {w} /\ w \in Playing
    <3>1. w \in Playing
      BY <2>1 DEF Playing
    <3>2. \A x \in Searchers \ {c} : search[x].worker # w
      BY <1>5, <1>6, <2>1
    <3> QED
      BY <2>1, <2>2, <3>1, <3>2, Records DEF Playing
  <2>5. Retiring' = Retiring
    BY <2>1, <2>2, Records DEF Retiring
  <2>6. Owing' = Owing
    BY <2>1, <2>2, Records DEF Owing
  <2> HIDE DEF w
  <2> QED
    BY <1>1, <1>2, <1>3, <2>1, <2>3, <2>4, <2>5, <2>6
<1>9. CASE RetireBegin(c)
  <2> DEFINE w == search[c].worker
  <2>1. /\ search[c].pc = "play" /\ pool' = pool \ {w}
        /\ UNCHANGED <<queues, procs>>
    BY <1>9 DEF RetireBegin
  <2>2. /\ search'[c].pc = "retire" /\ search'[c].worker = w
        /\ \A x \in Searchers \ {c} : search'[x] = search[x]
    BY <1>9, RetireBeginFacts
  <2>3. \A x \in Searchers \ {c} : search[x].worker # w
    BY <1>5, <1>6, <2>1
  <2>4. Playing' = Playing \ {w} /\ w \in Playing
    BY <2>1, <2>2, <2>3 DEF Playing
  <2>5. Retiring' = Retiring \cup {w}
    BY <2>1, <2>2 DEF Retiring
  <2>6. Owing' = Owing \cup {c} /\ c \notin Owing
    BY <2>1, <2>2 DEF Owing
  <2>7. w \in pool /\ w \notin queues[1]
    BY <1>3, <1>6, <2>4
  <2> HIDE DEF w
  <2>8. IsFiniteSet(pool') /\ Cardinality(pool') = Cardinality(pool) - 1
    BY <1>3, <2>1, <2>7, FS_RemoveElement
  <2>9. IsFiniteSet(Owing') /\ Cardinality(Owing') = Cardinality(Owing) + 1
    BY <1>3, <2>6, FS_AddElement
  <2>10. Cardinality(pool') + Cardinality(Owing') <= PoolSize
    BY <1>3, <1>4, <2>8, <2>9
  <2> QED
    BY <1>1, <1>2, <1>3, <2>1, <2>4, <2>5, <2>7, <2>8, <2>9, <2>10
<1>10. CASE RetireQuit(c)
  <2> DEFINE w == search[c].worker
  <2>1. /\ search[c].pc = "retire" /\ procs' = procs \ {w}
        /\ UNCHANGED <<queues, pool>>
    BY <1>10 DEF RetireQuit
  <2>2. /\ search'[c].pc = "spawn"
        /\ \A x \in Searchers \ {c} : search'[x] = search[x]
    BY <1>2, <1>10, RetireQuitFacts
  <2>3. Playing' = Playing
    BY <2>1, <2>2 DEF Playing
  <2>4. Retiring \subseteq Retiring' \cup {w}
    BY <2>1, <2>2 DEF Retiring
  <2>5. Owing' = Owing
    BY <2>1, <2>2 DEF Owing
  <2> HIDE DEF w
  <2> QED
    BY <1>1, <1>3, <2>1, <2>3, <2>4, <2>5
<1>11. CASE RetireSpawn(c)
  <2>1. PICK w \in FreshWorkers :
          /\ procs' = procs \cup {w}
          /\ pool' = pool \cup {w}
          /\ queues' = [queues EXCEPT ![search[c].queue] = @ \cup {w}]
    BY <1>11 DEF RetireSpawn
  <2>2. search[c].pc = "spawn" /\ SetSearch(c, NoSearch)
    BY <1>11 DEF RetireSpawn
  <2>3. /\ search'[c] = NoSearch
        /\ \A x \in Searchers \ {c} : search'[x] = search[x]
    BY <2>2, NoSearchFacts
  <2>4. queues'[1] = queues[1] \cup {w}
    BY <1>2, <1>6, <2>1, <2>2
  <2>5. Playing' = Playing
    BY <2>2, <2>3, Records DEF Playing
  <2>6. Retiring' = Retiring
    BY <2>2, <2>3, Records DEF Retiring
  <2>7. Owing' = Owing \ {c} /\ c \in Owing
    BY <2>2, <2>3, Records DEF Owing
  <2>8. w \notin pool
    BY FreshFacts
  <2>9. IsFiniteSet(pool') /\ Cardinality(pool') = Cardinality(pool) + 1
    BY <1>3, <2>1, <2>8, FS_AddElement
  <2>10. IsFiniteSet(Owing') /\ Cardinality(Owing') = Cardinality(Owing) - 1
    BY <1>3, <2>7, FS_RemoveElement
  <2>11. Cardinality(pool') + Cardinality(Owing') <= PoolSize
    BY <1>3, <1>4, <2>9, <2>10
  <2> QED
    BY <1>1, <1>2, <1>3, <2>1, <2>4, <2>5, <2>6, <2>9, <2>10, <2>11
<1>12. CASE RetireSpawnFails(c)
  <2>1. /\ search[c].pc = "spawn" /\ SetSearch(c, NoSearch)
        /\ UNCHANGED <<pool, queues, procs>>
    BY <1>12 DEF RetireSpawnFails
  <2>2. /\ search'[c] = NoSearch
        /\ \A x \in Searchers \ {c} : search'[x] = search[x]
    BY <2>1, NoSearchFacts
  <2>3. Playing' = Playing
    BY <2>1, <2>2, Records DEF Playing
  <2>4. Retiring' = Retiring
    BY <2>1, <2>2, Records DEF Retiring
  <2>5. Owing' = Owing \ {c} /\ c \in Owing
    BY <2>1, <2>2, Records DEF Owing
  <2>6. IsFiniteSet(Owing') /\ Cardinality(Owing') = Cardinality(Owing) - 1
    BY <1>3, <2>5, FS_RemoveElement
  <2>7. Cardinality(pool') + Cardinality(Owing') <= PoolSize
    BY <1>3, <1>4, <2>1, <2>6
  <2> QED
    BY <1>1, <1>3, <2>1, <2>3, <2>4, <2>6, <2>7
<1> QED
  BY <1>7, <1>8, <1>9, <1>10, <1>11, <1>12 DEF SearchStep

LEMMA FirstStep ==
    ASSUME PoolInv, SizeInv, EmptyInv, FirstInv, [Next]_vars
    PROVE  FirstInv'
<1>1. ASSUME NEW s \in Syncs, SyncBegin(s) PROVE FirstInv'
  <2>1. UNCHANGED <<loaded, pool, avail, loads, queues, procs, search>>
    BY <1>1 DEF SyncBegin
  <2> QED
    BY <2>1 DEF FirstInv, Playing, Retiring, Owing
<1>2. ASSUME NEW s \in Callers, SyncStep(s) PROVE FirstInv'
  BY <1>2, FirstSync
<1>3. ASSUME NEW c \in Searchers, ChooseBegin(c) \/ SearchStep(c)
      PROVE  FirstInv'
  BY <1>3, FirstSearch DEF FirstInv
<1>4. CASE Shutdown
  <2>1. ~loaded'
    BY <1>4 DEF Shutdown
  <2> QED
    BY <2>1 DEF FirstInv
<1>5. CASE UNCHANGED vars
  BY <1>5 DEF vars, FirstInv, Playing, Retiring, Owing
<1> QED
  BY <1>1, <1>2, <1>3, <1>4, <1>5 DEF Next

LEMMA InitWhole == Init => WholeInv
<1> SUFFICES ASSUME Init PROVE WholeInv
  OBVIOUS
<1>1. SizeInv /\ FirstInv
  BY Records DEF Init, SizeInv, FirstInv
<1>2. EmptyInv
  BY Records DEF Init, EmptyInv
<1> QED
  BY <1>1, <1>2, InitPool DEF WholeInv

(* With it, the count of the first pool: each worker it lacks is owed by a *)
(* search.                                                                 *)
THEOREM WholeInvariant == Spec => []WholeInv
<1>1. WholeInv /\ [Next]_vars => WholeInv'
  BY StepPool, SizeStep, EmptyStep, FirstStep DEF WholeInv
<1> QED
  BY <1>1, InitWhole, PTL DEF Spec

(* Until the first unload no worker is lost, none is there twice and       *)
(* failing searches never leave more processes in the pool than it was     *)
(* made for.                                                               *)
THEOREM FirstPool == Spec => []FirstPoolIsWhole
<1>1. WholeInv => FirstPoolIsWhole
  <2> SUFFICES ASSUME WholeInv, loads = 1, loaded PROVE Cardinality(pool) <= PoolSize
    BY DEF WholeInv, FirstInv, FirstPoolIsWhole
  <2>1. /\ IsFiniteSet(pool) /\ IsFiniteSet(Owing)
        /\ Cardinality(pool) + Cardinality(Owing) <= PoolSize
    BY DEF WholeInv, FirstInv
  <2> QED
    BY <2>1, FS_CardinalityType, PoolAssumption DEF PoolAssumption
<1> QED
  BY <1>1, WholeInvariant, PTL

=============================================================================
