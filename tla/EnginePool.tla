----------------------------- MODULE EnginePool -----------------------------
(***************************************************************************)
(* BotEngine (services/core/bots/engine.py): a pool of Fairy-Stockfish     *)
(* processes, loaded and unloaded by sync as the bots with the engine on   *)
(* come and go in Redis, and used by choose from the bots' move tasks.     *)
(*                                                                         *)
(* An action is the code from one suspension (a Redis read, the lock, the  *)
(* start or the end of a process, a search, a get on an empty queue) to    *)
(* the next.  _load makes a new queue object each time; choose and _retire *)
(* keep a reference to the one they took a worker from, so the queues are  *)
(* numbered by the load that made them.                                    *)
(***************************************************************************)
EXTENDS Integers, FiniteSets

CONSTANTS
    Bots,           \* names of the bots
    Workers,        \* engine processes (an id is reused when it is free)
    Stalling,       \* those that may stop answering, to quit as well
    Searchers,      \* move tasks of bots
    Syncs,          \* calls of sync that may run at the same time
    Closer,         \* the call of shutdown
    NoWorker,       \* no process
    PoolSize,       \* settings.pool_size
    MaxLoads        \* BOUND: how often the pool is loaded

ASSUME PoolAssumption ==
    /\ PoolSize \in Nat \ {0}
    /\ MaxLoads \in Nat
    /\ NoWorker \notin Workers
    /\ Stalling \subseteq Workers
    /\ Closer \notin Syncs

VARIABLES
    engineOn,       \* _engine_on
    loaded,         \* _loaded
    pool,           \* _pool
    loads,          \* number of queues made so far
    avail,          \* the number of the queue _available, 0 for None
    queues,         \* the contents of the queues
    procs,          \* the processes that run
    holder,         \* {} or {the call that holds _lock}
    sync,           \* the calls of sync and shutdown
    search,         \* the calls of choose
    closing         \* shutdown was called

vars == <<engineOn, loaded, pool, loads, avail, queues, procs, holder,
          sync, search, closing>>

Callers == Syncs \cup {Closer}

(* pc: the await the call is suspended at.  got is what smembers answers;  *)
(* mine are the processes _load started, or those _unload has to quit;     *)
(* queue is the one _unload gets from.                                     *)
SyncCall == [pc : {"none", "apply", "lock", "load", "undo", "drain",
                   "quit"},
             got : SUBSET Bots, mine : SUBSET Workers, queue : 0 .. MaxLoads]

NoSync == [pc |-> "none", got |-> {}, mine |-> {}, queue |-> 0]

SearchCall == [pc : {"none", "play", "retire", "spawn"},
               worker : Workers \cup {NoWorker}, queue : 0 .. MaxLoads]

NoSearch == [pc |-> "none", worker |-> NoWorker, queue |-> 0]

Queued == UNION {queues[q] : q \in 1 .. MaxLoads}

Held == {search[c].worker : c \in Searchers} \ {NoWorker}

Mine == UNION {sync[s].mine : s \in Callers}

FreshWorkers == Workers \ (procs \cup pool \cup Queued \cup Held \cup Mine)

SetSync(s, call) == sync' = [sync EXCEPT ![s] = call]

SetSearch(c, call) == search' = [search EXCEPT ![c] = call]

----------------------------------------------------------------------------
(* sync                                                                    *)

(* smembers answers with the set as the backend has it at that moment, any *)
(* set of bots, and {} stands for a failed read as well.  The answer is    *)
(* used later: answers to two calls can be used in either order.           *)
SyncBegin(s) ==
    /\ ~closing
    /\ sync[s].pc = "none"
    /\ \E got \in SUBSET Bots :
          SetSync(s, [NoSync EXCEPT !.pc = "apply", !.got = got])
    /\ UNCHANGED <<engineOn, loaded, pool, loads, avail, queues, procs, holder,
                   search, closing>>

(* The code under _lock up to its first suspension, with the engine-on set *)
(* as it is when the lock is taken.                                        *)
BeginLoad(s, on) ==
    /\ on # {}
    /\ ~loaded
    /\ loads < MaxLoads
    /\ holder' = {s}
    /\ SetSync(s, [NoSync EXCEPT !.pc = "load"])
    /\ UNCHANGED <<loaded, pool, avail>>

(* Mutant: _unload marks the pool unloaded only when it is done.           *)
BeginUnloadLate(s) ==
    /\ loaded
    /\ holder' = {s}
    /\ SetSync(s, [pc |-> "drain", got |-> {}, mine |-> pool,
                   queue |-> avail])
    /\ UNCHANGED <<loaded, avail, pool>>

BeginUnload(s) ==
    /\ loaded
    /\ loaded' = FALSE
    /\ avail' = 0
    /\ pool' = {}
    /\ holder' = {s}
    /\ SetSync(s, [pc |-> "drain", got |-> {}, mine |-> pool,
                   queue |-> avail])

(* Nothing to do, or no engine binary where it should be.                  *)
NothingToDo(s, on) ==
    /\ on = {} => ~loaded
    /\ SetSync(s, NoSync)
    /\ UNCHANGED <<loaded, pool, avail, holder>>

UnderLock(s, on) ==
    /\ \/ BeginLoad(s, on)
       \/ on = {} /\ BeginUnload(s)
       \/ NothingToDo(s, on)
    /\ UNCHANGED <<loads, queues, procs, search, closing>>

(* Mutant: sync without _lock.                                             *)
NoLock == TRUE

(* asyncio.Lock: who comes later waits behind those who wait.              *)
LockIsFree == holder = {} /\ \A s \in Callers : sync[s].pc # "lock"

SyncApply(s) ==
    /\ sync[s].pc = "apply"
    /\ engineOn' = sync[s].got
    /\ IF LockIsFree
       THEN UnderLock(s, sync[s].got)
       ELSE /\ SetSync(s, [NoSync EXCEPT !.pc = "lock"])
            /\ UNCHANGED <<loaded, pool, loads, avail, queues, procs,
                           holder, search, closing>>

SyncAcquire(s) ==
    /\ sync[s].pc = "lock"
    /\ holder = {}
    /\ UnderLock(s, engineOn)
    /\ UNCHANGED engineOn

----------------------------------------------------------------------------
(* _load and _unload                                                       *)

Done(s) == SetSync(s, NoSync) /\ holder' = {}

LoadSpawn(s) ==
    /\ sync[s].pc = "load"
    /\ \E w \in FreshWorkers :
          LET mine == sync[s].mine \cup {w} IN
          /\ procs' = procs \cup {w}
          /\ IF Cardinality(mine) < PoolSize
             THEN /\ SetSync(s, [sync[s] EXCEPT !.mine = mine])
                  /\ UNCHANGED <<loaded, pool, loads, avail, queues, holder>>
             ELSE /\ pool' = mine
                  /\ loads' = loads + 1
                  /\ avail' = loads + 1
                  /\ queues' = [queues EXCEPT ![loads + 1] = mine]
                  /\ loaded' = TRUE
                  /\ Done(s)
    /\ UNCHANGED <<engineOn, search, closing>>

(* A process does not start: those that did are quit.                      *)
LoadFails(s) ==
    /\ sync[s].pc = "load"
    /\ IF sync[s].mine = {} THEN Done(s)
       ELSE SetSync(s, [sync[s] EXCEPT !.pc = "undo"]) /\ UNCHANGED holder
    /\ UNCHANGED <<engineOn, loaded, pool, loads, avail, queues, procs,
                   search, closing>>

(* The loop of gets ends when the queue has given as many workers as there *)
(* were in the pool.  Nobody else gets from this queue any more.           *)
Drained(s) ==
    /\ sync[s].pc = "drain"
    /\ Cardinality(queues[sync[s].queue]) >= Cardinality(sync[s].mine)
    /\ queues' = [queues EXCEPT ![sync[s].queue] = {}]
    /\ IF sync[s].mine = {} THEN Done(s)
       ELSE SetSync(s, [sync[s] EXCEPT !.pc = "quit"]) /\ UNCHANGED holder
    /\ UNCHANGED <<engineOn, loaded, pool, loads, avail, procs, search,
                   closing>>

QuitOne(s) ==
    /\ sync[s].pc \in {"undo", "quit"}
    /\ \E w \in sync[s].mine :
          /\ procs' = procs \ {w}
          /\ IF sync[s].mine = {w} THEN Done(s)
             ELSE /\ SetSync(s, [sync[s] EXCEPT !.mine = @ \ {w}])
                  /\ UNCHANGED holder
    /\ UNCHANGED <<engineOn, loaded, pool, loads, avail, queues, search,
                   closing>>

(* The process stops: the server cancels the SyncBot calls in flight, which *)
(* frees the lock, and shutdown unloads the pool.                          *)
Shutdown ==
    /\ ~closing
    /\ closing' = TRUE
    /\ IF loaded
       THEN /\ loaded' = FALSE
            /\ avail' = 0
            /\ pool' = {}
            /\ holder' = {Closer}
            /\ sync' = [s \in Callers |->
                          IF s = Closer
                          THEN [pc |-> "drain", got |-> {}, mine |-> pool,
                                queue |-> avail]
                          ELSE NoSync]
       ELSE /\ holder' = {}
            /\ sync' = [s \in Callers |-> NoSync]
            /\ UNCHANGED <<loaded, avail, pool>>
    /\ UNCHANGED <<engineOn, loads, queues, procs, search>>

----------------------------------------------------------------------------
(* choose and _retire                                                      *)

ChooseBegin(c) ==
    /\ search[c].pc = "none"
    /\ engineOn # {}
    /\ loaded
    /\ avail # 0
    /\ \E w \in queues[avail] :
          /\ queues' = [queues EXCEPT ![avail] = @ \ {w}]
          /\ SetSearch(c, [pc |-> "play", worker |-> w, queue |-> avail])
    /\ UNCHANGED <<engineOn, loaded, pool, loads, avail, procs, holder,
                   sync, closing>>

(* A result came and the pool is loaded: the worker goes back to the queue *)
(* it was taken from.                                                      *)
PutBack(c) ==
    /\ search[c].pc = "play"
    /\ search[c].worker \in procs
    /\ loaded
    /\ queues' = [queues EXCEPT ![search[c].queue] = @ \cup {search[c].worker}]
    /\ SetSearch(c, NoSearch)
    /\ UNCHANGED <<engineOn, loaded, pool, loads, avail, procs, holder,
                   sync, closing>>

(* Mutants: the worker goes back to the queue although its search failed;  *)
(* it is not removed from the pool.                                        *)
RetirePutsBack(c) ==
    /\ search[c].pc = "play"
    /\ pool' = pool \ {search[c].worker}
    /\ queues' = [queues EXCEPT ![search[c].queue] = @ \cup {search[c].worker}]
    /\ SetSearch(c, [search[c] EXCEPT !.pc = "retire"])
    /\ UNCHANGED <<engineOn, loaded, loads, avail, procs, holder, sync, closing>>

RetireKeepsInPool(c) ==
    /\ search[c].pc = "play"
    /\ SetSearch(c, [search[c] EXCEPT !.pc = "retire"])
    /\ UNCHANGED <<engineOn, loaded, pool, loads, avail, queues, procs, holder,
                   sync, closing>>

(* The search failed, hung or was cancelled, or the pool is not loaded any *)
(* more: the worker is retired, whatever its result.                       *)
RetireBegin(c) ==
    /\ search[c].pc = "play"
    /\ pool' = pool \ {search[c].worker}
    /\ SetSearch(c, [search[c] EXCEPT !.pc = "retire"])
    /\ UNCHANGED <<engineOn, loaded, loads, avail, queues, procs, holder,
                   sync, closing>>

(* Mutant: _retire takes _lock as sync does.                               *)
RetireLocks(c) ==
    /\ search[c].pc = "retire"
    /\ LockIsFree
    /\ procs' = procs \ {search[c].worker}
    /\ SetSearch(c, IF loaded THEN [search[c] EXCEPT !.pc = "spawn",
                                                     !.worker = NoWorker]
                    ELSE NoSearch)
    /\ UNCHANGED <<engineOn, loaded, pool, loads, avail, queues, holder, sync,
                   closing>>

RetireQuit(c) ==
    /\ search[c].pc = "retire"
    /\ procs' = procs \ {search[c].worker}
    /\ SetSearch(c, IF loaded THEN [search[c] EXCEPT !.pc = "spawn",
                                                     !.worker = NoWorker]
                    ELSE NoSearch)
    /\ UNCHANGED <<engineOn, loaded, pool, loads, avail, queues, holder,
                   sync, closing>>

(* The replacement joins the pool there is by now, and the old queue.      *)
RetireSpawn(c) ==
    /\ search[c].pc = "spawn"
    /\ \E w \in FreshWorkers :
          /\ procs' = procs \cup {w}
          /\ pool' = pool \cup {w}
          /\ queues' = [queues EXCEPT ![search[c].queue] = @ \cup {w}]
    /\ SetSearch(c, NoSearch)
    /\ UNCHANGED <<engineOn, loaded, loads, avail, holder, sync, closing>>

RetireSpawnFails(c) ==
    /\ search[c].pc = "spawn"
    /\ SetSearch(c, NoSearch)
    /\ UNCHANGED <<engineOn, loaded, pool, loads, avail, queues, procs,
                   holder, sync, closing>>

----------------------------------------------------------------------------
Init ==
    /\ engineOn = {}
    /\ loaded = FALSE
    /\ pool = {}
    /\ loads = 0
    /\ avail = 0
    /\ queues = [q \in 1 .. MaxLoads |-> {}]
    /\ procs = {}
    /\ holder = {}
    /\ sync = [s \in Callers |-> NoSync]
    /\ search = [c \in Searchers |-> NoSearch]
    /\ closing = FALSE

SyncStep(s) ==
    \/ SyncApply(s)
    \/ SyncAcquire(s)
    \/ LoadSpawn(s)
    \/ LoadFails(s)
    \/ Drained(s)
    \/ QuitOne(s)

SearchStep(c) ==
    \/ PutBack(c)
    \/ RetireBegin(c)
    \/ RetireQuit(c)
    \/ RetireSpawn(c)
    \/ RetireSpawnFails(c)

Next ==
    \/ \E s \in Syncs : SyncBegin(s)
    \/ \E s \in Callers : SyncStep(s)
    \/ \E c \in Searchers : ChooseBegin(c) \/ SearchStep(c)
    \/ Shutdown

Spec == Init /\ [][Next]_vars

(* What the code itself sees to: a search ends or runs into its hang guard. *)
(* _retire waits for the process to quit without a timeout, which one that *)
(* answers does; nothing is assumed of the start of a process.             *)
GuardFairness ==
    \A c \in Searchers :
        /\ WF_vars(PutBack(c) \/ RetireBegin(c))
        /\ WF_vars(search[c].worker \notin Stalling /\ RetireQuit(c))

GuardedSpec == Spec /\ GuardFairness

(* More than the code can see to: every process quits when it is told, and *)
(* starts or fails to.                                                     *)
ProcessFairness == \A c \in Searchers : WF_vars(SearchStep(c))

(* Redis answers or fails as well, and asyncio.Lock serves its waiters in  *)
(* order, so that none is overtaken for ever.                              *)
SyncFairness ==
    \A s \in Callers : WF_vars(SyncStep(s)) /\ SF_vars(SyncAcquire(s))

FairSpec == Spec /\ ProcessFairness /\ SyncFairness

----------------------------------------------------------------------------
(* Properties                                                              *)

(* Every variable has its type.                                            *)
TypeOK ==
    /\ engineOn \in SUBSET Bots
    /\ loaded \in BOOLEAN
    /\ pool \in SUBSET Workers
    /\ loads \in 0 .. MaxLoads
    /\ avail \in {0, loads}
    /\ queues \in [1 .. MaxLoads -> SUBSET Workers]
    /\ procs \in SUBSET Workers
    /\ holder \in {{}} \cup {{s} : s \in Callers}
    /\ sync \in [Callers -> SyncCall]
    /\ search \in [Searchers -> SearchCall]
    /\ closing \in BOOLEAN

Playing == {search[c].worker : c \in {x \in Searchers : search[x].pc = "play"}}

Retiring == {search[c].worker :
                c \in {x \in Searchers : search[x].pc = "retire"}}

(* No two searches drive the same process, and one that is searching or    *)
(* being retired is in no queue: choose never gets a worker somebody else  *)
(* still talks to, also when the pool is unloaded and loaded under a       *)
(* search.                                                                 *)
OneUserPerWorker ==
    /\ \A c, d \in Searchers :
          c # d /\ search[c].worker # NoWorker
              => search[c].worker # search[d].worker
    /\ (Playing \cup Retiring) \cap UNION {queues[q] : q \in 1 .. MaxLoads} = {}

(* What choose can get from the queue runs, and is not about to be quit by *)
(* an unload that has not come to its end.                                 *)
AvailableRuns ==
    avail # 0 =>
        /\ queues[avail] \subseteq procs
        /\ \A s \in Callers : queues[avail] \cap sync[s].mine = {}

(* Until the pool is unloaded for the first time, every worker of the pool *)
(* is in the queue or in a search, every process is in the pool or about   *)
(* to be quit, and searches that fail never make the pool grow.            *)
FirstPoolIsWhole ==
    loads = 1 /\ loaded =>
        /\ pool = queues[avail] \cup Playing
        /\ procs \subseteq pool \cup Retiring
        /\ Cardinality(pool) <= PoolSize

(* A call of choose ends or comes to wait for a process of its own, the    *)
(* stalled one it quits or the one it starts: whatever happens to the pool *)
(* meanwhile, a sync that hangs with the lock, an empty queue or the       *)
(* stalled process of another search never holds it up.                    *)
ChooseWaitsForItsOwn ==
    \A c \in Searchers :
        search[c].pc = "play" ~>
            \/ search[c].pc \in {"none", "spawn"}
            \/ search[c].pc = "retire" /\ search[c].worker \in Stalling

(* engine.py: "Wait for any in-flight searches to return their worker      *)
(* before quitting": the wait of an unload ends, if no process stalls.     *)
DrainEnds ==
    \A s \in Callers : sync[s].pc = "drain" ~> sync[s].pc # "drain"
=============================================================================
