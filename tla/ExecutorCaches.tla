---------------------------- MODULE ExecutorCaches -----------------------------
(***************************************************************************)
(* The executor cache of the engine in front of the pool of resident       *)
(* workers: two LRU caches with the same keys and the same size, one       *)
(* filled by the factory of the other, and the threads that look an        *)
(* executor up, wait for its lock and run it while other threads evict it. *)
(***************************************************************************)
EXTENDS Naturals, Sequences, FiniteSets, SequencesExt

CONSTANTS
    Thread,      \* threads that execute jobs
    Model,       \* the keys: model, backend, configuration and adapters
    CacheSize,   \* pipeline_cache_size
    MaxRequests, \* requests in all (bound)
    None

ASSUME CacheAssumption == CacheSize \in Nat \ {0} /\ None \notin Thread

VARIABLES
    cache,     \* PipelineCache._entries, oldest first: executors
    executors, \* every executor built: its key, its worker handle and its lock
    pool,      \* WorkerPool._entries, oldest first: workers
    workers,   \* every worker made: its key, and whether it is started
    building,  \* the thread that holds the cache lock while its factory runs
    at,        \* thread -> where it is
    wants,     \* thread -> the key of its request
    entry,     \* thread -> the executor it looked up, 0 for none
    evicted,   \* thread -> the executor it is about to release, 0 for none
    looked,    \* thread -> the other keys looked up since its own look-up
    served     \* requests begun

cacheVars == <<cache, executors, pool, workers, building, at, wants, entry, evicted, looked, served>>

CacheInit ==
    /\ cache = <<>> /\ executors = <<>> /\ pool = <<>> /\ workers = <<>>
    /\ building = None /\ served = 0
    /\ at = [t \in Thread |-> "idle"] /\ wants = [t \in Thread |-> CHOOSE m \in Model : TRUE]
    /\ entry = [t \in Thread |-> 0] /\ evicted = [t \in Thread |-> 0]
    /\ looked = [t \in Thread |-> {}]

\* Where a key is, and move_to_end.
Find(entries, table, k) == {i \in DOMAIN entries : table[entries[i]].key = k}
Touch(entries, i) == Append(RemoveAt(entries, i), entries[i])

\* popitem(last=False) when there are more than max_size
Evict(entries) ==
    IF Len(entries) > CacheSize THEN <<Tail(entries), {Head(entries)}>> ELSE <<entries, {}>>

\* The other threads' requests learn of a look-up of key k.
Noticed(k) ==
    [t \in Thread |-> IF entry[t] = 0 \/ wants[t] = k THEN looked[t] ELSE looked[t] \union {k}]

Settled == {"idle", "unloaded"}

Begin(t, m) ==
    /\ at[t] \in Settled /\ served < MaxRequests /\ served' = served + 1
    /\ wants' = [wants EXCEPT ![t] = m] /\ at' = [at EXCEPT ![t] = "lookup"]
    /\ looked' = [looked EXCEPT ![t] = {}]
    /\ UNCHANGED <<cache, executors, pool, workers, building, entry, evicted>>

\* A hit leaves the order of the entries as it is.
Reuse_Untouched(t, i) ==
    /\ entry' = [entry EXCEPT ![t] = cache[i]] /\ UNCHANGED cache

Reuse(t, i) ==
    /\ entry' = [entry EXCEPT ![t] = cache[i]] /\ cache' = Touch(cache, i)

\* get_or_create, up to the call of the factory
LookUp(t) ==
    /\ at[t] = "lookup" /\ building = None
    /\ LET found == Find(cache, executors, wants[t]) IN
       IF found # {}
       THEN /\ \E i \in found : Reuse(t, i)
            /\ at' = [at EXCEPT ![t] = "lock"]
            /\ looked' = [Noticed(wants[t]) EXCEPT ![t] = {}]
            /\ UNCHANGED building
       ELSE /\ building' = t /\ at' = [at EXCEPT ![t] = "build"]
            /\ UNCHANGED <<cache, entry, looked>>
    /\ UNCHANGED <<executors, pool, workers, wants, served, evicted>>

\* The factory: PersistentWorkerExecutor.load takes the worker of its key from
\* the pool, or starts one, and the worker evicted for it is shut down.
Load(t) ==
    /\ at[t] = "build"
    /\ LET found == Find(pool, workers, wants[t])
           order == IF found # {} THEN Touch(pool, CHOOSE i \in found : TRUE)
                    ELSE Append(pool, Len(workers) + 1)
           kept  == Evict(order)
           table == IF found # {} THEN workers
                    ELSE Append(workers, [key |-> wants[t], up |-> TRUE]) IN
       /\ pool' = kept[1]
       /\ workers' = [x \in DOMAIN table |->
                         IF x \in kept[2] THEN [table[x] EXCEPT !.up = FALSE] ELSE table[x]]
       /\ executors' = Append(executors, [key |-> wants[t], handle |-> Last(order), holder |-> None])
       /\ entry' = [entry EXCEPT ![t] = Len(executors')]
    /\ at' = [at EXCEPT ![t] = "insert"]
    /\ UNCHANGED <<cache, building, wants, looked, served, evicted>>

\* The worker does not start: nothing is inserted anywhere, the request fails.
LoadFails(t) ==
    /\ at[t] = "build" /\ Find(pool, workers, wants[t]) = {}
    /\ building' = None /\ at' = [at EXCEPT ![t] = "idle"]
    /\ UNCHANGED <<cache, executors, pool, workers, wants, entry, looked, served, evicted>>

\* The new entry is inserted, the oldest one taken out, the lock given back.
Insert(t) ==
    /\ at[t] = "insert"
    /\ LET kept == Evict(Append(cache, entry[t])) IN
       /\ cache' = kept[1]
       /\ IF kept[2] = {} THEN at' = [at EXCEPT ![t] = "lock"] /\ UNCHANGED evicted
          ELSE at' = [at EXCEPT ![t] = "release"] /\ \E e \in kept[2] : evicted' = [evicted EXCEPT ![t] = e]
    /\ looked' = [Noticed(wants[t]) EXCEPT ![t] = {}] /\ building' = None
    /\ UNCHANGED <<executors, pool, workers, wants, entry, served>>

\* release() of the evicted executor: outside the cache lock, without its own.
Release(t) ==
    /\ at[t] = "release" /\ at' = [at EXCEPT ![t] = "lock"]
    /\ executors' = [executors EXCEPT ![evicted[t]].handle = 0]
    /\ evicted' = [evicted EXCEPT ![t] = 0]
    /\ UNCHANGED <<cache, pool, workers, building, wants, entry, looked, served>>

Lock(t) ==
    /\ at[t] = "lock" /\ executors[entry[t]].holder = None
    /\ executors' = [executors EXCEPT ![entry[t]].holder = t]
    /\ at' = [at EXCEPT ![t] = "run"]
    /\ UNCHANGED <<cache, pool, workers, building, wants, entry, looked, served, evicted>>

\* PersistentWorkerExecutor.run: without a handle it raises, else the handle
\* starts its worker when that was shut down, and the worker answers or raises.
Run(t) ==
    /\ at[t] = "run"
    /\ LET w == executors[entry[t]].handle IN
       IF w = 0 THEN at' = [at EXCEPT ![t] = "unloaded"] /\ UNCHANGED <<workers, looked>>
       ELSE /\ \/ workers' = [workers EXCEPT ![w].up = TRUE]
               \/ UNCHANGED workers
            /\ at' = [at EXCEPT ![t] = "idle"] /\ looked' = [looked EXCEPT ![t] = {}]
    /\ executors' = [executors EXCEPT ![entry[t]].holder = None]
    /\ entry' = [entry EXCEPT ![t] = 0]
    /\ UNCHANGED <<cache, pool, building, wants, served, evicted>>

CacheStep(t) ==
    LookUp(t) \/ Load(t) \/ LoadFails(t) \/ Insert(t) \/ Release(t) \/ Lock(t) \/ Run(t)

CacheNext == \E t \in Thread : CacheStep(t) \/ \E m \in Model : Begin(t, m)

CacheSpec == CacheInit /\ [][CacheNext]_cacheVars

----------------------------------------------------------------------------
(* Properties.                                                             *)

\* A request that has looked its executor up loses it to an eviction only when as
\* many other keys as the cache has room for were looked up before it ran.
LostToOthersOnly ==
    \A t \in Thread : at[t] = "unloaded" => Cardinality(looked[t]) >= CacheSize
===============================================================================
