----------------------------- MODULE ManagedWorker -----------------------------
(***************************************************************************)
(* The supervised resident worker: ResidentWorkerHandle (resident.py),     *)
(* GrpcResidentWorkerProxy (remote.py) and the ManagedGrpcResidentWorker-  *)
(* Proxy that starts, restarts and gives up on the worker process          *)
(* (managed.py), all under src/omnirt/workers.                             *)
(*                                                                         *)
(* Several threads submit through one handle: the executor lock of the     *)
(* engine covers one cached executor, and an executor built again after an *)
(* eviction gets the same handle from the worker pool.  A thread that runs *)
(* under the supervisor lock is interleaved only with steps that need no   *)
(* lock: calls in flight, the process and the clock.                       *)
(*                                                                         *)
(* The back-off before a restart and the start-up time-out take any time.  *)
(* The worker process is seen through its port: it answers the health      *)
(* probe when it is up, and no longer when it hangs or is dead.            *)
(* _is_restartable_error is decided with the failure of the call.  In this *)
(* module an operator with an underscore is a variant that only a check    *)
(* that the properties have teeth uses, placed before its original.        *)
(***************************************************************************)
EXTENDS Integers, Sequences, FiniteSets

CONSTANTS
    Caller,        \* threads that submit
    NoCaller,      \* the owner of a free lock
    MaxRestarts,   \* max_restarts
    Window,        \* restart_window_s
    Cooldown,      \* breaker_cooldown_s
    MaxTime,       \* bound on the clock
    MaxCalls       \* bound on the submits

ASSUME ManagedAssumption ==
    /\ NoCaller \notin Caller
    /\ {MaxRestarts, MaxTime, MaxCalls} \subseteq Nat
    /\ {Window, Cooldown} \subseteq Nat \ {0}

VARIABLES
    now,        \* time.monotonic
    handle,     \* the ResidentWorkerHandle: its flag _started, the owner of _lock
    lock,       \* the owner of _supervisor_lock
    shut,       \* _shutdown
    process,    \* the process _process refers to
    client,     \* whether _client is set
    stamps,     \* _restart_timestamps
    openUntil,  \* _breaker_open_until
    call,       \* what each thread does
    calls,      \* submits so far
    restarts    \* history: the time of each counted restart, and whether it
                \* was the probe that half-closed the breaker

breaker == <<stamps, openUntil, restarts>>
vars == <<now, handle, lock, shut, process, client, breaker, call, calls>>

Idle == [at |-> "idle", goal |-> "idle", attempt |-> 0, link |-> "none"]

ManagedInit ==
    /\ now = 1
    /\ handle = [started |-> FALSE, owner |-> NoCaller]
    /\ lock = NoCaller /\ shut = FALSE
    /\ process = "none" /\ client = FALSE
    /\ stamps = << >> /\ openUntil = 0 /\ restarts = << >>
    /\ call = [c \in Caller |-> Idle] /\ calls = 0

Running == process \in {"booting", "up", "hung"}
Ready == process = "up"
BreakerIsOpen == now < openUntil
At(c, label) == call[c].at = label

\* Whatever is closed or terminated, the calls in flight over it are lost.
Lost(some) ==
    [c \in Caller |-> IF some[c].link = "open" THEN [some[c] EXCEPT !.link = "lost"] ELSE some[c]]

Go(c, label) == call' = [call EXCEPT ![c].at = label]

Freed(owner, c) == IF owner = c THEN NoCaller ELSE owner

\* A return or an exception leaves submit and every with block it is in.
Leave_KeepsLock(c) ==
    /\ call' = [call EXCEPT ![c] = Idle]
    /\ handle' = [handle EXCEPT !.owner = Freed(@, c)]
    /\ UNCHANGED lock

Leave(c) ==
    /\ call' = [call EXCEPT ![c] = Idle]
    /\ handle' = [handle EXCEPT !.owner = Freed(@, c)]
    /\ lock' = Freed(lock, c)

\* _start_unlocked up to its wait; goal is where the thread goes on.  A
\* process that runs is kept, and Popen may raise.
Boot(c, goal) ==
    /\ lock' = c
    /\ call' = [call EXCEPT ![c].at = "boot", ![c].goal = goal]
    /\ UNCHANGED handle

StartUnlocked(c, goal) ==
    \/ Running /\ Boot(c, goal) /\ UNCHANGED process
    \/ ~Running /\ Boot(c, goal) /\ process' = "booting"
    \/ ~Running /\ Leave(c) /\ UNCHANGED process

Submit(c) ==
    /\ At(c, "idle") /\ calls < MaxCalls
    /\ calls' = calls + 1
    /\ call' = [call EXCEPT ![c].at = "enter", ![c].attempt = 1]
    /\ UNCHANGED <<now, handle, lock, shut, process, client, breaker>>

\* ResidentWorkerHandle.submit: the worker is started first, under the lock
\* of the handle, when the handle does not know it to be.
Enter(c) ==
    /\ At(c, "enter") /\ handle.owner = NoCaller
    /\ \/ handle.started /\ Go(c, "ensure") /\ UNCHANGED handle
       \/ /\ ~handle.started /\ Go(c, "handle")
          /\ handle' = [handle EXCEPT !.owner = c]
    /\ UNCHANGED <<now, lock, shut, process, client, breaker, calls>>

\* The handle's lock is released, with _started set.
HandleAfter(c) ==
    handle' = IF handle.owner = c THEN [started |-> TRUE, owner |-> NoCaller] ELSE handle

\* submit catches what the first super().submit raises, start() inside it
\* included.  A RuntimeError counts if the process has exited.
Caught(c) ==
    /\ call[c].attempt = 1 /\ process = "dead"
    /\ \/ At(c, "connect") \/ At(c, "rpc")
       \/ At(c, "boot") /\ call[c].goal = "rpc"

\* start of the managed proxy, called by the handle and, being overridden,
\* by the submit of the base class.  It does not look at _shutdown.
Start(c) ==
    LET goal == IF At(c, "handle") THEN "ensure" ELSE "rpc"
    IN  /\ At(c, "handle") \/ At(c, "connect")
        /\ lock = NoCaller
        /\ \/ BreakerIsOpen /\ ~Caught(c) /\ Leave(c) /\ UNCHANGED process
           \/ BreakerIsOpen /\ Caught(c) /\ Go(c, "recover") /\ UNCHANGED <<handle, lock, process>>
           \/ /\ ~BreakerIsOpen /\ client /\ Ready
              /\ Go(c, goal) /\ HandleAfter(c)
              /\ UNCHANGED <<lock, process>>
           \/ /\ ~BreakerIsOpen /\ ~(client /\ Ready)
              /\ StartUnlocked(c, goal)
        /\ UNCHANGED <<now, shut, client, breaker, calls>>

\* The bookkeeping of _record_failure_and_restart, up to the back-off.
HalfClosed == openUntil # 0 /\ now >= openUntil
Kept_AfterCooldown == stamps

Kept == IF HalfClosed THEN << >> ELSE stamps

Recent_Late ==
    LET start == CHOOSE k \in 1 .. Len(Kept) + 1 :
                     \A j \in DOMAIN Kept : j >= k <=> now - Kept[j] < Window - 1
    IN  SubSeq(Kept, start, Len(Kept))

\* The stamps that are still in the window: those of a clock that never goes
\* back, so that the old ones are the first ones.
Recent ==
    LET start == CHOOSE k \in 1 .. Len(Kept) + 1 :
                     \A j \in DOMAIN Kept : j >= k <=> now - Kept[j] < Window
    IN  SubSeq(Kept, start, Len(Kept))

BudgetUsed == Len(Recent) >= MaxRestarts

\* The budget is used up: the breaker opens and the call fails.
OpenBreaker(c) ==
    /\ BudgetUsed
    /\ openUntil' = now + Cooldown
    /\ stamps' = Recent
    /\ Leave(c)
    /\ UNCHANGED <<process, client, restarts>>

\* Else the restart is counted, the client closed and the process ended.
GoDown(c, goal) ==
    /\ ~BudgetUsed
    /\ openUntil' = IF HalfClosed THEN 0 ELSE openUntil
    /\ stamps' = Append(Recent, now)
    /\ restarts' = Append(restarts, [at |-> now, probe |-> HalfClosed])
    /\ client' = FALSE
    /\ process' = "none"
    /\ lock' = c
    /\ call' = [Lost(call) EXCEPT ![c].at = "backoff", ![c].goal = goal, ![c].link = "none"]
    /\ UNCHANGED handle

RecordFailure(c, goal) ==
    \/ shut /\ Leave(c) /\ UNCHANGED <<process, client, breaker>>
    \/ ~shut /\ (OpenBreaker(c) \/ GoDown(c, goal))

\* ensure_ready
EnsureReady_NoBreaker(c) ==
    /\ At(c, "ensure") /\ lock = NoCaller
    /\ \/ shut /\ Leave(c) /\ UNCHANGED <<process, client, breaker>>
       \/ /\ ~shut /\ process = "none"
          /\ StartUnlocked(c, "connect")
          /\ UNCHANGED <<client, breaker>>
       \/ /\ ~shut /\ Ready /\ client
          /\ Go(c, "connect")
          /\ UNCHANGED <<handle, lock, process, client, breaker>>
       \/ ~shut /\ process # "none" /\ ~(Ready /\ client) /\ RecordFailure(c, "connect")
    /\ UNCHANGED <<now, shut, calls>>

EnsureReady(c) ==
    /\ At(c, "ensure") /\ lock = NoCaller
    /\ \/ (shut \/ BreakerIsOpen) /\ Leave(c) /\ UNCHANGED <<process, client, breaker>>
       \/ /\ ~shut /\ ~BreakerIsOpen /\ process = "none"
          /\ StartUnlocked(c, "connect")
          /\ UNCHANGED <<client, breaker>>
       \/ /\ ~shut /\ ~BreakerIsOpen /\ Ready /\ client
          /\ Go(c, "connect")
          /\ UNCHANGED <<handle, lock, process, client, breaker>>
       \/ /\ ~shut /\ ~BreakerIsOpen /\ process # "none" /\ ~(Ready /\ client)
          /\ RecordFailure(c, "connect")
    /\ UNCHANGED <<now, shut, calls>>

\* The back-off is over.
BackoffEnds(c) ==
    /\ At(c, "backoff")
    /\ StartUnlocked(c, call[c].goal)
    /\ UNCHANGED <<now, shut, client, stamps, openUntil, restarts, calls>>

\* The wait of _start_unlocked: the probe is answered and the client made.
BootSucceeds(c) ==
    /\ At(c, "boot") /\ Ready
    /\ client' = TRUE
    /\ lock' = NoCaller
    /\ Go(c, call[c].goal) /\ HandleAfter(c)
    /\ UNCHANGED <<now, shut, process, stamps, openUntil, restarts, calls>>

\* The process exits or does not answer in time, and is left as it is.  A probe
\* that was answered is followed by a second one when there is no client; that
\* one fails with a gRPC error, which is caught whatever the process does.
BootFails(c) ==
    /\ At(c, "boot") /\ ~Ready
    /\ \/ ~Caught(c) /\ Leave(c)
       \/ /\ \/ Caught(c)
             \/ call[c].goal = "rpc" /\ call[c].attempt = 1 /\ process = "hung" /\ ~client
          /\ Go(c, "recover")
          /\ lock' = NoCaller /\ UNCHANGED handle
    /\ UNCHANGED <<now, shut, process, client, stamps, openUntil, restarts, calls>>

\* run_sync of the client, if there still is one: a missing one is found by a
\* check, or after it, where the error is not one that counts.
Send(c) ==
    /\ At(c, "rpc")
    /\ \/ /\ client
          /\ call' = [call EXCEPT ![c].at = "wait", ![c].link = IF Ready THEN "open" ELSE "lost"]
          /\ UNCHANGED <<handle, lock>>
       \/ /\ ~client
          /\ \/ Caught(c) /\ Go(c, "recover") /\ UNCHANGED <<handle, lock>>
             \/ Leave(c)
    /\ UNCHANGED <<now, shut, process, client, breaker, calls>>

Succeed(c) ==
    /\ At(c, "wait") /\ call[c].link = "open" /\ Ready
    /\ Leave(c)
    /\ UNCHANGED <<now, shut, process, client, breaker, calls>>

\* A gRPC error: the link is gone, the deadline is over, or the worker's
\* RunSync raised, which gRPC reports to the client as an error of its own.
\* submit makes no difference between them.
Fail(c) ==
    /\ At(c, "wait")
    /\ \/ /\ call[c].attempt = 1
          /\ call' = [call EXCEPT ![c].at = "recover", ![c].link = "none"]
          /\ UNCHANGED <<handle, lock>>
       \/ call[c].attempt = 2 /\ Leave(c)
    /\ UNCHANGED <<now, shut, process, client, breaker, calls>>

\* A channel closed before the call was sent is no gRPC error.
FailClosed(c) ==
    /\ At(c, "wait") /\ call[c].link = "lost"
    /\ Leave(c)
    /\ UNCHANGED <<now, shut, process, client, breaker, calls>>

\* The except clause of submit: one restart, whatever has happened to the
\* process meanwhile, and one more call.
Recover(c) ==
    /\ At(c, "recover") /\ lock = NoCaller
    /\ \/ BreakerIsOpen /\ Leave(c) /\ UNCHANGED <<process, client, breaker>>
       \/ ~BreakerIsOpen /\ RecordFailure(c, "retry")
    /\ UNCHANGED <<now, shut, calls>>

\* super().submit once more, after the supervisor lock was released.
Retry(c) ==
    /\ At(c, "retry")
    /\ call' = [call EXCEPT ![c].at = "connect", ![c].attempt = 2]
    /\ UNCHANGED <<now, handle, lock, shut, process, client, breaker, calls>>

\* shutdown of the handle and of the proxy, by the worker pool.
Shutdown ==
    /\ ~shut /\ handle.owner = NoCaller /\ lock = NoCaller
    /\ shut' = TRUE
    /\ handle' = [handle EXCEPT !.started = FALSE]
    /\ client' = FALSE
    /\ process' = "none"
    /\ call' = Lost(call)
    /\ UNCHANGED <<now, lock, breaker, calls>>

ProcessStep ==
    /\ \/ process = "booting" /\ process' = "up" /\ UNCHANGED call
       \/ process \in {"booting", "up"} /\ process' = "hung" /\ UNCHANGED call
       \/ Running /\ process' = "dead" /\ call' = Lost(call)
    /\ UNCHANGED <<now, handle, lock, shut, client, breaker, calls>>

Tick ==
    /\ now < MaxTime
    /\ now' = now + 1
    /\ UNCHANGED <<handle, lock, shut, process, client, breaker, call, calls>>

ThreadStep(c) ==
    \/ Enter(c) \/ Start(c) \/ EnsureReady(c)
    \/ BackoffEnds(c) \/ BootSucceeds(c) \/ BootFails(c)
    \/ Send(c) \/ Succeed(c) \/ Fail(c) \/ FailClosed(c) \/ Recover(c) \/ Retry(c)

ManagedNext ==
    \/ \E c \in Caller : Submit(c) \/ ThreadStep(c)
    \/ Shutdown \/ ProcessStep \/ Tick

ManagedSpec == ManagedInit /\ [][ManagedNext]_vars

\* A thread that can go on does: every wait of the code has a time-out.  Nobody
\* has to submit or shut down, and neither the process nor the clock has to do
\* anything.  The lock need not be fair: the calls are bounded, so the others
\* cannot keep it for ever.
FairManagedSpec == ManagedSpec /\ \A c \in Caller : WF_vars(ThreadStep(c))
-------------------------------------------------------------------------------
Label == {"idle", "enter", "handle", "ensure", "backoff", "boot", "connect", "rpc", "wait",
          "recover", "retry"}

ManagedTypeOK ==
    /\ now \in 1 .. MaxTime
    /\ handle \in [started : BOOLEAN, owner : Caller \cup {NoCaller}]
    /\ lock \in Caller \cup {NoCaller}
    /\ shut \in BOOLEAN
    /\ process \in {"none", "booting", "up", "hung", "dead"}
    /\ client \in BOOLEAN
    /\ Len(stamps) <= MaxRestarts /\ \A k \in DOMAIN stamps : stamps[k] \in 1 .. now
    /\ openUntil \in 0 .. (MaxTime + Cooldown)
    /\ call \in [Caller -> [at : Label, goal : {"idle", "ensure", "connect", "rpc", "retry"},
                            attempt : 0 .. 2, link : {"none", "open", "lost"}]]
    /\ calls \in 0 .. MaxCalls
    /\ \A k \in DOMAIN restarts : restarts[k].at \in 1 .. now /\ restarts[k].probe \in BOOLEAN

\* Between a restart and the MaxRestarts-th after it there is a whole window of
\* time, or a cool-down that was waited for to its end: so many restarts and no
\* more, whichever threads count them.
RestartBudget ==
    \A k, m \in DOMAIN restarts :
        m = k + MaxRestarts =>
            \/ restarts[m].at - restarts[k].at >= Window
            \/ \E p \in (k + 1) .. m :
                  restarts[p].probe /\ restarts[p].at - restarts[p - 1].at >= Cooldown

\* The breaker opens, and opens again after a cool-down, only when MaxRestarts
\* restarts were counted within the window and since the last probe: restarts
\* longer ago, or before the cool-down, do not count, and one that fails after
\* the cool-down does not open it at once.
OpensForCause ==
    [][openUntil' > openUntil =>
         Cardinality({m \in DOMAIN restarts :
                         /\ now - restarts[m].at < Window
                         /\ \A p \in (m + 1) .. Len(restarts) : ~restarts[p].probe})
             >= MaxRestarts]_vars

\* While the breaker is open no process is started, by threads that were
\* under way when it opened neither.
CooldownRests == [][BreakerIsOpen /\ process' = "booting" => process = "booting"]_vars

\* A submit comes to its end: nobody keeps a lock the others wait for.
SubmitsReturn == \A c \in Caller : ~At(c, "idle") ~> At(c, "idle")
===============================================================================
