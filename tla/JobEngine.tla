------------------------------ MODULE JobEngine ------------------------------
(***************************************************************************)
(* OmniEngine (src/omnirt/engine/engine.py) over the in-memory store, with *)
(* the job queue and the Worker threads of src/omnirt/dispatch.            *)
(*                                                                         *)
(* Threads interleave between store and queue operations, each of which is *)
(* atomic under its own lock.  A thread that does get, changes the copy    *)
(* and then does save is three points in time, which is where cancel and   *)
(* the workers meet.                                                       *)
(*                                                                         *)
(* _execute and _execute_batch are the same walk over "active" items: mark *)
(* each one running, run the executor once for all of them, record the     *)
(* outcome of each.  They differ in one guard: _execute looks at the state *)
(* again when it reads the record, _execute_batch only before the walk.    *)
(* One stage_start and one stage_end stand for those an executor emits,    *)
(* a final stage_error included.                                           *)
(* Executor calls with the same cache key exclude each other (entry.lock); *)
(* here they may also overlap, which allows more interleavings.  Metrics,  *)
(* traces and store.get calls whose value is not used are left out.        *)
(*                                                                         *)
(* An operator whose name has an underscore is a variant of the one after  *)
(* it with a plausible bug, to check that the properties notice; the       *)
(* specification uses none of them.                                        *)
(***************************************************************************)
EXTENDS JobStore, RequestBatcher, Integers

CONSTANTS
    Canceller,   \* threads that call cancel
    NoJob,       \* the job of a canceller that is not in a call
    Request      \* what each job asks for

ASSUME EngineAssumption ==
    /\ Request \in [Job -> RequestType]
    /\ NoJob \notin Job

VARIABLES
    stage,       \* how far submit or run_sync got with the job
    queue,       \* JobQueue._queue
    unfinished,  \* its unfinished_tasks counter
    pc,          \* where each thread is
    held,        \* items a thread took and has not given back
    deferred,    \* items collect_matching took and will put back
    active,      \* items _execute or _execute_batch works on
    idx,         \* loop index over held or active
    copy,        \* the thread's local JobRecord
    event,       \* stage event the executor is emitting
    outcome,     \* how the executor call ended
    cpc, cjob, ccopy,   \* cancel(): program counter, job and local JobRecord
    released,    \* history: jobs whose item or caller is done
    runs,        \* history: executor calls made for each job
    acked        \* history: jobs some cancel reported as cancelled

queueVars  == <<queue, unfinished>>
threadVars == <<pc, held, deferred, active, idx, copy, event, outcome>>
cancelVars == <<cpc, cjob, ccopy, acked>>
vars == <<storeVars, stage, queueVars, threadVars, cancelVars, released, runs>>

Items(seq) == {seq[k] : k \in DOMAIN seq}

Init ==
    /\ StoreInit
    /\ stage = [j \in Job |-> "new"]
    /\ queue = << >> /\ unfinished = 0
    /\ pc = [t \in Thread |-> "idle"]
    /\ held = [t \in Thread |-> << >>]
    /\ deferred = [t \in Thread |-> << >>]
    /\ active = [t \in Thread |-> << >>]
    /\ idx = [t \in Thread |-> 1]
    /\ copy = [t \in Thread |-> NewRecord]
    /\ event = [t \in Thread |-> "stage_start"]
    /\ outcome = [t \in Thread |-> "failed"]
    /\ cpc = [c \in Canceller |-> "idle"]
    /\ cjob = [c \in Canceller |-> NoJob]
    /\ ccopy = [c \in Canceller |-> NewRecord]
    /\ released = {} /\ acked = {}
    /\ runs = [j \in Job |-> 0]
-------------------------------------------------------------------------------
(* Helpers                                                                 *)

GoTo(t, label) == pc' = [pc EXCEPT ![t] = label]

Current(t) == active[t][idx[t]]

\* After the step for item idx: the next item, or the next phase.
NextItem(t, again, after) ==
    IF idx[t] < Len(active[t])
    THEN /\ GoTo(t, again)
         /\ idx' = [idx EXCEPT ![t] = @ + 1]
    ELSE /\ GoTo(t, after)
         /\ idx' = [idx EXCEPT ![t] = 1]
-------------------------------------------------------------------------------
(* submit and run_sync, up to the point where they part                    *)

CreateJob(j) ==
    /\ stage[j] = "new"
    /\ Create(j)
    /\ stage' = [stage EXCEPT ![j] = "created"]
    /\ UNCHANGED <<queueVars, threadVars, cancelVars, released, runs>>

LogEnqueued(j) ==
    /\ stage[j] = "created"
    /\ AppendEvent(j, "job_enqueued")
    /\ stage' = [stage EXCEPT ![j] = "logged"]
    /\ UNCHANGED <<queueVars, threadVars, cancelVars, released, runs>>

\* submit: the item goes to the tail of the queue and the id to the caller.
Put(j) ==
    /\ stage[j] = "logged"
    /\ queue' = Append(queue, j)
    /\ unfinished' = unfinished + 1
    /\ stage' = [stage EXCEPT ![j] = "submitted"]
    /\ UNCHANGED <<storeVars, threadVars, cancelVars, released, runs>>

\* run_sync: the calling thread executes the job itself.
RunSync(t, j) ==
    /\ t \in SyncCaller /\ pc[t] = "idle"
    /\ stage[j] = "logged"
    /\ stage' = [stage EXCEPT ![j] = "sync"]
    /\ held' = [held EXCEPT ![t] = <<j>>]
    /\ active' = [active EXCEPT ![t] = <<j>>]
    /\ idx' = [idx EXCEPT ![t] = 1]
    /\ pc' = [pc EXCEPT ![t] = "read"]
    /\ UNCHANGED <<storeVars, queueVars, deferred, copy, event, outcome,
                   cancelVars, released, runs>>
-------------------------------------------------------------------------------
(* Worker.run and JobQueue.collect_matching                                *)

Take(w) ==
    /\ w \in Worker /\ pc[w] = "idle" /\ queue # << >>
    /\ queue' = Tail(queue)
    /\ held' = [held EXCEPT ![w] = <<Head(queue)>>]
    /\ GoTo(w, IF enabled THEN "collect" ELSE "dispatch")
    /\ UNCHANGED <<storeVars, stage, unfinished, deferred, active, idx, copy,
                   event, outcome, cancelVars, released, runs>>

\* One turn of the collection loop: the candidate joins the batch or is set aside.
Collect(w) ==
    /\ pc[w] = "collect" /\ Len(held[w]) < MaxBatchSize /\ queue # << >>
    /\ queue' = Tail(queue)
    /\ IF Matches(Request[held[w][1]], Request[Head(queue)])
       THEN /\ held' = [held EXCEPT ![w] = Append(@, Head(queue))]
            /\ UNCHANGED deferred
       ELSE /\ deferred' = [deferred EXCEPT ![w] = Append(@, Head(queue))]
            /\ UNCHANGED held
    /\ UNCHANGED <<storeVars, stage, unfinished, pc, active, idx, copy, event,
                   outcome, cancelVars, released, runs>>

\* The set-aside items are forgotten.
CollectEnds_Forgets(w) ==
    /\ pc[w] = "collect"
    /\ GoTo(w, "requeue")
    /\ deferred' = [deferred EXCEPT ![w] = << >>]
    /\ UNCHANGED <<storeVars, stage, queueVars, held, active, idx, copy, event,
                   outcome, cancelVars, released, runs>>

\* Only a full batch ends the collection.
CollectEnds_FullOnly(w) ==
    /\ pc[w] = "collect" /\ Len(held[w]) = MaxBatchSize
    /\ GoTo(w, "requeue")
    /\ UNCHANGED <<storeVars, stage, queueVars, held, deferred, active, idx, copy,
                   event, outcome, cancelVars, released, runs>>

\* The batch is full or the window has elapsed, which may happen at any time.
CollectEnds(w) ==
    /\ pc[w] = "collect"
    /\ GoTo(w, "requeue")
    /\ UNCHANGED <<storeVars, stage, queueVars, held, deferred, active, idx, copy,
                   event, outcome, cancelVars, released, runs>>

\* task_done for one item set aside, before it is back in the queue.
RequeueCounts(w) ==
    /\ pc[w] = "requeue" /\ deferred[w] # << >>
    /\ unfinished' = unfinished - 1
    /\ GoTo(w, "putBack")
    /\ UNCHANGED <<storeVars, stage, queue, held, deferred, active, idx, copy,
                   event, outcome, cancelVars, released, runs>>

\* Then put: it goes to the tail.
Requeue(w) ==
    /\ pc[w] = "putBack" /\ deferred[w] # << >>
    /\ queue' = Append(queue, Head(deferred[w]))
    /\ unfinished' = unfinished + 1
    /\ deferred' = [deferred EXCEPT ![w] = Tail(@)]
    /\ GoTo(w, "requeue")
    /\ UNCHANGED <<storeVars, stage, held, active, idx, copy,
                   event, outcome, cancelVars, released, runs>>

RequeueEnds(w) ==
    /\ pc[w] = "requeue" /\ deferred[w] = << >>
    /\ GoTo(w, "dispatch")
    /\ UNCHANGED <<storeVars, stage, queueVars, held, deferred, active, idx, copy,
                   event, outcome, cancelVars, released, runs>>

\* task_done for the first item of the batch only.
TasksDone_FirstOnly(t) == IF t \in Worker THEN 1 ELSE 0

TasksDone(t) == IF t \in Worker THEN Len(held[t]) ELSE 0

\* _handle_work_items: one item is executed alone, several become a group.
\* An exception of create_group leaves Worker.run: its finally clause counts
\* the items as done and the thread is gone.
Dispatch(w) ==
    /\ pc[w] = "dispatch"
    /\ idx' = [idx EXCEPT ![w] = 1]
    /\ IF Len(held[w]) = 1
       THEN /\ active' = [active EXCEPT ![w] = held[w]]
            /\ GoTo(w, "read")
            /\ UNCHANGED <<held, unfinished, released>>
       ELSE /\ active' = [active EXCEPT ![w] = << >>]
            /\ IF CombineRaises({Request[j] : j \in Items(held[w])})
               THEN /\ GoTo(w, "dead")
                    /\ unfinished' = unfinished - TasksDone(w)
                    /\ released' = released \cup Items(held[w])
                    /\ held' = [held EXCEPT ![w] = << >>]
               ELSE /\ GoTo(w, "filter")
                    /\ UNCHANGED <<held, unfinished, released>>
    /\ UNCHANGED <<storeVars, stage, queue, deferred, copy, event, outcome,
                   cancelVars, runs>>

\* _execute_batch first drops the items that are cancelled by now.
Filter(w) ==
    /\ pc[w] = "filter"
    /\ IF idx[w] <= Len(held[w])
       THEN /\ active' = IF jobs[held[w][idx[w]]].state = "cancelled" THEN active
                         ELSE [active EXCEPT ![w] = Append(@, held[w][idx[w]])]
            /\ idx' = [idx EXCEPT ![w] = @ + 1]
            /\ UNCHANGED pc
       ELSE /\ GoTo(w, IF active[w] = << >> THEN "release" ELSE "read")
            /\ idx' = [idx EXCEPT ![w] = 1]
            /\ UNCHANGED active
    /\ UNCHANGED <<storeVars, stage, queueVars, held, deferred, copy, event,
                   outcome, cancelVars, released, runs>>
-------------------------------------------------------------------------------
(* _execute and _execute_batch                                             *)

FoundCancelled_Never(t) == FALSE

\* A lone item found cancelled is dropped; in a batch nobody looks again.
FoundCancelled(t) == Len(active[t]) = 1 /\ jobs[Current(t)].state = "cancelled"

ReadJob(t) ==
    /\ pc[t] = "read"
    /\ IF FoundCancelled(t)
       THEN /\ GoTo(t, "release")
            /\ UNCHANGED copy
       ELSE /\ GoTo(t, "saveRunning")
            /\ copy' = [copy EXCEPT ![t] = jobs[Current(t)]]
    /\ UNCHANGED <<storeVars, stage, queueVars, held, deferred, active, idx, event,
                   outcome, cancelVars, released, runs>>

\* The job is recorded as its own worker.
StartedRecord_WrongId(t) == [copy[t] EXCEPT !.state = "running", !.worker = Current(t)]

StartedRecord(t) == [copy[t] EXCEPT !.state = "running", !.worker = t]

SaveRunning(t) ==
    /\ pc[t] = "saveRunning"
    /\ Save(Current(t), StartedRecord(t))
    /\ copy' = [copy EXCEPT ![t] = NewRecord]
    /\ GoTo(t, "logStarted")
    /\ UNCHANGED <<stage, queueVars, held, deferred, active, idx, event, outcome,
                   cancelVars, released, runs>>

LogStarted(t) ==
    /\ pc[t] = "logStarted"
    /\ AppendEvent(Current(t), "job_started")
    /\ NextItem(t, "read", "run")
    /\ UNCHANGED <<stage, queueVars, held, deferred, active, copy, event, outcome,
                   cancelVars, released, runs>>

\* pipeline_cache.get_or_create built or found the executor, and its run
\* begins: one call for all active items.
Run(t) ==
    /\ pc[t] = "run"
    /\ runs' = [j \in Job |-> IF j \in Items(active[t]) THEN runs[j] + 1
                                                        ELSE runs[j]]
    /\ event' = [event EXCEPT ![t] = "stage_start"]
    /\ GoTo(t, "emit")
    /\ UNCHANGED <<storeVars, stage, queueVars, held, deferred, active, idx, copy,
                   outcome, cancelVars, released>>

\* A failed build is not recorded.
BuildFails_Silent(t) ==
    /\ pc[t] = "run"
    /\ GoTo(t, "release")
    /\ UNCHANGED <<storeVars, stage, queueVars, held, deferred, active, idx, copy,
                   event, outcome, cancelVars, released, runs>>

\* The executor could not be built, or raised before its first event.
BuildFails(t) ==
    /\ pc[t] = "run"
    /\ outcome' = [outcome EXCEPT ![t] = "failed"]
    /\ GoTo(t, "readBack")
    /\ UNCHANGED <<storeVars, stage, queueVars, held, deferred, active, idx, copy,
                   event, cancelVars, released, runs>>

AfterEmit(t) == IF event[t] = "stage_start" THEN "compute" ELSE "readBack"

\* on_event: a stage event goes to the record of every active item.
Emit(t) ==
    /\ pc[t] = "emit"
    /\ AppendEvent(Current(t), event[t])
    /\ NextItem(t, "emit", AfterEmit(t))
    /\ UNCHANGED <<stage, queueVars, held, deferred, active, copy, event, outcome,
                   cancelVars, released, runs>>

\* The executor returns or raises, after a last event (a stage_error if it
\* raised, or a stage_end if it was the export or the split of a batch that
\* failed), or it raises without one, as the modular executor does.
Compute(t) ==
    /\ pc[t] = "compute"
    /\ \/ /\ \E o \in {"succeeded", "failed"} : outcome' = [outcome EXCEPT ![t] = o]
          /\ event' = [event EXCEPT ![t] = "stage_end"]
          /\ GoTo(t, "emit")
       \/ /\ outcome' = [outcome EXCEPT ![t] = "failed"]
          /\ GoTo(t, "readBack")
          /\ UNCHANGED event
    /\ UNCHANGED <<storeVars, stage, queueVars, held, deferred, active, idx, copy,
                   cancelVars, released, runs>>

\* The outcome is written over whatever the thread had in hand.
Reread_Stale(t) == copy[t]

Reread(t) == jobs[Current(t)]

ReadBack(t) ==
    /\ pc[t] = "readBack"
    /\ copy' = [copy EXCEPT ![t] = Reread(t)]
    /\ GoTo(t, "saveFinal")
    /\ UNCHANGED <<storeVars, stage, queueVars, held, deferred, active, idx, event,
                   outcome, cancelVars, released, runs>>

\* A failure sets the error but not the state.
FinalRecord_NoState(t) ==
    IF outcome[t] = "succeeded"
    THEN [copy[t] EXCEPT !.state = "succeeded", !.result = TRUE, !.error = FALSE]
    ELSE [copy[t] EXCEPT !.error = TRUE]

FinalRecord(t) ==
    IF outcome[t] = "succeeded"
    THEN [copy[t] EXCEPT !.state = "succeeded", !.result = TRUE, !.error = FALSE]
    ELSE [copy[t] EXCEPT !.state = "failed", !.error = TRUE]

SaveFinal(t) ==
    /\ pc[t] = "saveFinal"
    /\ Save(Current(t), FinalRecord(t))
    /\ copy' = [copy EXCEPT ![t] = NewRecord]
    /\ GoTo(t, "logFinal")
    /\ UNCHANGED <<stage, queueVars, held, deferred, active, idx, event, outcome,
                   cancelVars, released, runs>>

LogFinal(t) ==
    /\ pc[t] = "logFinal"
    /\ AppendEvent(Current(t), IF outcome[t] = "succeeded" THEN "job_finished"
                                                           ELSE "job_failed")
    /\ NextItem(t, "readBack", "release")
    /\ UNCHANGED <<stage, queueVars, held, deferred, active, copy, event, outcome,
                   cancelVars, released, runs>>

\* Worker.run's finally clause (task_done for each item), or run_sync's return.
\* The call's local variables are gone.
Release(t) ==
    /\ pc[t] = "release"
    /\ unfinished' = unfinished - TasksDone(t)
    /\ released' = released \cup Items(held[t])
    /\ held' = [held EXCEPT ![t] = << >>]
    /\ active' = [active EXCEPT ![t] = << >>]
    /\ idx' = [idx EXCEPT ![t] = 1]
    /\ event' = [event EXCEPT ![t] = "stage_start"]
    /\ outcome' = [outcome EXCEPT ![t] = "failed"]
    /\ GoTo(t, "idle")
    /\ UNCHANGED <<storeVars, stage, queue, deferred, copy, cancelVars, runs>>
-------------------------------------------------------------------------------
(* cancel, for a job whose id submit has returned                          *)

CancelReads(c, j) ==
    /\ cpc[c] = "idle" /\ stage[j] = "submitted"
    /\ jobs[j].state = "queued"
    /\ cjob' = [cjob EXCEPT ![c] = j]
    /\ ccopy' = [ccopy EXCEPT ![c] = jobs[j]]
    /\ cpc' = [cpc EXCEPT ![c] = "save"]
    /\ UNCHANGED <<storeVars, stage, queueVars, threadVars, acked, released, runs>>

CancelSaves(c) ==
    /\ cpc[c] = "save"
    /\ Save(cjob[c], [ccopy[c] EXCEPT !.state = "cancelled"])
    /\ ccopy' = [ccopy EXCEPT ![c] = NewRecord]
    /\ cpc' = [cpc EXCEPT ![c] = "log"]
    /\ UNCHANGED <<stage, queueVars, threadVars, cjob, acked, released, runs>>

CancelLogs(c) ==
    /\ cpc[c] = "log"
    /\ AppendEvent(cjob[c], "job_cancelled")
    /\ cpc' = [cpc EXCEPT ![c] = "return"]
    /\ UNCHANGED <<stage, queueVars, threadVars, cjob, ccopy, acked,
                   released, runs>>

\* The record cancel returns is read last; the caller is told its state.
CancelReturns(c) ==
    /\ cpc[c] = "return"
    /\ acked' = IF jobs[cjob[c]].state = "cancelled" THEN acked \cup {cjob[c]} ELSE acked
    /\ cpc' = [cpc EXCEPT ![c] = "idle"]
    /\ cjob' = [cjob EXCEPT ![c] = NoJob]
    /\ UNCHANGED <<storeVars, stage, queueVars, threadVars, ccopy, released, runs>>
-------------------------------------------------------------------------------
SubmitStep(j) == CreateJob(j) \/ LogEnqueued(j) \/ Put(j)

CollectStep(w) ==
    \/ Take(w) \/ Collect(w) \/ CollectEnds(w)
    \/ RequeueCounts(w) \/ Requeue(w) \/ RequeueEnds(w)
    \/ Dispatch(w) \/ Filter(w)

ExecuteStep(t) ==
    \/ ReadJob(t) \/ SaveRunning(t) \/ LogStarted(t) \/ Run(t) \/ BuildFails(t)
    \/ Emit(t) \/ Compute(t) \/ ReadBack(t) \/ SaveFinal(t) \/ LogFinal(t)
    \/ Release(t)

CancelStep(c) == CancelSaves(c) \/ CancelLogs(c) \/ CancelReturns(c)

Next ==
    \/ \E j \in Job : SubmitStep(j)
    \/ \E t \in SyncCaller, j \in Job : RunSync(t, j)
    \/ \E w \in Worker : CollectStep(w)
    \/ \E t \in Thread : ExecuteStep(t)
    \/ \E c \in Canceller : CancelStep(c) \/ \E j \in Job : CancelReads(c, j)

Spec == Init /\ [][Next]_vars

\* A call that has begun goes on, a worker thread with something to do gets
\* to run, and executor calls return (the pipelines are outside the model).
\* Nobody has to submit a job or cancel one.
Fairness ==
    /\ \A j \in Job : WF_vars(stage[j] # "new" /\ SubmitStep(j))
    /\ \A w \in Worker : WF_vars(CollectStep(w))
    /\ \A t \in Thread : WF_vars(ExecuteStep(t))
    /\ \A c \in Canceller : WF_vars(CancelStep(c))

FairSpec == Spec /\ Fairness
-------------------------------------------------------------------------------
(* What the engine guarantees                                              *)

QueueTypeOK == queue \in Seq(Job) /\ unfinished \in Int

ThreadTypeOK ==
    /\ pc \in [Thread -> {"idle", "collect", "requeue", "putBack", "dispatch", "filter",
                          "read", "saveRunning", "logStarted", "run", "emit", "compute",
                          "readBack", "saveFinal", "logFinal", "release", "dead"}]
    /\ held \in [Thread -> Seq(Job)]
    /\ deferred \in [Thread -> Seq(Job)]
    /\ active \in [Thread -> Seq(Job)]
    /\ idx \in [Thread -> Nat \ {0}]
    /\ copy \in [Thread -> JobRecord]
    /\ event \in [Thread -> EventKind]
    /\ outcome \in [Thread -> {"succeeded", "failed"}]

CancelTypeOK ==
    /\ cpc \in [Canceller -> {"idle", "save", "log", "return"}]
    /\ cjob \in [Canceller -> Job \cup {NoJob}]
    /\ \A c \in Canceller : cpc[c] # "idle" => cjob[c] \in Job
    /\ ccopy \in [Canceller -> JobRecord]
    /\ acked \subseteq Job

TypeOK ==
    /\ StoreTypeOK /\ QueueTypeOK /\ ThreadTypeOK /\ CancelTypeOK
    /\ stage \in [Job -> {"new", "created", "logged", "submitted", "sync"}]
    /\ released \subseteq Job
    /\ runs \in [Job -> Nat]

\* The thread is inside _execute or _execute_batch, past the filter.
Walking == {"read", "saveRunning", "logStarted", "run", "emit", "compute",
            "readBack", "saveFinal", "logFinal"}

Holding(t) == Items(held[t]) \cup Items(deferred[t])

InFlight == {j \in Job : stage[j] \in {"submitted", "sync"}} \ released

NoDuplicates(seq) == \A i, k \in DOMAIN seq : seq[i] = seq[k] => i = k

\* Batching moves items between the queue, the batch and the set-aside list
\* of several workers.  An item is never in two of these places, nor twice
\* in one, nor anywhere once it was given back (JobQueue.collect_matching,
\* Worker.run).
ExclusiveItems ==
    /\ NoDuplicates(queue)
    /\ \A t \in Thread :
          /\ NoDuplicates(held[t]) /\ NoDuplicates(deferred[t])
          /\ Items(held[t]) \cap Items(deferred[t]) = {}
          /\ Items(queue) \cap Holding(t) = {}
          /\ released \cap Holding(t) = {}
    /\ \A t, u \in Thread : t # u => Holding(t) \cap Holding(u) = {}
    /\ released \cap Items(queue) = {}

\* Submitted jobs whose item was not given back yet.
Unreturned == {j \in InFlight : stage[j] = "submitted"}

\* Nor does one get lost: what was submitted and not given back is in the
\* queue or with a thread.  The queue's unfinished_tasks counts the items that
\* went through the queue, less those counted down and not put back yet: it is
\* never 0 before all are given back, so that a join would not return early
\* and task_done never raises.
NoItemLost ==
    /\ InFlight = Items(queue) \cup UNION {Holding(t) : t \in Thread}
    /\ unfinished + Cardinality({w \in Worker : pc[w] = "putBack"}) = Cardinality(Unreturned)
    /\ unfinished = 0 => Unreturned = {}

\* However items are collected, deferred, filtered and cancelled, no job
\* reaches an executor twice.
AtMostOneRun == \A j \in Job : runs[j] <= 1

\* A record that says "running" is being worked on, by the thread it names
\* as its worker_id: no race leaves a job running that nobody runs.
RunningIsOwned ==
    \A j \in Job : jobs[j].state = "running" =>
        \E t \in Thread :
            /\ jobs[j].worker = t
            /\ j \in Items(active[t])
            /\ pc[t] \in Walking

\* The copies written back by workers and by cancel never mix: a result only
\* with "succeeded", an error only with "failed", whoever wrote last.
OutcomeMatchesState ==
    \A j \in Job : /\ jobs[j].result <=> jobs[j].state = "succeeded"
                   /\ jobs[j].error <=> jobs[j].state = "failed"

\* No cancel found the job queued.
Undisturbed(j) == /\ "job_cancelled" \notin Items(log[j])
                  /\ \A c \in Canceller : cjob[c] # j

\* Unless a cancel found the job queued, its record keeps every event ever
\* appended, in order, although save rewrites the whole list each time.
EventsKept == \A j \in Job : Undisturbed(j) => jobs[j].events = log[j]

\* An item that was given back has a settled job, with one exception: a
\* request the batcher has no signature for, taken down with its worker.
ReleasedIsSettled ==
    \A j \in released :
        \/ jobs[j].state \in TerminalState
        \/ /\ jobs[j].state = "queued" /\ runs[j] = 0
           /\ ~Batchable(Request[j])

\* A thread has looked at the state of j for the last time before running it.
PastLook(t, j) ==
    /\ j \in Items(active[t])
    /\ pc[t] # "release"
    /\ ~(pc[t] = "read" /\ Len(active[t]) = 1)

Latched(j) == jobs[j].state = "cancelled" /\ \A t \in Thread : ~PastLook(t, j)

\* A cancel that is saved before any worker's last look at the state is
\* final: the job stays cancelled and its executor is never called.
CancelLatches ==
    [][\A j \in Job : Latched(j) => Latched(j)' /\ runs'[j] = runs[j]]_vars

\* Every job that reaches the queue or a run_sync caller settles for good,
\* as long as no request can take a worker down.
EveryJobSettles ==
    \A j \in Job : stage[j] \in {"submitted", "sync"} ~> [](jobs[j].state \in TerminalState)
-------------------------------------------------------------------------------
(* Refinement: the queue, the batches and the run_sync callers are a       *)
(* WorkPool.                                                               *)

\* A thread is none of the places that are not threads.
ASSUME PlaceAssumption == Thread \cap {"absent", "waiting", "done"} = {}

PlaceOf(j) ==
    IF \E t \in Thread : j \in Holding(t) THEN CHOOSE t \in Thread : j \in Holding(t)
    ELSE IF j \in released THEN "done"
    ELSE IF j \in Items(queue) THEN "waiting"
    ELSE "absent"

Pool == INSTANCE WorkPool WITH
    Item <- Job, Agent <- Thread, place <- [j \in Job |-> PlaceOf(j)], runs <- runs

\* Taking, collecting, setting aside, merging, filtering and releasing items
\* amounts to the work pool: every engine step is one of its steps or none.
ImplementsWorkPool == Pool!WorkPoolSpec
-------------------------------------------------------------------------------
(* What the tests say, and the code does not do                            *)

\* A cancel acknowledged as "cancelled" leaves the job cancelled.
AckedCancelSticks == \A j \in acked : jobs[j].state = "cancelled"
===============================================================================
