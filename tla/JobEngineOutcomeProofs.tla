------------------------ MODULE JobEngineOutcomeProofs -------------------------
(***************************************************************************)
(* Proofs about the records of JobEngine, which several threads read, copy *)
(* and write back, for any jobs, threads, cancellers and requests: a       *)
(* record that says running has a thread that runs it (RunningIsOwned);    *)
(* result and error belong to the state (OutcomeMatchesState), a job that  *)
(* no cancel met keeps its events (EventsKept), a cancel that is saved     *)
(* before every worker's last look is final (CancelLatches), and what is   *)
(* given back is settled (ReleasedIsSettled).                              *)
(*                                                                         *)
(* The walk over the active items passes each item twice, to mark it and   *)
(* to settle it.  RunningInv adds how far the second pass has come: what   *)
(* it has passed is not running any more.  A copy is harmless when it is   *)
(* written back because no outcome is in it: only a job that its thread    *)
(* has settled has one (OnlySettled), and a settled job is neither read    *)
(* for a run nor settled again.                                            *)
(***************************************************************************)
EXTENDS JobEngineProofs

----------------------------------------------------------------------------
(* Who runs a job whose record says running.                               *)

\* The thread has item j before it: in the pass that settles the items it has
\* not come past j.
Works(t, j) ==
  /\ pc[t] \in Walking
  /\ \E k \in DOMAIN active[t] :
        /\ active[t][k] = j
        /\ pc[t] \in {"readBack", "saveFinal"} => k >= idx[t]
        /\ pc[t] = "logFinal" => k > idx[t]

RunningInv ==
  \A j \in Job : jobs[j].state = "running" =>
     \E t \in Thread : jobs[j].worker = t /\ Works(t, j)

\* The passes begin at the first item.
StartsAtFirst == \A t \in Thread : pc[t] \in {"run", "compute"} => idx[t] = 1

OwnerInv == TypeInv /\ StartsAtFirst /\ RunningInv

\* No record begins to say running, and no running one changes its worker.
NoNewRunning ==
  \A j \in Job : jobs'[j].state = "running"
                   => jobs[j].state = "running" /\ jobs'[j].worker = jobs[j].worker

\* The initial states.
LEMMA InitOwner == Init => OwnerInv
  BY InitTypeInv DEF Init, StoreInit, NewRecord, OwnerInv, StartsAtFirst, RunningInv

\* A step of thread t that starts nothing keeps the invariant if t still has
\* before it what it had, as far as that is running.
LEMMA MovesOn ==
  ASSUME RunningInv, StartsAtFirst, NEW t \in Thread, NoNewRunning,
         \A u \in Thread \ {t} : /\ pc'[u] = pc[u] /\ idx'[u] = idx[u]
                                 /\ active'[u] = active[u],
         pc'[t] \in {"run", "compute"} => idx'[t] = 1,
         \A j \in Job : Works(t, j) /\ jobs'[j].state = "running" => Works(t, j)'
  PROVE  RunningInv' /\ StartsAtFirst'
  <1>1. ASSUME NEW j \in Job, jobs'[j].state = "running"
        PROVE  \E u \in Thread : jobs'[j].worker = u /\ Works(u, j)'
    <2>1. jobs[j].state = "running" /\ jobs'[j].worker = jobs[j].worker
      BY <1>1 DEF NoNewRunning
    <2>2. PICK u \in Thread : jobs[j].worker = u /\ Works(u, j)
      BY <2>1 DEF RunningInv
    <2>3. CASE u = t
      BY <1>1, <2>1, <2>2, <2>3
    <2>4. CASE u # t
      BY <2>1, <2>2, <2>4 DEF Works
    <2> QED BY <2>3, <2>4
  <1>2. StartsAtFirst'
    BY DEF StartsAtFirst
  <1> QED BY <1>1, <1>2 DEF RunningInv

\* The store's operations start nothing unless a record that says running is saved.
LEMMA StoreStartsNothing ==
  ASSUME StoreTypeOK, NEW j \in Job
  PROVE  /\ UNCHANGED storeVars => NoNewRunning
         /\ Create(j) => NoNewRunning
         /\ \A e : AppendEvent(j, e) => NoNewRunning
         /\ \A r : Save(j, r) /\ r.state # "running" => NoNewRunning
  <1>0. jobs \in [Job -> JobRecord]
    BY DEF StoreTypeOK
  <1>1. UNCHANGED storeVars => NoNewRunning
    BY DEF NoNewRunning, storeVars
  <1>2. Create(j) => NoNewRunning
    BY <1>0 DEF NoNewRunning, Create, NewRecord
  <1>3. ASSUME NEW e, AppendEvent(j, e) PROVE NoNewRunning
    <2>1. ASSUME NEW i \in Job
          PROVE  jobs'[i].state = jobs[i].state /\ jobs'[i].worker = jobs[i].worker
      <3>1. jobs' = [jobs EXCEPT ![j] = [jobs[j] EXCEPT !.events = Append(jobs[j].events, e)]]
        BY <1>3 DEF AppendEvent
      <3>2. jobs[j] \in JobRecord
        BY <1>0
      <3>3. /\ [jobs[j] EXCEPT !.events = Append(jobs[j].events, e)].state = jobs[j].state
            /\ [jobs[j] EXCEPT !.events = Append(jobs[j].events, e)].worker = jobs[j].worker
        BY <3>2 DEF JobRecord
      <3> QED BY <1>0, <3>1, <3>3
    <2> QED BY <2>1 DEF NoNewRunning
  <1>4. ASSUME NEW r, Save(j, r), r.state # "running" PROVE NoNewRunning
    BY <1>0, <1>4 DEF NoNewRunning, Save
  <1> QED BY <1>1, <1>2, <1>3, <1>4

\* What NextItem does to the thread, and that it leaves the others alone.
LEMMA NextItemMoves ==
  ASSUME ThreadTypeOK, NEW t \in Thread, NEW again, NEW after,
         NextItem(t, again, after), UNCHANGED active
  PROVE  /\ \A u \in Thread \ {t} : /\ pc'[u] = pc[u] /\ idx'[u] = idx[u]
                                    /\ active'[u] = active[u]
         /\ \/ idx[t] < Len(active[t]) /\ pc'[t] = again /\ idx'[t] = idx[t] + 1
            \/ ~(idx[t] < Len(active[t])) /\ pc'[t] = after /\ idx'[t] = 1
  <1>1. CASE idx[t] < Len(active[t])
    <2>1. pc' = [pc EXCEPT ![t] = again] /\ idx' = [idx EXCEPT ![t] = idx[t] + 1]
      BY <1>1 DEF NextItem, GoTo
    <2> QED BY <1>1, <2>1 DEF ThreadTypeOK
  <1>2. CASE ~(idx[t] < Len(active[t]))
    <2>1. pc' = [pc EXCEPT ![t] = after] /\ idx' = [idx EXCEPT ![t] = 1]
      BY <1>2 DEF NextItem, GoTo
    <2> QED BY <1>2, <2>1 DEF ThreadTypeOK
  <1> QED BY <1>1, <1>2

\* The first pass: read, mark as running, say so.
LEMMA MarkKeepsOwner ==
  ASSUME OwnerInv, NEW t \in Thread, ReadJob(t) \/ SaveRunning(t) \/ LogStarted(t)
  PROVE  RunningInv' /\ StartsAtFirst'
  <1>0. /\ StoreTypeOK /\ ThreadTypeOK /\ IndexInRange /\ RunningInv /\ StartsAtFirst
        /\ active[t] \in Seq(Job) /\ pc[t] \in Walking
        /\ idx[t] \in 1 .. Len(active[t]) /\ Current(t) \in Job
    BY CurrentType
    DEF OwnerInv, TypeInv, TypeOK, ThreadTypeOK, IndexInRange, ReadJob, SaveRunning, LogStarted,
        Walking
  <1>1. CASE ReadJob(t)
    <2>1. /\ \A u \in Thread \ {t} : /\ pc'[u] = pc[u] /\ idx'[u] = idx[u]
                                     /\ active'[u] = active[u]
          /\ UNCHANGED <<idx, active>> /\ NoNewRunning /\ jobs' = jobs
          /\ pc'[t] = IF FoundCancelled(t) THEN "release" ELSE "saveRunning"
      BY <1>0, <1>1, StoreStartsNothing DEF ReadJob, GoTo, ThreadTypeOK, storeVars
    <2>2. ASSUME NEW j \in Job, Works(t, j), jobs'[j].state = "running"
          PROVE  Works(t, j)'
      <3>1. CASE FoundCancelled(t)
        <4>1. Len(active[t]) = 1 /\ idx[t] = 1 /\ \A k \in DOMAIN active[t] : k = 1
          BY <1>0, <3>1 DEF FoundCancelled
        <4>2. j = Current(t)
          BY <2>2, <4>1 DEF Works, Current
        <4> QED BY <2>1, <2>2, <3>1, <4>2 DEF FoundCancelled
      <3>2. CASE ~FoundCancelled(t)
        BY <2>1, <2>2, <3>2 DEF Works, Walking
      <3> QED BY <3>1, <3>2
    <2>3. pc'[t] \notin {"run", "compute"}
      BY <2>1
    <2> QED BY <1>0, <2>1, <2>2, <2>3, MovesOn
  <1>2. CASE SaveRunning(t)
    <2>1. /\ \A u \in Thread \ {t} : /\ pc'[u] = pc[u] /\ idx'[u] = idx[u]
                                     /\ active'[u] = active[u]
          /\ UNCHANGED <<idx, active>> /\ pc'[t] = "logStarted"
      BY <1>0, <1>2 DEF SaveRunning, GoTo, ThreadTypeOK
    <2>2. /\ StartedRecord(t).worker = t /\ copy[t] \in JobRecord
          /\ jobs' = [jobs EXCEPT ![Current(t)] = StartedRecord(t)]
      BY <1>0, <1>2 DEF SaveRunning, Save, StartedRecord, ThreadTypeOK, JobRecord
    <2>3. ASSUME NEW j \in Job, jobs'[j].state = "running"
          PROVE  \E u \in Thread : jobs'[j].worker = u /\ Works(u, j)'
      <3>1. CASE j = Current(t)
        <4>1. jobs'[j].worker = t
          BY <1>0, <2>2, <3>1 DEF StoreTypeOK
        <4>2. Works(t, j)'
          BY <1>0, <2>1, <3>1 DEF Works, Walking, Current
        <4> QED BY <4>1, <4>2
      <3>2. CASE j # Current(t)
        <4>1. jobs'[j] = jobs[j]
          BY <1>0, <2>2, <3>2 DEF StoreTypeOK
        <4>2. PICK u \in Thread : jobs[j].worker = u /\ Works(u, j)
          BY <1>0, <2>3, <4>1 DEF RunningInv
        <4>3. Works(u, j)'
          <5>1. CASE u = t
            BY <2>1, <4>2, <5>1 DEF Works, Walking
          <5>2. CASE u # t
            BY <2>1, <4>2, <5>2 DEF Works
          <5> QED BY <5>1, <5>2
        <4> QED BY <4>1, <4>2, <4>3
      <3> QED BY <3>1, <3>2
    <2> QED BY <1>0, <2>1, <2>3 DEF RunningInv, StartsAtFirst
  <1>3. CASE LogStarted(t)
    <2>1. /\ NextItem(t, "read", "run") /\ UNCHANGED active /\ NoNewRunning
      BY <1>0, <1>3, StoreStartsNothing DEF LogStarted
    <2>2. /\ \A u \in Thread \ {t} : /\ pc'[u] = pc[u] /\ idx'[u] = idx[u]
                                     /\ active'[u] = active[u]
          /\ (pc'[t] = "read" \/ (pc'[t] = "run" /\ idx'[t] = 1))
      BY <1>0, <2>1, NextItemMoves
    <2>3. \A j \in Job : Works(t, j) => Works(t, j)'
      BY <2>1, <2>2 DEF Works, Walking
    <2> QED BY <1>0, <2>1, <2>2, <2>3, MovesOn
  <1> QED BY <1>1, <1>2, <1>3

\* The call of the executor.
LEMMA CallKeepsOwner ==
  ASSUME OwnerInv, NEW t \in Thread, Run(t) \/ BuildFails(t) \/ Emit(t) \/ Compute(t)
  PROVE  RunningInv' /\ StartsAtFirst'
  <1>0. /\ StoreTypeOK /\ ThreadTypeOK /\ IndexInRange /\ RunningInv /\ StartsAtFirst
        /\ active[t] \in Seq(Job) /\ pc[t] \in Walking
        /\ idx[t] \in 1 .. Len(active[t]) /\ Current(t) \in Job
    BY CurrentType
    DEF OwnerInv, TypeInv, TypeOK, ThreadTypeOK, IndexInRange, Run, BuildFails, Emit, Compute,
        Walking
  <1>1. /\ UNCHANGED active /\ NoNewRunning
        /\ \A u \in Thread \ {t} : pc'[u] = pc[u] /\ idx'[u] = idx[u]
        /\ pc'[t] \in {"run", "compute", "readBack"} => idx'[t] = 1
        /\ pc'[t] \in {"emit", "compute", "readBack"}
    <2>1. CASE Run(t) \/ BuildFails(t) \/ Compute(t)
      <3>1. /\ UNCHANGED <<active, idx, storeVars>>
            /\ pc[t] \in {"run", "compute"}
            /\ pc' = [pc EXCEPT ![t] = "emit"] \/ pc' = [pc EXCEPT ![t] = "readBack"]
        BY <2>1 DEF Run, BuildFails, Compute, GoTo
      <3>2. NoNewRunning
        BY <1>0, <3>1, StoreStartsNothing
      <3> QED BY <1>0, <3>1, <3>2 DEF ThreadTypeOK, StartsAtFirst
    <2>2. CASE Emit(t)
      <3>1. /\ NextItem(t, "emit", AfterEmit(t)) /\ UNCHANGED active
            /\ AfterEmit(t) \in {"compute", "readBack"}
        BY <2>2 DEF Emit, AfterEmit
      <3>2. NoNewRunning
        BY <1>0, <2>2, StoreStartsNothing DEF Emit
      <3> QED BY <1>0, <3>1, <3>2, NextItemMoves
    <2> QED BY <2>1, <2>2
  <1>2. \A j \in Job : Works(t, j) => Works(t, j)'
    <2>1. \A k \in DOMAIN active[t] : k >= 1
      BY <1>0
    <2> QED BY <1>1, <2>1 DEF Works, Walking
  <1> QED BY <1>0, <1>1, <1>2, MovesOn

\* The second pass: what is settled is not running, and the thread gives the
\* items back when it has settled all.
LEMMA SettleKeepsOwner ==
  ASSUME OwnerInv, NEW t \in Thread, ReadBack(t) \/ SaveFinal(t) \/ LogFinal(t)
  PROVE  RunningInv' /\ StartsAtFirst'
  <1>0. /\ StoreTypeOK /\ ThreadTypeOK /\ IndexInRange /\ RunningInv /\ StartsAtFirst
        /\ active[t] \in Seq(Job) /\ pc[t] \in Walking
        /\ idx[t] \in 1 .. Len(active[t]) /\ Current(t) \in Job
    BY CurrentType
    DEF OwnerInv, TypeInv, TypeOK, ThreadTypeOK, IndexInRange, ReadBack, SaveFinal, LogFinal,
        Walking
  <1>1. CASE ReadBack(t)
    <2>1. /\ UNCHANGED <<active, idx>> /\ NoNewRunning
          /\ \A u \in Thread \ {t} : pc'[u] = pc[u]
          /\ pc[t] = "readBack" /\ pc'[t] = "saveFinal"
      BY <1>0, <1>1, StoreStartsNothing DEF ReadBack, GoTo, ThreadTypeOK
    <2>2. \A j \in Job : Works(t, j) => Works(t, j)'
      BY <2>1 DEF Works, Walking
    <2> QED BY <1>0, <2>1, <2>2, MovesOn
  <1>2. CASE SaveFinal(t)
    <2>1. /\ UNCHANGED <<active, idx>>
          /\ \A u \in Thread \ {t} : pc'[u] = pc[u]
          /\ pc[t] = "saveFinal" /\ pc'[t] = "logFinal"
      BY <1>0, <1>2 DEF SaveFinal, GoTo, ThreadTypeOK
    <2>2. /\ FinalRecord(t).state # "running"
          /\ Save(Current(t), FinalRecord(t))
      BY <1>0, <1>2 DEF SaveFinal, FinalRecord, ThreadTypeOK, JobRecord
    <2>3. NoNewRunning
      BY <1>0, <2>2, StoreStartsNothing
    <2>4. ASSUME NEW j \in Job, Works(t, j), jobs'[j].state = "running"
          PROVE  Works(t, j)'
      <3>1. j # Current(t)
        BY <1>0, <2>2, <2>4 DEF Save, StoreTypeOK
      <3>2. PICK k \in DOMAIN active[t] : active[t][k] = j /\ k >= idx[t]
        BY <2>1, <2>4 DEF Works
      <3>3. k > idx[t]
        BY <1>0, <3>1, <3>2 DEF Current
      <3> QED BY <2>1, <3>2, <3>3 DEF Works, Walking
    <2> QED BY <1>0, <2>1, <2>3, <2>4, MovesOn
  <1>3. CASE LogFinal(t)
    <2>1. /\ NextItem(t, "readBack", "release") /\ UNCHANGED active /\ NoNewRunning
          /\ pc[t] = "logFinal"
      BY <1>0, <1>3, StoreStartsNothing DEF LogFinal
    <2>2. /\ \A u \in Thread \ {t} : /\ pc'[u] = pc[u] /\ idx'[u] = idx[u]
                                     /\ active'[u] = active[u]
          /\ \/ idx[t] < Len(active[t]) /\ pc'[t] = "readBack" /\ idx'[t] = idx[t] + 1
             \/ ~(idx[t] < Len(active[t])) /\ pc'[t] = "release" /\ idx'[t] = 1
      BY <1>0, <2>1, NextItemMoves
    <2>3. ASSUME NEW j \in Job, Works(t, j) PROVE Works(t, j)'
      <3>1. PICK k \in DOMAIN active[t] : active[t][k] = j /\ k > idx[t]
        BY <2>1, <2>3 DEF Works
      <3>2. k \in 1 .. Len(active[t]) /\ k >= idx[t] + 1 /\ idx[t] < Len(active[t])
        BY <1>0, <3>1
      <3> QED BY <2>1, <2>2, <3>1, <3>2 DEF Works, Walking
    <2> QED BY <1>0, <2>1, <2>2, <2>3, MovesOn
  <1> QED BY <1>1, <1>2, <1>3

\* Every step keeps the owner of each running record.
LEMMA NextOwner == OwnerInv /\ [Next]_vars => OwnerInv'
  <1> SUFFICES ASSUME OwnerInv, [Next]_vars PROVE OwnerInv'
    OBVIOUS
  <1>0. /\ StoreTypeOK /\ ThreadTypeOK /\ CancelTypeOK /\ RunningInv /\ StartsAtFirst
    BY DEF OwnerInv, TypeInv, TypeOK
  <1>1. TypeInv'
    BY NextTypeInv DEF OwnerInv
  <1>2. ASSUME NEW t \in Thread, NoNewRunning, pc[t] \notin Walking,
               pc'[t] \notin {"run", "compute"},
               \A u \in Thread \ {t} : /\ pc'[u] = pc[u] /\ idx'[u] = idx[u]
                                       /\ active'[u] = active[u]
        PROVE  OwnerInv'
    <2>1. \A j \in Job : ~Works(t, j)
      BY <1>2 DEF Works
    <2> QED BY <1>0, <1>1, <1>2, <2>1, MovesOn DEF OwnerInv
  <1>3. ASSUME NoNewRunning, UNCHANGED <<pc, idx, active>>
        PROVE  OwnerInv'
    BY <1>0, <1>1, <1>3 DEF OwnerInv, RunningInv, StartsAtFirst, NoNewRunning, Works
  <1>4. ASSUME NEW j \in Job, SubmitStep(j) PROVE OwnerInv'
    <2>1. NoNewRunning
      BY <1>0, <1>4, StoreStartsNothing DEF SubmitStep, CreateJob, LogEnqueued, Put
    <2> QED BY <1>3, <1>4, <2>1 DEF SubmitStep, CreateJob, LogEnqueued, Put, threadVars
  <1>5. ASSUME NEW t \in SyncCaller, NEW j \in Job, RunSync(t, j) PROVE OwnerInv'
    <2>1. t \in Thread /\ NoNewRunning
      BY <1>0, <1>5, StoreStartsNothing DEF RunSync, Thread
    <2>2. /\ pc[t] \notin Walking /\ pc'[t] \notin {"run", "compute"}
          /\ \A u \in Thread \ {t} : /\ pc'[u] = pc[u] /\ idx'[u] = idx[u]
                                     /\ active'[u] = active[u]
      BY <1>0, <1>5, <2>1 DEF RunSync, Walking, ThreadTypeOK
    <2> QED BY <1>2, <2>1, <2>2
  <1>6. ASSUME NEW w \in Worker, CollectStep(w) PROVE OwnerInv'
    <2>1. w \in Thread
      BY DEF Thread
    <2>2. UNCHANGED storeVars /\ pc[w] \notin Walking
      BY <1>6
      DEF CollectStep, Take, Collect, CollectEnds, RequeueCounts, Requeue, RequeueEnds, Dispatch,
          Filter, Walking
    <2>3. NoNewRunning
      BY <2>2 DEF NoNewRunning, storeVars
    <2>4. \A u \in Thread \ {w} : idx'[u] = idx[u] /\ active'[u] = active[u]
      BY <1>0, <1>6
      DEF CollectStep, Take, Collect, CollectEnds, RequeueCounts, Requeue, RequeueEnds, Dispatch,
          Filter, ThreadTypeOK
    <2>5. \/ pc' = pc
          \/ \E label : /\ pc' = [pc EXCEPT ![w] = label]
                        /\ label \notin {"run", "compute"}
      <3>1. CASE Collect(w)
        BY <3>1 DEF Collect
      <3>2. CASE Take(w) \/ CollectEnds(w) \/ RequeueCounts(w) \/ Requeue(w) \/ RequeueEnds(w)
        BY <3>2, ZenonT(60) DEF Take, CollectEnds, RequeueCounts, Requeue, RequeueEnds, GoTo
      <3>3. CASE Dispatch(w)
        BY <3>3 DEF Dispatch, GoTo
      <3>4. CASE Filter(w)
        BY <3>4 DEF Filter, GoTo
      <3> QED BY <1>6, <3>1, <3>2, <3>3, <3>4 DEF CollectStep
    <2>6. /\ \A u \in Thread \ {w} : pc'[u] = pc[u]
          /\ pc'[w] \notin {"run", "compute"}
      BY <1>0, <2>1, <2>2, <2>5 DEF ThreadTypeOK, Walking
    <2> QED BY <1>2, <2>1, <2>2, <2>3, <2>4, <2>6
  <1>7. ASSUME NEW t \in Thread, ExecuteStep(t) PROVE OwnerInv'
    <2>1. CASE Release(t)
      <3>1. /\ NoNewRunning /\ pc[t] \notin Walking /\ pc'[t] \notin {"run", "compute"}
            /\ \A u \in Thread \ {t} : /\ pc'[u] = pc[u] /\ idx'[u] = idx[u]
                                       /\ active'[u] = active[u]
        BY <1>0, <2>1 DEF Release, GoTo, Walking, ThreadTypeOK, NoNewRunning, storeVars
      <3> QED BY <1>2, <3>1
    <2> QED
      BY <1>1, <1>7, <2>1, MarkKeepsOwner, CallKeepsOwner, SettleKeepsOwner
      DEF ExecuteStep, OwnerInv
  <1>8. ASSUME NEW c \in Canceller, CancelStep(c) \/ \E j \in Job : CancelReads(c, j)
        PROVE  OwnerInv'
    <2>1. NoNewRunning
      <3>1. CASE CancelSaves(c)
        <4>1. [ccopy[c] EXCEPT !.state = "cancelled"].state # "running" /\ cjob[c] \in Job
          BY <1>0, <3>1 DEF CancelSaves, CancelTypeOK, JobRecord
        <4> QED BY <1>0, <3>1, <4>1, StoreStartsNothing DEF CancelSaves
      <3>2. CASE CancelLogs(c)
        BY <1>0, <3>2, StoreStartsNothing DEF CancelLogs, CancelTypeOK
      <3>3. CASE CancelReturns(c) \/ \E j \in Job : CancelReads(c, j)
        BY <3>3 DEF CancelReturns, CancelReads, NoNewRunning, storeVars
      <3> QED BY <1>8, <3>1, <3>2, <3>3 DEF CancelStep
    <2> QED
      BY <1>3, <1>8, <2>1
      DEF CancelStep, CancelReads, CancelSaves, CancelLogs, CancelReturns, threadVars
  <1>9. CASE UNCHANGED vars
    BY <1>3, <1>9 DEF vars, storeVars, threadVars, NoNewRunning
  <1> QED BY <1>4, <1>5, <1>6, <1>7, <1>8, <1>9 DEF Next

\* A record that says "running" is being worked on, by the thread it names, in
\* whatever way cancel, the workers and run_sync write over each other.
THEOREM RunningHasOwner == Spec => []RunningIsOwned
  <1>1. OwnerInv => RunningIsOwned
    BY DEF OwnerInv, RunningInv, RunningIsOwned, Works, Items
  <1> QED BY <1>1, InitOwner, NextOwner, PTL DEF Spec

----------------------------------------------------------------------------
(* What the records and their copies hold.                                 *)

Settling == {"readBack", "saveFinal", "logFinal", "release"}

\* The item was given back, or its thread has come past it in the last pass.
Settled(j) ==
  \/ j \in released
  \/ \E t \in Thread : pc[t] \in Settling /\ j \in Items(held[t]) /\ ~Works(t, j)

Clean(record) == ~record.result /\ ~record.error

Consistent(record) ==
  /\ record.result <=> record.state = "succeeded"
  /\ record.error <=> record.state = "failed"

OnlySettled == \A j \in Job : Clean(jobs[j]) \/ Settled(j)

CopiesAreClean ==
  /\ \A t \in Thread : pc[t] \in {"saveRunning", "saveFinal"} => Clean(copy[t])
  /\ \A c \in Canceller : cpc[c] = "save" => Clean(ccopy[c])

\* What is active is held once, and the filter has only passed earlier items.
ActiveIsDistinct ==
  \A t \in Thread :
    /\ pc[t] \in Walking \cup {"filter"} => NoDuplicates(active[t])
    /\ pc[t] = "filter" =>
         \A k \in DOMAIN active[t] :
            \E i \in DOMAIN held[t] : i < idx[t] /\ active[t][k] = held[t][i]

OutcomeInv ==
  ItemInv /\ ActiveIsDistinct /\ OnlySettled /\ CopiesAreClean /\ OutcomeMatchesState

StateAndOutcomeStay ==
  \A j \in Job : /\ jobs'[j].state = jobs[j].state
                 /\ jobs'[j].result = jobs[j].result
                 /\ jobs'[j].error = jobs[j].error

\* The initial states.
LEMMA InitOutcome == Init => OutcomeInv
  BY InitItemInv
  DEF Init, StoreInit, NewRecord, OutcomeInv, ActiveIsDistinct, OnlySettled, CopiesAreClean,
      OutcomeMatchesState, Clean, Walking

\* A step that is not one of thread t's own leaves t's walk alone.
LEMMA WalkOfOthers ==
  ASSUME NEW t \in Thread, pc'[t] = pc[t], idx'[t] = idx[t], active'[t] = active[t], NEW j
  PROVE  Works(t, j)' <=> Works(t, j)
  BY DEF Works

\* A thread in its last pass: it only comes past items, and gives them back in
\* the end.
LEMMA SettlingGoesOn ==
  ASSUME ItemInv, NEW t \in Thread, ExecuteStep(t), pc[t] \in Settling, NEW j \in Job,
         j \in Items(held[t]), ~Works(t, j)
  PROVE  Settled(j)'
  <1>0. ThreadTypeOK /\ active[t] \in Seq(Job) /\ idx[t] \in Nat
    BY DEF ItemInv, TypeInv, TypeOK, ThreadTypeOK
  <1>1. CASE Release(t)
    BY <1>1 DEF Release, Settled
  <1>2. ASSUME pc'[t] \in Settling, ~Works(t, j)', held' = held PROVE Settled(j)'
    BY <1>2 DEF Settled
  <1>3. CASE ReadBack(t)
    BY <1>0, <1>2, <1>3 DEF ReadBack, GoTo, ThreadTypeOK, Works, Walking, Settling
  <1>4. CASE SaveFinal(t)
    <2>1. /\ pc[t] = "saveFinal" /\ pc'[t] = "logFinal" /\ UNCHANGED <<held, idx, active>>
      BY <1>0, <1>4 DEF SaveFinal, GoTo, ThreadTypeOK
    <2>2. \A k \in DOMAIN active[t] : k > idx[t] => k >= idx[t]
      BY <1>0
    <2> QED BY <1>2, <2>1, <2>2 DEF Works, Walking, Settling
  <1>5. CASE LogFinal(t)
    <2>1. /\ pc[t] = "logFinal" /\ UNCHANGED <<held, active>>
          /\ NextItem(t, "readBack", "release")
      BY <1>5 DEF LogFinal
    <2>2. \/ pc'[t] = "readBack" /\ idx'[t] = idx[t] + 1
          \/ pc'[t] = "release"
      BY <1>0, <2>1, NextItemMoves
    <2>3. \A k \in DOMAIN active[t] : k >= idx[t] + 1 => k > idx[t]
      BY <1>0
    <2> QED BY <1>2, <2>1, <2>2, <2>3 DEF Works, Walking, Settling
  <1> QED
    BY <1>1, <1>3, <1>4, <1>5
    DEF ExecuteStep, Settling, ReadJob, SaveRunning, LogStarted, Run, BuildFails, Emit, Compute

\* Every execution step leaves the other threads alone.
LEMMA ExecuteIsLocal ==
  ASSUME ThreadTypeOK, NEW t \in Thread, ExecuteStep(t), NEW u \in Thread \ {t}
  PROVE  /\ pc'[u] = pc[u] /\ idx'[u] = idx[u] /\ active'[u] = active[u]
         /\ held'[u] = held[u] /\ copy'[u] = copy[u]
  <1>1. CASE LogStarted(t) \/ Emit(t) \/ LogFinal(t)
    <2>1. UNCHANGED <<active, held, copy>>
      BY <1>1 DEF LogStarted, Emit, LogFinal
    <2> QED BY <1>1, <2>1, NextItemMoves DEF LogStarted, Emit, LogFinal
  <1>2. CASE ReadJob(t) \/ SaveRunning(t) \/ Run(t) \/ BuildFails(t) \/ Compute(t)
             \/ ReadBack(t) \/ SaveFinal(t) \/ Release(t)
    BY <1>2
    DEF ReadJob, SaveRunning, Run, BuildFails, Compute, ReadBack, SaveFinal, Release, GoTo,
        ThreadTypeOK
  <1> QED BY <1>1, <1>2 DEF ExecuteStep

\* Every step of the collection leaves the other threads alone.
LEMMA CollectIsLocal ==
  ASSUME ThreadTypeOK, NEW w \in Worker, CollectStep(w), NEW u \in Thread \ {w}
  PROVE  /\ pc'[u] = pc[u] /\ idx'[u] = idx[u] /\ active'[u] = active[u]
         /\ held'[u] = held[u] /\ copy'[u] = copy[u]
  BY DEF CollectStep, Take, Collect, CollectEnds, RequeueCounts, Requeue, RequeueEnds, Dispatch,
         Filter, GoTo, ThreadTypeOK

\* A job that is settled stays so.
LEMMA SettledRemains ==
  ASSUME ItemInv, [Next]_vars, NEW j \in Job, Settled(j)
  PROVE  Settled(j)'
  <1>0. ThreadTypeOK
    BY DEF ItemInv, TypeInv, TypeOK
  <1>1. ASSUME UNCHANGED <<pc, held, idx, active>>, released \subseteq released'
        PROVE  Settled(j)'
    BY <1>1 DEF Settled, Works
  <1>2. ASSUME NEW t \in Thread, released \subseteq released',
               \A u \in Thread \ {t} : /\ pc'[u] = pc[u] /\ idx'[u] = idx[u]
                                       /\ active'[u] = active[u] /\ held'[u] = held[u],
               \/ pc[t] \notin Settling
               \/ j \in Items(held[t]) /\ pc[t] \in Settling /\ ~Works(t, j) => Settled(j)'
        PROVE  Settled(j)'
    <2>1. CASE j \in released
      BY <1>2, <2>1 DEF Settled
    <2>2. CASE j \notin released
      <3>1. PICK u \in Thread : pc[u] \in Settling /\ j \in Items(held[u]) /\ ~Works(u, j)
        BY <2>2 DEF Settled
      <3>2. CASE u = t
        BY <1>2, <3>1, <3>2
      <3>3. CASE u # t
        <4>1. ~Works(u, j)'
          BY <1>2, <3>1, <3>3, WalkOfOthers
        <4> QED BY <1>2, <3>1, <3>3, <4>1 DEF Settled
      <3> QED BY <3>2, <3>3
    <2> QED BY <2>1, <2>2
  <1>3. ASSUME NEW i \in Job, SubmitStep(i) PROVE Settled(j)'
    BY <1>1, <1>3 DEF SubmitStep, CreateJob, LogEnqueued, Put, threadVars
  <1>4. ASSUME NEW t \in SyncCaller, NEW i \in Job, RunSync(t, i) PROVE Settled(j)'
    BY <1>0, <1>2, <1>4 DEF RunSync, Thread, ThreadTypeOK, Settling
  <1>5. ASSUME NEW w \in Worker, CollectStep(w) PROVE Settled(j)'
    <2>1. pc[w] \notin Settling /\ released \subseteq released' /\ w \in Thread
      BY <1>5
      DEF CollectStep, Take, Collect, CollectEnds, RequeueCounts, Requeue, RequeueEnds, Dispatch,
          Filter, Settling, Thread
    <2> QED BY <1>0, <1>2, <1>5, <2>1, CollectIsLocal
  <1>6. ASSUME NEW t \in Thread, ExecuteStep(t) PROVE Settled(j)'
    <2>1. released \subseteq released'
      BY <1>6
      DEF ExecuteStep, ReadJob, SaveRunning, LogStarted, Run, BuildFails, Emit, Compute, ReadBack,
          SaveFinal, LogFinal, Release
    <2> QED BY <1>0, <1>2, <1>6, <2>1, ExecuteIsLocal, SettlingGoesOn
  <1>7. ASSUME NEW c \in Canceller, CancelStep(c) \/ \E i \in Job : CancelReads(c, i)
        PROVE  Settled(j)'
    BY <1>1, <1>7
    DEF CancelStep, CancelReads, CancelSaves, CancelLogs, CancelReturns, threadVars
  <1>8. CASE UNCHANGED vars
    BY <1>1, <1>8 DEF vars, threadVars
  <1> QED BY <1>3, <1>4, <1>5, <1>6, <1>7, <1>8 DEF Next

\* What a thread is about to run or to settle is not settled.
LEMMA NotSettledYet ==
  ASSUME ItemInv, NEW t \in Thread, pc[t] \in {"read", "readBack"}
  PROVE  ~Settled(Current(t))
  <1>1. /\ active[t] \in Seq(Job) /\ idx[t] \in 1 .. Len(active[t]) /\ ActiveIsHeld
        /\ ExclusiveItems
    BY DEF ItemInv, TypeInv, TypeOK, ThreadTypeOK, IndexInRange, Walking
  <1>2. Current(t) \in Items(held[t])
    <2>1. Items(active[t]) \subseteq Items(held[t])
      BY <1>1 DEF ActiveIsHeld, Walking
    <2>2. idx[t] \in DOMAIN active[t]
      BY <1>1
    <2>3. Current(t) \in Items(active[t])
      BY <2>2 DEF Current, Items
    <2> QED BY <2>1, <2>3
  <1>3. Current(t) \notin released /\ \A u \in Thread \ {t} : Current(t) \notin Items(held[u])
    BY <1>1, <1>2 DEF ExclusiveItems, Holding
  <1>4. pc[t] \in Settling => Works(t, Current(t))
    BY <1>1 DEF Works, Walking, Settling, Current
  <1> QED BY <1>3, <1>4 DEF Settled

\* Saving a consistent record that is clean or of a settled job, and appending
\* events, keep the outcomes in order.
LEMMA RecordsKept ==
  ASSUME StoreTypeOK, OnlySettled, OutcomeMatchesState,
         \A i \in Job : Settled(i) => Settled(i)',
         \/ StateAndOutcomeStay
         \/ \E j \in Job, r \in JobRecord :
               Save(j, r) /\ Consistent(r) /\ (Clean(r) \/ Settled(j)')
  PROVE  OnlySettled' /\ OutcomeMatchesState'
  <1>1. CASE StateAndOutcomeStay
    BY <1>1 DEF StateAndOutcomeStay, OnlySettled, OutcomeMatchesState, Clean
  <1>2. ASSUME NEW j \in Job, NEW r \in JobRecord, Save(j, r), Consistent(r),
               Clean(r) \/ Settled(j)'
        PROVE  OnlySettled' /\ OutcomeMatchesState'
    <2>1. jobs'[j] = r /\ \A i \in Job \ {j} : jobs'[i] = jobs[i]
      BY <1>2 DEF Save, StoreTypeOK
    <2> QED
      BY <1>2, <2>1 DEF OnlySettled, OutcomeMatchesState, Clean, Consistent
  <1> QED BY <1>1, <1>2

\* What is not saved stays.
LEMMA StoreKeepsOutcome ==
  ASSUME StoreTypeOK, NEW j \in Job
  PROVE  /\ UNCHANGED storeVars => StateAndOutcomeStay
         /\ \A e : AppendEvent(j, e) => StateAndOutcomeStay
  <1>0. jobs \in [Job -> JobRecord]
    BY DEF StoreTypeOK
  <1>1. UNCHANGED storeVars => StateAndOutcomeStay
    BY DEF StateAndOutcomeStay, storeVars
  <1>2. ASSUME NEW e, AppendEvent(j, e), NEW i \in Job
        PROVE  /\ jobs'[i].state = jobs[i].state /\ jobs'[i].result = jobs[i].result
               /\ jobs'[i].error = jobs[i].error
    <2>1. jobs' = [jobs EXCEPT ![j] = [jobs[j] EXCEPT !.events = Append(jobs[j].events, e)]]
      BY <1>2 DEF AppendEvent
    <2>2. jobs[j] \in JobRecord
      BY <1>0
    <2>3. LET r == [jobs[j] EXCEPT !.events = Append(jobs[j].events, e)]
          IN  r.state = jobs[j].state /\ r.result = jobs[j].result /\ r.error = jobs[j].error
      BY <2>2 DEF JobRecord
    <2> QED BY <1>0, <2>1, <2>3
  <1> QED BY <1>1, <1>2 DEF StateAndOutcomeStay

\* What is active stays distinct: the filter appends one held item after the
\* other.
LEMMA FilterKeepsDistinct ==
  ASSUME ItemInv, ActiveIsDistinct, NEW w \in Worker, Filter(w)
  PROVE  /\ pc'[w] \in Walking \cup {"filter"} => NoDuplicates(active'[w])
         /\ pc'[w] = "filter" =>
              \A k \in DOMAIN active'[w] :
                 \E i \in DOMAIN held'[w] : i < idx'[w] /\ active'[w][k] = held'[w][i]
  <1>0. /\ ThreadTypeOK /\ w \in Thread /\ held[w] \in Seq(Job) /\ active[w] \in Seq(Job)
        /\ idx[w] \in Nat \ {0} /\ pc[w] = "filter" /\ held' = held
        /\ NoDuplicates(active[w]) /\ NoDuplicates(held[w])
    BY DEF ItemInv, TypeInv, TypeOK, ThreadTypeOK, Thread, Filter, ActiveIsDistinct,
           ExclusiveItems
  <1>1. \A k \in DOMAIN active[w] :
           \E i \in DOMAIN held[w] : i < idx[w] /\ active[w][k] = held[w][i]
    BY <1>0 DEF ActiveIsDistinct
  <1>2. CASE idx[w] <= Len(held[w])
    <2>1. pc'[w] = "filter" /\ idx'[w] = idx[w] + 1
      BY <1>0, <1>2 DEF Filter, ThreadTypeOK
    <2>2. CASE active' = active
      BY <1>0, <1>1, <2>1, <2>2
    <2>3. CASE active' = [active EXCEPT ![w] = Append(@, held[w][idx[w]])]
      <3>1. /\ active'[w] = Append(active[w], held[w][idx[w]])
            /\ idx[w] \in DOMAIN held[w] /\ held[w][idx[w]] \in Job
        BY <1>0, <1>2, <2>3 DEF ThreadTypeOK
      <3>2. held[w][idx[w]] \notin Items(active[w])
        BY <1>0, <1>1, <3>1 DEF NoDuplicates, Items
      <3>3. NoDuplicates(active'[w])
        BY <1>0, <3>1, <3>2, ItemsOfAppend
      <3>4. /\ DOMAIN active'[w] = 1 .. (Len(active[w]) + 1)
            /\ active'[w][Len(active[w]) + 1] = held[w][idx[w]]
            /\ \A k \in DOMAIN active[w] : active'[w][k] = active[w][k]
        BY <1>0, <3>1
      <3>5. ASSUME NEW k \in DOMAIN active'[w]
            PROVE  \E i \in DOMAIN held[w] : i < idx[w] + 1 /\ active'[w][k] = held[w][i]
        <4>1. CASE k = Len(active[w]) + 1
          BY <1>0, <3>1, <3>4, <4>1
        <4>2. CASE k # Len(active[w]) + 1
          <5>1. k \in DOMAIN active[w]
            BY <1>0, <3>4, <3>5, <4>2
          <5>2. PICK i \in DOMAIN held[w] : i < idx[w] /\ active[w][k] = held[w][i]
            BY <1>1, <5>1
          <5>3. i < idx[w] + 1
            BY <1>0, <5>2
          <5> QED BY <3>4, <5>1, <5>2, <5>3
        <4> QED BY <4>1, <4>2
      <3> QED BY <1>0, <2>1, <3>3, <3>5
    <2> QED BY <1>2, <2>2, <2>3 DEF Filter
  <1>3. CASE ~(idx[w] <= Len(held[w]))
    <2>1. active' = active /\ pc'[w] # "filter"
      BY <1>0, <1>3 DEF Filter, GoTo, ThreadTypeOK
    <2> QED BY <1>0, <2>1
  <1> QED BY <1>2, <1>3

\* Every step keeps what is active distinct.
LEMMA DistinctRemains ==
  ASSUME ItemInv, ActiveIsDistinct, [Next]_vars
  PROVE  ActiveIsDistinct'
  <1>0. ThreadTypeOK /\ ExclusiveItems
    BY DEF ItemInv, TypeInv, TypeOK
  <1>1. ASSUME UNCHANGED <<pc, held, idx, active>> PROVE ActiveIsDistinct'
    BY <1>1 DEF ActiveIsDistinct
  <1>2. ASSUME NEW t \in Thread,
               \A u \in Thread \ {t} : /\ pc'[u] = pc[u] /\ idx'[u] = idx[u]
                                       /\ active'[u] = active[u] /\ held'[u] = held[u],
               pc'[t] \in Walking \cup {"filter"} => NoDuplicates(active'[t]),
               pc'[t] = "filter" =>
                 \A k \in DOMAIN active'[t] :
                    \E i \in DOMAIN held'[t] : i < idx'[t] /\ active'[t][k] = held'[t][i]
        PROVE  ActiveIsDistinct'
    <2>1. ASSUME NEW u \in Thread
          PROVE  /\ pc'[u] \in Walking \cup {"filter"} => NoDuplicates(active'[u])
                 /\ pc'[u] = "filter" =>
                      \A k \in DOMAIN active'[u] :
                         \E i \in DOMAIN held'[u] : i < idx'[u] /\ active'[u][k] = held'[u][i]
      BY <1>2 DEF ActiveIsDistinct
    <2> QED BY <2>1 DEF ActiveIsDistinct
  <1>3. ASSUME NEW i \in Job, SubmitStep(i) PROVE ActiveIsDistinct'
    BY <1>1, <1>3 DEF SubmitStep, CreateJob, LogEnqueued, Put, threadVars
  <1>4. ASSUME NEW t \in SyncCaller, NEW i \in Job, RunSync(t, i) PROVE ActiveIsDistinct'
    <2>1. /\ t \in Thread /\ active'[t] = <<i>> /\ pc'[t] = "read"
          /\ \A u \in Thread \ {t} : /\ pc'[u] = pc[u] /\ idx'[u] = idx[u]
                                     /\ active'[u] = active[u] /\ held'[u] = held[u]
      BY <1>0, <1>4 DEF RunSync, Thread, ThreadTypeOK
    <2> QED BY <1>2, <2>1, ItemsOfSingleton
  <1>5. ASSUME NEW w \in Worker, CollectStep(w) PROVE ActiveIsDistinct'
    <2>1. w \in Thread
      BY DEF Thread
    <2>2. CASE Take(w) \/ Collect(w) \/ CollectEnds(w) \/ RequeueCounts(w) \/ Requeue(w)
               \/ RequeueEnds(w)
      <3>1. pc'[w] \notin Walking \cup {"filter"}
        BY <1>0, <2>1, <2>2
        DEF Take, Collect, CollectEnds, RequeueCounts, Requeue, RequeueEnds, GoTo, Walking,
            ThreadTypeOK
      <3> QED BY <1>0, <1>2, <1>5, <2>1, <3>1, CollectIsLocal
    <2>3. CASE Dispatch(w)
      <3>1. NoDuplicates(held[w])
        BY <1>0, <2>1 DEF ExclusiveItems
      <3>2. /\ active'[w] = held[w] \/ active'[w] = << >>
            /\ pc'[w] = "filter" => active'[w] = << >>
        BY <1>0, <2>1, <2>3 DEF Dispatch, GoTo, ThreadTypeOK
      <3>3. DOMAIN << >> = {}
        OBVIOUS
      <3> QED BY <1>0, <1>2, <1>5, <2>1, <3>1, <3>2, <3>3, CollectIsLocal, ItemsOfEmpty
    <2>4. CASE Filter(w)
      BY <1>0, <1>2, <1>5, <2>1, <2>4, CollectIsLocal, FilterKeepsDistinct
    <2> QED BY <1>5, <2>2, <2>3, <2>4 DEF CollectStep
  <1>6. ASSUME NEW t \in Thread, ExecuteStep(t) PROVE ActiveIsDistinct'
    <2>1. CASE Release(t)
      <3>1. pc'[t] \notin Walking \cup {"filter"}
        BY <1>0, <2>1 DEF Release, GoTo, Walking, ThreadTypeOK
      <3> QED BY <1>0, <1>2, <1>6, <3>1, ExecuteIsLocal
    <2>2. CASE ~Release(t)
      <3>1. active' = active /\ pc[t] \in Walking /\ pc'[t] # "filter"
        BY <1>0, <1>6, <2>2
        DEF ExecuteStep, ReadJob, SaveRunning, LogStarted, Run, BuildFails, Emit, AfterEmit,
            Compute, ReadBack, SaveFinal, LogFinal, NextItem, GoTo, Walking, ThreadTypeOK
      <3>2. NoDuplicates(active[t])
        BY <3>1 DEF ActiveIsDistinct
      <3> QED BY <1>0, <1>2, <1>6, <3>1, <3>2, ExecuteIsLocal
    <2> QED BY <2>1, <2>2
  <1>7. ASSUME NEW c \in Canceller, CancelStep(c) \/ \E i \in Job : CancelReads(c, i)
        PROVE  ActiveIsDistinct'
    BY <1>1, <1>7
    DEF CancelStep, CancelReads, CancelSaves, CancelLogs, CancelReturns, threadVars
  <1>8. CASE UNCHANGED vars
    BY <1>1, <1>8 DEF vars, threadVars
  <1> QED BY <1>3, <1>4, <1>5, <1>6, <1>7, <1>8 DEF Next

\* An execution step saves only clean or settled records, and copies only what
\* is clean.
LEMMA ExecuteOutcome ==
  ASSUME OutcomeInv, NEW t \in Thread, ExecuteStep(t)
  PROVE  /\ \/ StateAndOutcomeStay
            \/ \E j \in Job, r \in JobRecord :
                  Save(j, r) /\ Consistent(r) /\ (Clean(r) \/ Settled(j)')
         /\ pc'[t] \in {"saveRunning", "saveFinal"} => Clean(copy'[t])
  <1>0. /\ ItemInv /\ StoreTypeOK /\ ThreadTypeOK /\ copy[t] \in JobRecord
        /\ OnlySettled /\ CopiesAreClean /\ ActiveIsHeld
        /\ pc[t] \in Walking => /\ Current(t) \in Job /\ active[t] \in Seq(Job)
                                /\ idx[t] \in 1 .. Len(active[t])
    BY CurrentType
    DEF OutcomeInv, ItemInv, TypeInv, TypeOK, ThreadTypeOK, IndexInRange, Walking
  <1>1. CASE ReadJob(t) \/ ReadBack(t)
    <2>1. StateAndOutcomeStay
      BY <1>1 DEF ReadJob, ReadBack, storeVars, StateAndOutcomeStay
    <2>2. pc[t] \in {"read", "readBack"} /\ Current(t) \in Job
      BY <1>0, <1>1 DEF ReadJob, ReadBack, Walking
    <2>3. Clean(jobs[Current(t)])
      BY <1>0, <2>2, NotSettledYet DEF OnlySettled
    <2>4. pc'[t] = "release" \/ copy'[t] = jobs[Current(t)]
      BY <1>0, <1>1 DEF ReadJob, ReadBack, Reread, GoTo, ThreadTypeOK
    <2> QED BY <2>1, <2>3, <2>4
  <1>2. CASE SaveRunning(t)
    <2>1. Clean(copy[t])
      BY <1>0, <1>2 DEF SaveRunning, CopiesAreClean
    <2>2. /\ StartedRecord(t) \in JobRecord /\ StartedRecord(t).state = "running"
          /\ StartedRecord(t).result = copy[t].result /\ StartedRecord(t).error = copy[t].error
      BY <1>0 DEF StartedRecord, JobRecord, JobState
    <2>3. Save(Current(t), StartedRecord(t)) /\ Current(t) \in Job /\ pc'[t] = "logStarted"
      BY <1>0, <1>2 DEF SaveRunning, GoTo, Walking, ThreadTypeOK
    <2> QED BY <2>1, <2>2, <2>3 DEF Consistent, Clean
  <1>3. CASE SaveFinal(t)
    <2>1. Clean(copy[t])
      BY <1>0, <1>3 DEF SaveFinal, CopiesAreClean
    <2>2. FinalRecord(t) \in JobRecord /\ Consistent(FinalRecord(t))
      <3>1. CASE outcome[t] = "succeeded"
        BY <1>0, <2>1, <3>1 DEF FinalRecord, Consistent, Clean, JobRecord, JobState
      <3>2. CASE outcome[t] # "succeeded"
        BY <1>0, <2>1, <3>2 DEF FinalRecord, Consistent, Clean, JobRecord, JobState
      <3> QED BY <3>1, <3>2
    <2>3. /\ Save(Current(t), FinalRecord(t)) /\ Current(t) \in Job
          /\ pc[t] = "saveFinal" /\ pc'[t] = "logFinal" /\ UNCHANGED <<held, active, idx>>
      BY <1>0, <1>3 DEF SaveFinal, GoTo, Walking, ThreadTypeOK
    <2>4. /\ NoDuplicates(active[t]) /\ idx[t] \in DOMAIN active[t]
          /\ Items(active[t]) \subseteq Items(held[t])
      BY <1>0, <2>3 DEF OutcomeInv, ActiveIsDistinct, ActiveIsHeld, Walking
    <2>5. Current(t) \in Items(held[t])
      BY <2>4 DEF Current, Items
    <2>6. ~Works(t, Current(t))'
      <3>1. \A k \in DOMAIN active[t] : active[t][k] = Current(t) => k = idx[t]
        BY <2>4 DEF NoDuplicates, Current
      <3>2. ~(idx[t] > idx[t])
        BY <1>0, <2>3 DEF Walking
      <3>3. \A k \in DOMAIN active'[t] : active'[t][k] = Current(t)' => ~(k > idx'[t])
        BY <2>3, <3>1, <3>2 DEF Current
      <3> QED BY <2>3, <3>3 DEF Works
    <2>7. Current(t)' = Current(t)
      BY <2>3 DEF Current
    <2>8. Settled(Current(t))'
      BY <2>3, <2>5, <2>6, <2>7 DEF Settled, Settling
    <2> QED BY <2>2, <2>3, <2>7, <2>8
  <1>4. CASE LogStarted(t) \/ Emit(t) \/ LogFinal(t)
    <2>1. /\ \E e : AppendEvent(Current(t), e)
          /\ Current(t) \in Job
      BY <1>0, <1>4 DEF LogStarted, Emit, LogFinal, Walking
    <2>2. pc'[t] \notin {"saveRunning", "saveFinal"}
      BY <1>0, <1>4 DEF LogStarted, Emit, AfterEmit, LogFinal, NextItem, GoTo, ThreadTypeOK
    <2> QED BY <1>0, <2>1, <2>2, StoreKeepsOutcome
  <1>5. CASE Run(t) \/ BuildFails(t) \/ Compute(t) \/ Release(t)
    <2>1. StateAndOutcomeStay
      BY <1>5 DEF Run, BuildFails, Compute, Release, storeVars, StateAndOutcomeStay
    <2>2. pc'[t] \notin {"saveRunning", "saveFinal"}
      BY <1>0, <1>5 DEF Run, BuildFails, Compute, Release, GoTo, ThreadTypeOK
    <2> QED BY <2>1, <2>2
  <1> QED BY <1>1, <1>2, <1>3, <1>4, <1>5 DEF ExecuteStep

\* Every step keeps the outcomes in order.
LEMMA NextOutcome == OutcomeInv /\ [Next]_vars => OutcomeInv'
  <1> SUFFICES ASSUME OutcomeInv, [Next]_vars PROVE OutcomeInv'
    OBVIOUS
  <1>0. /\ ItemInv /\ StoreTypeOK /\ ThreadTypeOK /\ CancelTypeOK
        /\ ActiveIsDistinct /\ OnlySettled /\ CopiesAreClean /\ OutcomeMatchesState
    BY DEF OutcomeInv, ItemInv, TypeInv, TypeOK
  <1>1. ItemInv' /\ ActiveIsDistinct' /\ \A i \in Job : Settled(i) => Settled(i)'
    BY <1>0, NextItemInv, DistinctRemains, SettledRemains
  <1>2. ASSUME CopiesAreClean',
               \/ StateAndOutcomeStay
               \/ \E j \in Job, r \in JobRecord :
                     Save(j, r) /\ Consistent(r) /\ (Clean(r) \/ Settled(j)')
        PROVE  OutcomeInv'
    BY <1>0, <1>1, <1>2, RecordsKept DEF OutcomeInv
  <1>3. ASSUME NEW j \in Job, SubmitStep(j) PROVE OutcomeInv'
    <2>1. CopiesAreClean'
      BY <1>0, <1>3
      DEF SubmitStep, CreateJob, LogEnqueued, Put, threadVars, cancelVars, CopiesAreClean
    <2>2. CASE CreateJob(j)
      <3>1. Save(j, NewRecord)
        BY <2>2 DEF CreateJob, Create, Save
      <3> QED BY <1>2, <2>1, <3>1, NewRecordType DEF Consistent, Clean, NewRecord
    <2>3. CASE LogEnqueued(j) \/ Put(j)
      BY <1>0, <1>2, <2>1, <2>3, StoreKeepsOutcome DEF LogEnqueued, Put
    <2> QED BY <1>3, <2>2, <2>3 DEF SubmitStep
  <1>4. ASSUME NEW t \in SyncCaller, NEW j \in Job, RunSync(t, j) PROVE OutcomeInv'
    <2>1. StateAndOutcomeStay
      BY <1>4 DEF RunSync, storeVars, StateAndOutcomeStay
    <2>2. CopiesAreClean'
      BY <1>0, <1>4 DEF RunSync, cancelVars, CopiesAreClean, Thread, ThreadTypeOK
    <2> QED BY <1>2, <2>1, <2>2
  <1>5. ASSUME NEW w \in Worker, CollectStep(w) PROVE OutcomeInv'
    <2>1. UNCHANGED <<storeVars, cancelVars>> /\ w \in Thread
      BY <1>5
      DEF CollectStep, Take, Collect, CollectEnds, RequeueCounts, Requeue, RequeueEnds, Dispatch,
          Filter, Thread
    <2>2. pc'[w] \notin {"saveRunning", "saveFinal"}
      BY <1>0, <1>5, <2>1
      DEF CollectStep, Take, Collect, CollectEnds, RequeueCounts, Requeue, RequeueEnds, Dispatch,
          Filter, GoTo, ThreadTypeOK
    <2>3. CopiesAreClean'
      BY <1>0, <1>5, <2>1, <2>2, CollectIsLocal DEF CopiesAreClean, cancelVars
    <2> QED BY <1>2, <2>1, <2>3 DEF StateAndOutcomeStay, storeVars
  <1>6. ASSUME NEW t \in Thread, ExecuteStep(t) PROVE OutcomeInv'
    <2>1. UNCHANGED cancelVars
      BY <1>6
      DEF ExecuteStep, ReadJob, SaveRunning, LogStarted, Run, BuildFails, Emit, Compute, ReadBack,
          SaveFinal, LogFinal, Release
    <2>2. CopiesAreClean'
      BY <1>0, <1>6, <2>1, ExecuteIsLocal, ExecuteOutcome DEF CopiesAreClean, cancelVars
    <2> QED BY <1>2, <1>6, <2>2, ExecuteOutcome
  <1>7. ASSUME NEW c \in Canceller, CancelStep(c) \/ \E j \in Job : CancelReads(c, j)
        PROVE  OutcomeInv'
    <2>1. CASE \E j \in Job : CancelReads(c, j)
      <3>1. PICK j \in Job : CancelReads(c, j)
        BY <2>1
      <3>2. Clean(jobs[j])
        BY <1>0, <3>1 DEF CancelReads, OutcomeMatchesState, Clean
      <3>3. CopiesAreClean'
        BY <1>0, <3>1, <3>2 DEF CancelReads, CopiesAreClean, threadVars, CancelTypeOK
      <3> QED BY <1>2, <3>1, <3>3 DEF CancelReads, StateAndOutcomeStay, storeVars
    <2>2. CASE CancelSaves(c)
      <3>1. Clean(ccopy[c]) /\ ccopy[c] \in JobRecord /\ cjob[c] \in Job
        BY <1>0, <2>2 DEF CancelSaves, CopiesAreClean, CancelTypeOK
      <3>2. LET r == [ccopy[c] EXCEPT !.state = "cancelled"]
            IN  r \in JobRecord /\ Consistent(r) /\ Clean(r)
        BY <3>1 DEF JobRecord, JobState, Consistent, Clean
      <3>3. CopiesAreClean'
        BY <1>0, <2>2 DEF CancelSaves, CopiesAreClean, threadVars, CancelTypeOK
      <3> QED BY <1>2, <2>2, <3>1, <3>2, <3>3 DEF CancelSaves
    <2>3. CASE CancelLogs(c) \/ CancelReturns(c)
      <3>1. StateAndOutcomeStay
        BY <1>0, <2>3, StoreKeepsOutcome
        DEF CancelLogs, CancelReturns, CancelTypeOK, StateAndOutcomeStay, storeVars
      <3>2. CopiesAreClean'
        BY <1>0, <2>3 DEF CancelLogs, CancelReturns, CopiesAreClean, threadVars, CancelTypeOK
      <3> QED BY <1>2, <3>1, <3>2
    <2> QED BY <1>7, <2>1, <2>2, <2>3 DEF CancelStep
  <1>8. CASE UNCHANGED vars
    <2>1. CopiesAreClean' /\ StateAndOutcomeStay
      BY <1>0, <1>8
      DEF vars, storeVars, threadVars, cancelVars, CopiesAreClean, StateAndOutcomeStay
    <2> QED BY <1>2, <2>1
  <1> QED BY <1>3, <1>4, <1>5, <1>6, <1>7, <1>8 DEF Next

\* A result is attached to succeeded jobs only and an error to failed ones
\* only, in whatever order cancel, the workers and run_sync write their copies
\* back.
THEOREM OutcomesNeverMix == Spec => []OutcomeMatchesState
  <1>1. OutcomeInv => OutcomeMatchesState
    BY DEF OutcomeInv
  <1> QED BY <1>1, InitOutcome, NextOutcome, PTL DEF Spec
-------------------------------------------------------------------------------
(* Events.  A thread's copy has all events of its job as long as no cancel *)
(* met the job: nobody else appends in between, since only the thread that *)
(* holds a submitted job does.                                             *)

CopyIsCurrent(t) ==
  pc[t] \in {"saveRunning", "saveFinal"} /\ Undisturbed(Current(t))
    => copy[t].events = log[Current(t)]

CopiesAreCurrent == \A t \in Thread : CopyIsCurrent(t)

\* A cancel names a submitted job until it returns, and has left its event by then.
CancelsLeaveTrace ==
  \A c \in Canceller :
    /\ cpc[c] = "idle" => cjob[c] = NoJob
    /\ cpc[c] # "idle" => cjob[c] \in Entered
    /\ cpc[c] = "return" => "job_cancelled" \in Items(log[cjob[c]])

NewIsBlank ==
  \A j \in Job : stage[j] = "new" => log[j] = << >> /\ jobs[j].state = "queued"

EventsInv ==
  ItemInv /\ CopiesAreCurrent /\ CancelsLeaveTrace /\ NewIsBlank /\ EventsKept

\* The initial states.
LEMMA InitEvents == Init => EventsInv
  BY InitItemInv
  DEF Init, StoreInit, NewRecord, EventsInv, CopiesAreCurrent, CopyIsCurrent,
      CancelsLeaveTrace, NewIsBlank, EventsKept

\* Appending an event to a job keeps every record that had all its events.
LEMMA AppendKeepsEvents ==
  ASSUME StoreTypeOK, NEW j \in Job, NEW e \in EventKind, AppendEvent(j, e)
  PROVE  /\ jobs[j].events = log[j] => jobs'[j].events = log'[j]
         /\ \A i \in Job \ {j} : jobs'[i] = jobs[i] /\ log'[i] = log[i]
         /\ Items(log'[j]) = Items(log[j]) \cup {e}
         /\ \A i \in Job : Items(log[i]) \subseteq Items(log'[i])
  <1>1. jobs \in [Job -> JobRecord] /\ log \in [Job -> Seq(EventKind)] /\ jobs[j] \in JobRecord
    BY DEF StoreTypeOK
  <1>2. /\ jobs' = [jobs EXCEPT ![j] = [jobs[j] EXCEPT !.events = Append(jobs[j].events, e)]]
        /\ log' = [log EXCEPT ![j] = Append(log[j], e)]
    BY DEF AppendEvent
  <1>3. [jobs[j] EXCEPT !.events = Append(jobs[j].events, e)].events = Append(jobs[j].events, e)
    BY <1>1 DEF JobRecord
  <1>4. /\ jobs'[j].events = Append(jobs[j].events, e) /\ log'[j] = Append(log[j], e)
        /\ \A i \in Job \ {j} : jobs'[i] = jobs[i] /\ log'[i] = log[i]
    BY <1>1, <1>2, <1>3
  <1>5. Items(log'[j]) = Items(log[j]) \cup {e}
    BY <1>1, <1>4, ItemsOfAppend
  <1> QED BY <1>4, <1>5

\* Once disturbed, always disturbed.
LEMMA UndisturbedBefore ==
  ASSUME NEW j \in Job, Undisturbed(j)',
         Items(log[j]) \subseteq Items(log'[j]),
         \A c \in Canceller :
            cjob[c] = j => cjob'[c] = j \/ "job_cancelled" \in Items(log[j])
  PROVE  Undisturbed(j)
  BY DEF Undisturbed

\* The current item of a thread in its walk is submitted, and no other thread's.
LEMMA CurrentIsOwn ==
  ASSUME ItemInv, NEW t \in Thread, pc[t] \in Walking
  PROVE  /\ Current(t) \in Job /\ Current(t) \in Entered
         /\ \A u \in Thread \ {t} : pc[u] \in Walking => Current(u) # Current(t)
  <1>1. /\ \A u \in Thread : active[u] \in Seq(Job)
        /\ ActiveIsHeld /\ ExclusiveItems /\ PlacedIsSubmitted /\ IndexInRange
    BY DEF ItemInv, TypeInv, TypeOK, ThreadTypeOK
  <1>2. ASSUME NEW u \in Thread, pc[u] \in Walking
        PROVE  Current(u) \in Items(held[u])
    <2>1. Items(active[u]) \subseteq Items(held[u])
      BY <1>1, <1>2 DEF ActiveIsHeld
    <2>2. idx[u] \in DOMAIN active[u]
      BY <1>1, <1>2 DEF IndexInRange
    <2> QED BY <2>1, <2>2 DEF Current, Items
  <1>3. Current(t) \in Entered
    BY <1>1, <1>2 DEF PlacedIsSubmitted, Holding
  <1>4. \A u \in Thread \ {t} : pc[u] \in Walking => Current(u) # Current(t)
    BY <1>1, <1>2 DEF ExclusiveItems, Holding
  <1> QED BY <1>3, <1>4 DEF Entered

\* The copy of a thread that does not move stays current unless its job gets an
\* event and was not cancelled.
LEMMA CopyOfOthers ==
  ASSUME NEW t \in Thread, CopyIsCurrent(t),
         pc'[t] = pc[t], idx'[t] = idx[t], active'[t] = active[t], copy'[t] = copy[t],
         pc[t] \in {"saveRunning", "saveFinal"} =>
            \/ ~Undisturbed(Current(t))'
            \/ /\ log'[Current(t)] = log[Current(t)]
               /\ Undisturbed(Current(t))
  PROVE  CopyIsCurrent(t)'
  <1>1. Current(t)' = Current(t)
    BY DEF Current
  <1> QED BY <1>1 DEF CopyIsCurrent

\* submit and run_sync, before the job is handed over: no thread has it.
LEMMA SubmitKeepsEvents ==
  ASSUME EventsInv, NEW j \in Job, SubmitStep(j)
  PROVE  EventsInv'
  <1>0. /\ ItemInv /\ StoreTypeOK /\ ThreadTypeOK /\ CancelTypeOK
        /\ CopiesAreCurrent /\ CancelsLeaveTrace /\ NewIsBlank /\ EventsKept
        /\ stage \in [Job -> {"new", "created", "logged", "submitted", "sync"}]
    BY DEF EventsInv, ItemInv, TypeInv, TypeOK
  <1>1. /\ ItemInv' /\ UNCHANGED <<threadVars, cancelVars>> /\ j \notin Entered
        /\ Entered \subseteq Entered' /\ \A i \in Job \ {j} : stage'[i] = stage[i]
        /\ stage'[j] # "new"
    BY <1>0, SubmitItemInv, SubmitStep(j)
    DEF SubmitStep, CreateJob, LogEnqueued, Put, Entered
  <1>2. /\ \A i \in Job \ {j} : log'[i] = log[i]
        /\ \A i \in Job : Items(log[i]) \subseteq Items(log'[i])
        /\ jobs[j].events = log[j] => jobs'[j].events = log'[j]
        /\ \A i \in Job \ {j} : jobs'[i] = jobs[i]
    <2>1. CASE CreateJob(j)
      BY <1>0, <2>1 DEF CreateJob, Create, NewRecord, NewIsBlank, StoreTypeOK
    <2>2. CASE LogEnqueued(j)
      <3>1. "job_enqueued" \in EventKind
        BY DEF EventKind
      <3> QED BY <1>0, <2>2, <3>1, AppendKeepsEvents DEF LogEnqueued
    <2>3. CASE Put(j)
      BY <2>3 DEF Put, storeVars
    <2> QED BY SubmitStep(j), <2>1, <2>2, <2>3 DEF SubmitStep
  <1>3. \A i \in Job : Undisturbed(i)' => Undisturbed(i)
    BY <1>1, <1>2, UndisturbedBefore DEF cancelVars
  <1>4. EventsKept'
    BY <1>0, <1>2, <1>3 DEF EventsKept
  <1>5. CancelsLeaveTrace'
    BY <1>0, <1>1, <1>2 DEF CancelsLeaveTrace, cancelVars, Entered
  <1>6. NewIsBlank'
    BY <1>0, <1>1, <1>2 DEF NewIsBlank
  <1>7. ASSUME NEW t \in Thread PROVE CopyIsCurrent(t)'
    <2>1. pc[t] \in {"saveRunning", "saveFinal"} => Current(t) \in Job /\ Current(t) # j
      BY <1>0, <1>1, CurrentIsOwn DEF Walking
    <2>2. /\ pc'[t] = pc[t] /\ idx'[t] = idx[t] /\ active'[t] = active[t] /\ copy'[t] = copy[t]
          /\ CopyIsCurrent(t) /\ Current(t)' = Current(t)
      BY <1>0, <1>1 DEF threadVars, CopiesAreCurrent, Current
    <2>3. pc[t] \in {"saveRunning", "saveFinal"} =>
             \/ ~Undisturbed(Current(t))'
             \/ /\ log'[Current(t)] = log[Current(t)]
                /\ Undisturbed(Current(t))
      BY <1>2, <1>3, <2>1, <2>2
    <2> QED BY <2>2, <2>3, CopyOfOthers
  <1> QED BY <1>1, <1>4, <1>5, <1>6, <1>7 DEF EventsInv, CopiesAreCurrent

\* A step of thread t: the copies of the others stay current, since nobody but
\* t appends to its job.
LEMMA StepKeepsEvents ==
  ASSUME EventsInv, ItemInv', NEW t \in Thread, UNCHANGED cancelVars,
         \A u \in Thread \ {t} : /\ pc'[u] = pc[u] /\ idx'[u] = idx[u]
                                 /\ active'[u] = active[u] /\ copy'[u] = copy[u],
         \A i \in Job : stage'[i] = stage[i] \/ (stage[i] = "logged" /\ stage'[i] = "sync"),
         \A i \in Job : \/ /\ jobs'[i] = jobs[i]
                           /\ log'[i] = log[i]
                        \/ /\ pc[t] \in Walking
                           /\ i = Current(t),
         \A i \in Job : /\ Undisturbed(i) /\ jobs[i].events = log[i]
                             => jobs'[i].events = log'[i]
                        /\ Items(log[i]) \subseteq Items(log'[i]),
         CopyIsCurrent(t)'
  PROVE  EventsInv'
  <1>0. /\ ItemInv /\ CopiesAreCurrent /\ CancelsLeaveTrace /\ NewIsBlank /\ EventsKept
        /\ stage \in [Job -> {"new", "created", "logged", "submitted", "sync"}]
    BY DEF EventsInv, ItemInv, TypeInv, TypeOK
  <1>1. \A i \in Job : Undisturbed(i)' => Undisturbed(i)
    BY UndisturbedBefore DEF cancelVars
  <1>2. EventsKept'
    BY <1>0, <1>1 DEF EventsKept
  <1>3. CancelsLeaveTrace'
    BY <1>0 DEF CancelsLeaveTrace, cancelVars, Entered
  <1>4. NewIsBlank'
    BY <1>0, CurrentIsOwn DEF NewIsBlank, Entered
  <1>5. ASSUME NEW u \in Thread \ {t} PROVE CopyIsCurrent(u)'
    <2>1. CopyIsCurrent(u) /\ Current(u)' = Current(u)
      BY <1>0, <1>5 DEF CopiesAreCurrent, Current
    <2>2. pc[u] \in {"saveRunning", "saveFinal"} =>
             /\ Current(u) \in Job
             /\ pc[t] \in Walking => Current(u) # Current(t)
      BY <1>0, <1>5, CurrentIsOwn DEF Walking
    <2>3. pc[u] \in {"saveRunning", "saveFinal"} =>
             \/ ~Undisturbed(Current(u))'
             \/ /\ log'[Current(u)] = log[Current(u)]
                /\ Undisturbed(Current(u))
      BY <1>1, <2>1, <2>2
    <2> QED BY <1>5, <2>1, <2>3, CopyOfOthers
  <1> QED BY <1>2, <1>3, <1>4, <1>5 DEF EventsInv, CopiesAreCurrent

\* An execution step.
LEMMA ExecuteKeepsEvents ==
  ASSUME EventsInv, NEW t \in Thread, ExecuteStep(t)
  PROVE  EventsInv'
  <1>0. /\ ItemInv /\ StoreTypeOK /\ ThreadTypeOK /\ EventsKept /\ CopyIsCurrent(t)
        /\ pc[t] \in Walking => Current(t) \in Job
        /\ copy[t] \in JobRecord
    BY CurrentType DEF EventsInv, CopiesAreCurrent, ItemInv, TypeInv, TypeOK, ThreadTypeOK
  <1>1. /\ ItemInv' /\ UNCHANGED <<stage, cancelVars>>
        /\ \A u \in Thread \ {t} : /\ pc'[u] = pc[u] /\ idx'[u] = idx[u]
                                   /\ active'[u] = active[u] /\ copy'[u] = copy[u]
    <2>1. UNCHANGED <<stage, cancelVars>>
      BY ExecuteStep(t)
      DEF ExecuteStep, ReadJob, SaveRunning, LogStarted, Run, BuildFails, Emit, Compute, ReadBack,
          SaveFinal, LogFinal, Release
    <2> QED BY <1>0, <2>1, ExecuteItemInv, ExecuteIsLocal
  <1>2. CASE ReadJob(t) \/ ReadBack(t)
    <2>1. UNCHANGED storeVars /\ UNCHANGED <<active, idx>> /\ Current(t)' = Current(t)
      BY <1>2 DEF ReadJob, ReadBack, Current
    <2>2. /\ Current(t) \in Job
          /\ pc'[t] = "release" \/ copy'[t] = jobs[Current(t)]
      BY <1>0, <1>2 DEF ReadJob, ReadBack, Reread, GoTo, ThreadTypeOK, Walking
    <2>3. Undisturbed(Current(t))' => Undisturbed(Current(t))
      BY <1>1, <2>1 DEF Undisturbed, storeVars, cancelVars
    <2>4. CopyIsCurrent(t)'
      BY <1>0, <2>1, <2>2, <2>3 DEF CopyIsCurrent, EventsKept, storeVars
    <2> QED BY <1>1, <2>1, <2>4, StepKeepsEvents DEF storeVars
  <1>3. CASE SaveRunning(t) \/ SaveFinal(t)
    <2>1. /\ \E r : Save(Current(t), r) /\ r.events = copy[t].events
          /\ pc[t] \in {"saveRunning", "saveFinal"} /\ pc'[t] \notin {"saveRunning", "saveFinal"}
          /\ Current(t) \in Job /\ pc[t] \in Walking
      <3>1. StartedRecord(t).events = copy[t].events
        BY <1>0 DEF StartedRecord, JobRecord
      <3>2. FinalRecord(t).events = copy[t].events
        BY <1>0 DEF FinalRecord, JobRecord
      <3>3. /\ pc[t] \in {"saveRunning", "saveFinal"}
            /\ pc'[t] \notin {"saveRunning", "saveFinal"}
        BY <1>0, <1>3 DEF SaveRunning, SaveFinal, GoTo, ThreadTypeOK
      <3> QED BY <1>0, <1>3, <3>1, <3>2, <3>3 DEF SaveRunning, SaveFinal, Walking
    <2>2. log' = log /\ \A i \in Job \ {Current(t)} : jobs'[i] = jobs[i]
      BY <1>0, <2>1 DEF Save, StoreTypeOK
    <2>3. jobs'[Current(t)].events = copy[t].events
      BY <1>0, <2>1 DEF Save, StoreTypeOK
    <2>4. CopyIsCurrent(t)'
      BY <2>1 DEF CopyIsCurrent
    <2>5. \A i \in Job : /\ (Undisturbed(i) /\ jobs[i].events = log[i]
                                => jobs'[i].events = log'[i])
                         /\ Items(log[i]) \subseteq Items(log'[i])
      BY <1>0, <2>1, <2>2, <2>3 DEF CopyIsCurrent
    <2> QED BY <1>1, <2>1, <2>2, <2>4, <2>5, StepKeepsEvents
  <1>4. CASE LogStarted(t) \/ Emit(t) \/ LogFinal(t)
    <2>1. /\ \E e \in EventKind : AppendEvent(Current(t), e)
          /\ Current(t) \in Job /\ pc[t] \in Walking
      <3>1. /\ {"job_started", "job_finished", "job_failed"} \subseteq EventKind
            /\ event[t] \in EventKind
        BY <1>0 DEF EventKind, ThreadTypeOK
      <3>2. pc[t] \in Walking
        BY <1>4 DEF LogStarted, Emit, LogFinal, Walking
      <3> QED BY <1>0, <1>4, <3>1, <3>2 DEF LogStarted, Emit, LogFinal
    <2>2. pc'[t] \notin {"saveRunning", "saveFinal"}
      BY <1>0, <1>4 DEF LogStarted, Emit, AfterEmit, LogFinal, NextItem, GoTo, ThreadTypeOK
    <2>3. CopyIsCurrent(t)'
      BY <2>2 DEF CopyIsCurrent
    <2>4. /\ \A i \in Job \ {Current(t)} : jobs'[i] = jobs[i] /\ log'[i] = log[i]
          /\ jobs[Current(t)].events = log[Current(t)]
               => jobs'[Current(t)].events = log'[Current(t)]
          /\ \A i \in Job : Items(log[i]) \subseteq Items(log'[i])
      BY <1>0, <2>1, AppendKeepsEvents
    <2>5. \A i \in Job : /\ (Undisturbed(i) /\ jobs[i].events = log[i]
                                => jobs'[i].events = log'[i])
                         /\ Items(log[i]) \subseteq Items(log'[i])
      BY <2>1, <2>4
    <2> QED BY <1>1, <2>1, <2>3, <2>4, <2>5, StepKeepsEvents
  <1>5. CASE Run(t) \/ BuildFails(t) \/ Compute(t) \/ Release(t)
    <2>1. UNCHANGED storeVars /\ pc'[t] \notin {"saveRunning", "saveFinal"}
      BY <1>0, <1>5 DEF Run, BuildFails, Compute, Release, GoTo, ThreadTypeOK
    <2>2. CopyIsCurrent(t)'
      BY <2>1 DEF CopyIsCurrent
    <2> QED BY <1>1, <2>1, <2>2, StepKeepsEvents DEF storeVars
  <1> QED BY <1>2, <1>3, <1>4, <1>5, ExecuteStep(t) DEF ExecuteStep

\* A cancel: from its read on, its job is not undisturbed any more.
LEMMA CancelKeepsEvents ==
  ASSUME EventsInv, NEW c \in Canceller,
         CancelStep(c) \/ \E j \in Job : CancelReads(c, j)
  PROVE  EventsInv'
  <1>0. /\ ItemInv /\ StoreTypeOK /\ ThreadTypeOK /\ CancelTypeOK
        /\ CopiesAreCurrent /\ CancelsLeaveTrace /\ NewIsBlank /\ EventsKept
        /\ NoJob \notin Job
    BY EngineAssumption DEF EventsInv, ItemInv, TypeInv, TypeOK
  <1>1. ItemInv' /\ UNCHANGED <<stage, threadVars>> /\ Entered' = Entered
    BY <1>0, CancelItemInv
    DEF CancelStep, CancelReads, CancelSaves, CancelLogs, CancelReturns, Entered
  <1>2. ASSUME NEW j \in Entered,
               \A i \in Job \ {j} : jobs'[i] = jobs[i] /\ log'[i] = log[i],
               \/ jobs' = jobs /\ log' = log
               \/ ~Undisturbed(j)',
               \A i \in Job : Items(log[i]) \subseteq Items(log'[i]),
               \A i \in Job, d \in Canceller :
                  cjob[d] = i => cjob'[d] = i \/ "job_cancelled" \in Items(log[i]),
               CancelsLeaveTrace'
        PROVE  EventsInv'
    <2>1. \A i \in Job : Undisturbed(i)' => Undisturbed(i)
      BY <1>2, UndisturbedBefore
    <2>2. EventsKept'
      BY <1>0, <1>2, <2>1 DEF EventsKept
    <2>3. NewIsBlank'
      BY <1>0, <1>1, <1>2 DEF NewIsBlank, Entered
    <2>4. ASSUME NEW t \in Thread PROVE CopyIsCurrent(t)'
      <3>1. /\ pc'[t] = pc[t] /\ idx'[t] = idx[t] /\ active'[t] = active[t]
            /\ copy'[t] = copy[t] /\ CopyIsCurrent(t) /\ Current(t)' = Current(t)
        BY <1>0, <1>1 DEF threadVars, CopiesAreCurrent, Current
      <3>2. pc[t] \in {"saveRunning", "saveFinal"} => Current(t) \in Job
        BY <1>0, CurrentIsOwn DEF Walking
      <3>3. pc[t] \in {"saveRunning", "saveFinal"} =>
               \/ ~Undisturbed(Current(t))'
               \/ /\ log'[Current(t)] = log[Current(t)]
                  /\ Undisturbed(Current(t))
        BY <1>2, <2>1, <3>1, <3>2
      <3> QED BY <3>1, <3>3, CopyOfOthers
    <2> QED BY <1>1, <1>2, <2>2, <2>3, <2>4 DEF EventsInv, CopiesAreCurrent
  <1>3. ASSUME NEW j \in Job, CancelReads(c, j) PROVE EventsInv'
    <2>1. /\ UNCHANGED storeVars /\ cjob[c] = NoJob /\ j \in Entered
          /\ cjob' = [cjob EXCEPT ![c] = j] /\ cpc' = [cpc EXCEPT ![c] = "save"]
      BY <1>0, <1>3 DEF CancelReads, CancelsLeaveTrace, Entered
    <2>2. CancelsLeaveTrace'
      BY <1>0, <1>1, <2>1 DEF CancelsLeaveTrace, CancelTypeOK, storeVars
    <2> QED BY <1>0, <1>2, <2>1, <2>2 DEF storeVars, CancelTypeOK
  <1>4. CASE CancelSaves(c)
    <2>1. /\ cjob[c] \in Entered /\ cjob[c] \in Job /\ UNCHANGED <<cjob, log>>
          /\ cpc' = [cpc EXCEPT ![c] = "log"]
          /\ \A i \in Job \ {cjob[c]} : jobs'[i] = jobs[i]
      BY <1>0, <1>4 DEF CancelSaves, CancelsLeaveTrace, Save, CancelTypeOK, StoreTypeOK
    <2>2. CancelsLeaveTrace'
      BY <1>0, <1>1, <1>4, <2>1 DEF CancelSaves, CancelsLeaveTrace, CancelTypeOK
    <2>3. ~Undisturbed(cjob[c])'
      BY <2>1 DEF Undisturbed
    <2> QED BY <1>2, <2>1, <2>2, <2>3
  <1>5. CASE CancelLogs(c)
    <2>1. /\ cjob[c] \in Entered /\ cjob[c] \in Job /\ cjob' = cjob
          /\ cpc' = [cpc EXCEPT ![c] = "return"] /\ AppendEvent(cjob[c], "job_cancelled")
          /\ "job_cancelled" \in EventKind
      BY <1>0, <1>5 DEF CancelLogs, CancelsLeaveTrace, CancelTypeOK, EventKind
    <2>2. /\ \A i \in Job \ {cjob[c]} : jobs'[i] = jobs[i] /\ log'[i] = log[i]
          /\ "job_cancelled" \in Items(log'[cjob[c]])
          /\ \A i \in Job : Items(log[i]) \subseteq Items(log'[i])
      BY <1>0, <2>1, AppendKeepsEvents
    <2>3. CancelsLeaveTrace'
      BY <1>0, <1>1, <1>5, <2>1, <2>2 DEF CancelLogs, CancelsLeaveTrace, CancelTypeOK, Entered
    <2>4. ~Undisturbed(cjob[c])'
      BY <2>1 DEF Undisturbed
    <2> QED BY <1>2, <2>1, <2>2, <2>3, <2>4
  <1>6. CASE CancelReturns(c)
    <2>1. /\ cjob[c] \in Entered /\ UNCHANGED storeVars
          /\ "job_cancelled" \in Items(log[cjob[c]])
          /\ cjob' = [cjob EXCEPT ![c] = NoJob] /\ cpc' = [cpc EXCEPT ![c] = "idle"]
      BY <1>0, <1>6 DEF CancelReturns, CancelsLeaveTrace
    <2>2. CancelsLeaveTrace'
      BY <1>0, <1>1, <2>1 DEF CancelsLeaveTrace, CancelTypeOK, storeVars
    <2>3. \A i \in Job, d \in Canceller :
             cjob[d] = i => cjob'[d] = i \/ "job_cancelled" \in Items(log[i])
      BY <1>0, <2>1 DEF CancelTypeOK
    <2> QED BY <1>2, <2>1, <2>2, <2>3 DEF storeVars
  <1> QED BY <1>3, <1>4, <1>5, <1>6 DEF CancelStep

\* Every step keeps the events.
LEMMA NextEvents == EventsInv /\ [Next]_vars => EventsInv'
  <1> SUFFICES ASSUME EventsInv, [Next]_vars PROVE EventsInv'
    OBVIOUS
  <1>0. ItemInv' /\ ThreadTypeOK
    BY NextItemInv DEF EventsInv, ItemInv, TypeInv, TypeOK
  <1>1. ASSUME NEW t \in SyncCaller, NEW j \in Job, RunSync(t, j) PROVE EventsInv'
    <2>1. /\ t \in Thread /\ UNCHANGED <<storeVars, cancelVars, copy>>
          /\ pc'[t] \notin {"saveRunning", "saveFinal"}
          /\ \A u \in Thread \ {t} : /\ pc'[u] = pc[u] /\ idx'[u] = idx[u]
                                     /\ active'[u] = active[u] /\ copy'[u] = copy[u]
      BY <1>0, <1>1 DEF RunSync, Thread, ThreadTypeOK
    <2>2. CopyIsCurrent(t)'
      BY <2>1 DEF CopyIsCurrent
    <2>3. \A i \in Job : stage'[i] = stage[i] \/ (stage[i] = "logged" /\ stage'[i] = "sync")
      BY <1>1 DEF RunSync, EventsInv, ItemInv, TypeInv, TypeOK
    <2> QED BY <1>0, <2>1, <2>2, <2>3, StepKeepsEvents DEF storeVars
  <1>2. ASSUME NEW w \in Worker, CollectStep(w) PROVE EventsInv'
    <2>1. /\ w \in Thread /\ UNCHANGED <<storeVars, stage, cancelVars>>
      BY <1>2
      DEF CollectStep, Take, Collect, CollectEnds, RequeueCounts, Requeue, RequeueEnds, Dispatch,
          Filter, Thread
    <2>2. pc'[w] \notin {"saveRunning", "saveFinal"}
      BY <1>0, <1>2, <2>1
      DEF CollectStep, Take, Collect, CollectEnds, RequeueCounts, Requeue, RequeueEnds, Dispatch,
          Filter, GoTo, ThreadTypeOK
    <2>3. CopyIsCurrent(w)'
      BY <2>2 DEF CopyIsCurrent
    <2> QED BY <1>0, <1>2, <2>1, <2>3, CollectIsLocal, StepKeepsEvents DEF storeVars
  <1>3. CASE UNCHANGED vars
    <2>1. UNCHANGED <<storeVars, stage, threadVars, cancelVars>>
      BY <1>3 DEF vars
    <2>2. \A j \in Job : Undisturbed(j)' <=> Undisturbed(j)
      BY <2>1 DEF Undisturbed, storeVars, cancelVars
    <2>3. \A t \in Thread : CopyIsCurrent(t) => CopyIsCurrent(t)'
      BY <2>1 DEF CopyIsCurrent, Undisturbed, Current, storeVars, threadVars, cancelVars
    <2> QED
      BY <1>0, <2>1, <2>2, <2>3
      DEF EventsInv, EventsKept, CopiesAreCurrent, CancelsLeaveTrace, NewIsBlank, Entered,
          storeVars, cancelVars
  <1> QED
    BY <1>1, <1>2, <1>3, SubmitKeepsEvents, ExecuteKeepsEvents, CancelKeepsEvents DEF Next

\* A record keeps every event ever appended, in order, unless a cancel found
\* the job queued, although every save writes a whole list back.
THEOREM EventsSurvive == Spec => []EventsKept
  <1>1. EventsInv => EventsKept
    BY DEF EventsInv
  <1> QED BY <1>1, InitEvents, NextEvents, PTL DEF Spec
-------------------------------------------------------------------------------
(* Cancels in time.                                                        *)

\* append_event changes no state.
LEMMA StoreKeepsState ==
  ASSUME StoreTypeOK, NEW i \in Job, NEW e, AppendEvent(i, e), NEW j \in Job
  PROVE  jobs'[j].state = jobs[j].state
  <1>1. jobs' = [jobs EXCEPT ![i] = [jobs[i] EXCEPT !.events = Append(jobs[i].events, e)]]
    BY DEF AppendEvent
  <1>2. jobs[i] \in JobRecord /\ jobs \in [Job -> JobRecord]
    BY DEF StoreTypeOK
  <1>3. [jobs[i] EXCEPT !.events = Append(jobs[i].events, e)].state = jobs[i].state
    BY <1>2 DEF JobRecord
  <1> QED BY <1>1, <1>2, <1>3

\* What thread t does neither puts an item past the last look that is not there
\* yet and cancelled, nor touches one.
LEMMA StaysLatched ==
  ASSUME TypeInv, NEW j \in Job, Latched(j), NEW t \in Thread,
         \A u \in Thread \ {t} : pc'[u] = pc[u] /\ active'[u] = active[u],
         jobs'[j].state = "cancelled", ~PastLook(t, j)'
  PROVE  Latched(j)'
  BY DEF Latched, PastLook

\* The collection drops what is cancelled.
LEMMA CollectLatched ==
  ASSUME TypeInv, NEW j \in Job, Latched(j), NEW w \in Worker, CollectStep(w)
  PROVE  Latched(j)' /\ UNCHANGED runs
  <1>0. /\ ThreadTypeOK /\ w \in Thread /\ held[w] \in Seq(Job) /\ active[w] \in Seq(Job)
        /\ idx[w] \in Nat \ {0} /\ jobs[j].state = "cancelled" /\ ~PastLook(w, j)
    BY DEF TypeInv, TypeOK, ThreadTypeOK, Thread, Latched
  <1>1. /\ UNCHANGED <<storeVars, runs>>
        /\ \A u \in Thread \ {w} : pc'[u] = pc[u] /\ active'[u] = active[u]
    BY <1>0
    DEF CollectStep, Take, Collect, CollectEnds, RequeueCounts, Requeue, RequeueEnds, Dispatch,
        Filter, GoTo, ThreadTypeOK
  <1>2. ~PastLook(w, j)'
    <2>1. CASE Take(w) \/ Collect(w) \/ CollectEnds(w) \/ RequeueCounts(w) \/ Requeue(w)
               \/ RequeueEnds(w)
      <3>1. active' = active /\ pc[w] \notin {"read", "release"}
        BY <2>1 DEF Take, Collect, CollectEnds, RequeueCounts, Requeue, RequeueEnds
      <3> QED BY <1>0, <3>1 DEF PastLook
    <2>2. CASE Dispatch(w)
      <3>1. CASE Len(held[w]) = 1
        BY <1>0, <2>2, <3>1 DEF Dispatch, GoTo, PastLook, ThreadTypeOK
      <3>2. CASE Len(held[w]) # 1
        <4>1. active'[w] = << >>
          BY <1>0, <2>2, <3>2 DEF Dispatch, ThreadTypeOK
        <4> QED BY <4>1, ItemsOfEmpty DEF PastLook
      <3> QED BY <3>1, <3>2
    <2>3. CASE Filter(w)
      <3>1. j \notin Items(active[w]) /\ pc[w] = "filter"
        BY <1>0, <2>3 DEF Filter, PastLook
      <3>2. CASE idx[w] <= Len(held[w])
        <4>1. CASE jobs[held[w][idx[w]]].state = "cancelled"
          BY <2>3, <3>1, <3>2, <4>1 DEF Filter, PastLook
        <4>2. CASE jobs[held[w][idx[w]]].state # "cancelled"
          <5>1. /\ active'[w] = Append(active[w], held[w][idx[w]])
                /\ held[w][idx[w]] \in Job /\ held[w][idx[w]] # j
            BY <1>0, <2>3, <3>2, <4>2 DEF Filter, ThreadTypeOK
          <5> QED BY <1>0, <3>1, <5>1, ItemsOfAppend DEF PastLook
        <4> QED BY <4>1, <4>2
      <3>3. CASE ~(idx[w] <= Len(held[w]))
        BY <2>3, <3>1, <3>3 DEF Filter, PastLook
      <3> QED BY <3>2, <3>3
    <2> QED BY <2>1, <2>2, <2>3, CollectStep(w) DEF CollectStep
  <1> QED BY <1>0, <1>1, <1>2, StaysLatched DEF storeVars

\* A lone cancelled item is found by the read, and a later step is not one for
\* this item.
LEMMA ExecuteLatched ==
  ASSUME TypeInv, NEW j \in Job, Latched(j), NEW t \in Thread, ExecuteStep(t)
  PROVE  Latched(j)' /\ runs'[j] = runs[j]
  <1>0. /\ ThreadTypeOK /\ StoreTypeOK /\ active[t] \in Seq(Job) /\ idx[t] \in Nat \ {0}
        /\ jobs[j].state = "cancelled" /\ ~PastLook(t, j) /\ runs \in [Job -> Nat]
        /\ pc[t] \in Walking => /\ Current(t) \in Job /\ idx[t] \in 1 .. Len(active[t])
                                /\ Current(t) \in Items(active[t])
    BY CurrentType, SMTT(30) DEF TypeInv, TypeOK, ThreadTypeOK, Latched, IndexInRange, Items, Current
  <1>1. CASE Release(t)
    <2>1. /\ active'[t] = << >> /\ UNCHANGED <<storeVars, runs>>
          /\ \A u \in Thread \ {t} : pc'[u] = pc[u] /\ active'[u] = active[u]
      BY <1>0, <1>1 DEF Release, GoTo, ThreadTypeOK
    <2> QED BY <1>0, <2>1, StaysLatched, ItemsOfEmpty DEF PastLook, storeVars
  <1>2. CASE ReadJob(t)
    <2>1. /\ UNCHANGED <<active, storeVars, runs>> /\ pc[t] = "read"
          /\ \A u \in Thread \ {t} : pc'[u] = pc[u] /\ active'[u] = active[u]
          /\ pc'[t] = IF FoundCancelled(t) THEN "release" ELSE "saveRunning"
      BY <1>0, <1>2 DEF ReadJob, GoTo, ThreadTypeOK
    <2>2. ~PastLook(t, j)'
      <3>1. CASE j \in Items(active[t])
        <4>0. Len(active[t]) = 1
          BY <1>0, <2>1, <3>1 DEF PastLook
        <4>1. Len(active[t]) = 1 /\ idx[t] = 1 /\ DOMAIN active[t] = {1}
          BY <1>0, <2>1, <4>0 DEF Walking
        <4>2. Current(t) = j
          BY <3>1, <4>1 DEF Current, Items
        <4> QED BY <1>0, <2>1, <4>1, <4>2 DEF FoundCancelled, PastLook
      <3>2. CASE j \notin Items(active[t])
        BY <2>1, <3>2 DEF PastLook
      <3> QED BY <3>1, <3>2
    <2> QED BY <1>0, <2>1, <2>2, StaysLatched DEF storeVars
  <1>3. CASE ~Release(t) /\ ~ReadJob(t)
    <2>1. /\ active' = active /\ pc[t] \in Walking \ {"read"}
          /\ \A u \in Thread \ {t} : pc'[u] = pc[u]
      BY <1>0, <1>3
      DEF ExecuteStep, SaveRunning, LogStarted, Run, BuildFails, Emit, AfterEmit, Compute,
          ReadBack, SaveFinal, LogFinal, NextItem, GoTo, Walking, ThreadTypeOK
    <2>2. j \notin Items(active[t]) /\ Current(t) # j
      BY <1>0, <2>1 DEF PastLook, Walking
    <2>3. jobs'[j] = jobs[j]
      <3>1. CASE SaveRunning(t) \/ SaveFinal(t)
        BY <1>0, <2>1, <2>2, <3>1 DEF SaveRunning, SaveFinal, Save, StoreTypeOK
      <3>2. CASE LogStarted(t) \/ Emit(t) \/ LogFinal(t)
        BY <1>0, <2>1, <2>2, <3>2 DEF LogStarted, Emit, LogFinal, AppendEvent, StoreTypeOK
      <3>3. CASE Run(t) \/ BuildFails(t) \/ Compute(t) \/ ReadBack(t)
        BY <3>3 DEF Run, BuildFails, Compute, ReadBack, storeVars
      <3> QED BY <1>3, <3>1, <3>2, <3>3 DEF ExecuteStep
    <2>4. runs'[j] = runs[j]
      BY <1>0, <1>3, <2>2
      DEF ExecuteStep, SaveRunning, LogStarted, Run, BuildFails, Emit, Compute, ReadBack,
          SaveFinal, LogFinal
    <2>5. ~PastLook(t, j)'
      BY <2>1, <2>2 DEF PastLook
    <2> QED BY <1>0, <2>1, <2>3, <2>4, <2>5, StaysLatched
  <1> QED BY <1>1, <1>2, <1>3

\* A step keeps what is latched.
LEMMA NextLatched ==
  ASSUME EventsInv, [Next]_vars, NEW j \in Job, Latched(j)
  PROVE  Latched(j)' /\ runs'[j] = runs[j]
  <1>0. /\ TypeInv /\ StoreTypeOK /\ ThreadTypeOK /\ CancelTypeOK /\ NewIsBlank
        /\ jobs[j].state = "cancelled" /\ \A t \in Thread : ~PastLook(t, j)
    BY DEF EventsInv, ItemInv, TypeInv, TypeOK, Latched
  <1>1. ASSUME UNCHANGED <<pc, active, runs>>, jobs'[j].state = "cancelled"
        PROVE  Latched(j)' /\ runs'[j] = runs[j]
    BY <1>0, <1>1 DEF Latched, PastLook
  <1>2. ASSUME NEW i \in Job, SubmitStep(i) PROVE Latched(j)' /\ runs'[j] = runs[j]
    <2>1. jobs'[j].state = "cancelled"
      <3>1. CASE CreateJob(i)
        BY <1>0, <3>1 DEF CreateJob, Create, NewIsBlank, StoreTypeOK
      <3>2. CASE LogEnqueued(i)
        BY <1>0, <3>2, StoreKeepsState DEF LogEnqueued
      <3>3. CASE Put(i)
        BY <1>0, <3>3 DEF Put, storeVars
      <3> QED BY <1>2, <3>1, <3>2, <3>3 DEF SubmitStep
    <2> QED BY <1>1, <1>2, <2>1 DEF SubmitStep, CreateJob, LogEnqueued, Put, threadVars
  <1>3. ASSUME NEW t \in SyncCaller, NEW i \in Job, RunSync(t, i)
        PROVE  Latched(j)' /\ runs'[j] = runs[j]
    <2>1. /\ t \in Thread /\ UNCHANGED <<storeVars, runs>>
          /\ active'[t] = <<i>> /\ pc'[t] = "read" /\ Len(<<i>>) = 1
          /\ \A u \in Thread \ {t} : pc'[u] = pc[u] /\ active'[u] = active[u]
      BY <1>0, <1>3 DEF RunSync, Thread, ThreadTypeOK
    <2> QED BY <1>0, <2>1, StaysLatched DEF PastLook, storeVars
  <1>4. ASSUME NEW c \in Canceller, CancelStep(c) \/ \E i \in Job : CancelReads(c, i)
        PROVE  Latched(j)' /\ runs'[j] = runs[j]
    <2>1. jobs'[j].state = "cancelled"
      <3>1. CASE CancelSaves(c)
        <4>1. /\ cjob[c] \in Job /\ ccopy[c] \in JobRecord
              /\ jobs' = [jobs EXCEPT ![cjob[c]] = [ccopy[c] EXCEPT !.state = "cancelled"]]
          BY <1>0, <3>1 DEF CancelSaves, Save, CancelTypeOK
        <4>2. [ccopy[c] EXCEPT !.state = "cancelled"].state = "cancelled"
          BY <4>1 DEF JobRecord
        <4> QED BY <1>0, <4>1, <4>2 DEF StoreTypeOK
      <3>2. CASE CancelLogs(c)
        BY <1>0, <3>2, StoreKeepsState DEF CancelLogs, CancelTypeOK
      <3>3. CASE CancelReturns(c) \/ \E i \in Job : CancelReads(c, i)
        BY <1>0, <3>3 DEF CancelReturns, CancelReads, storeVars
      <3> QED BY <1>4, <3>1, <3>2, <3>3 DEF CancelStep
    <2> QED
      BY <1>1, <1>4, <2>1
      DEF CancelStep, CancelReads, CancelSaves, CancelLogs, CancelReturns, threadVars
  <1>5. CASE UNCHANGED vars
    BY <1>0, <1>1, <1>5 DEF vars, storeVars, threadVars
  <1> QED
    BY <1>0, <1>2, <1>3, <1>4, <1>5, CollectLatched, ExecuteLatched DEF Next

\* A cancel that is saved before any worker's last look at the state is final:
\* the job stays cancelled and is not run.
THEOREM CancelInTimeHolds == Spec => CancelLatches
  <1>1. EventsInv /\ [Next]_vars
          => [\A j \in Job : Latched(j) => Latched(j)' /\ runs'[j] = runs[j]]_vars
    BY NextLatched
  <1> QED BY <1>1, InitEvents, NextEvents, PTL DEF Spec, CancelLatches
-------------------------------------------------------------------------------
(* What is given back.  While a thread walks over its batch every item it  *)
(* holds is settled or still before it, so nothing else is left when it    *)
(* comes to the end; the filter leaves out only what is cancelled.  The    *)
(* one other way out, the exception of create_group, takes requests        *)
(* without a signature with it, since a batch has one signature.           *)

BatchesMatch ==
  \A t \in Thread : pc[t] \in {"collect", "requeue", "putBack", "dispatch"} =>
    \A k \in DOMAIN held[t] :
      BatchSignature(Request[held[t][k]]) = BatchSignature(Request[held[t][1]])

Handling(t) ==
  /\ pc[t] \in Walking \cup {"release"} =>
       \A j \in Items(held[t]) : jobs[j].state \in TerminalState \/ Works(t, j)
  /\ pc[t] = "filter" =>
       \A i \in DOMAIN held[t] :
          i < idx[t] => \/ jobs[held[t][i]].state \in TerminalState
                        \/ held[t][i] \in Items(active[t])

ReleasedInv ==
  /\ ItemInv /\ OwnerInv /\ BatchesMatch /\ ReleasedIsSettled
  /\ \A t \in Thread : Handling(t)

\* The initial states.
LEMMA InitReleased == Init => ReleasedInv
  <1> SUFFICES ASSUME Init PROVE ReleasedInv
    OBVIOUS
  <1>1. ItemInv /\ OwnerInv
    BY InitItemInv, InitOwner
  <1>2. (\A t \in Thread : pc[t] = "idle") /\ released = {}
    BY DEF Init
  <1> QED
    BY <1>1, <1>2 DEF ReleasedInv, BatchesMatch, ReleasedIsSettled, Handling, Walking

\* What a thread is about to save is its own, and still before it.
LEMMA SavedIsHeld ==
  ASSUME ItemInv, NEW t \in Thread, pc[t] = "saveRunning"
  PROVE  Current(t) \in Items(held[t]) /\ Works(t, Current(t))
  <1>1. /\ active[t] \in Seq(Job) /\ idx[t] \in DOMAIN active[t]
        /\ Items(active[t]) \subseteq Items(held[t])
    BY DEF ItemInv, TypeInv, TypeOK, ThreadTypeOK, IndexInRange, ActiveIsHeld, Walking
  <1> QED BY <1>1 DEF Current, Items, Works, Walking

\* The state of a job that is under way stays, or is terminal afterwards, or
\* the job is recorded as running.
LEMMA StateGoesOn ==
  ASSUME ItemInv, [Next]_vars, NEW j \in Entered
  PROVE  \/ jobs'[j].state = jobs[j].state
         \/ jobs'[j].state \in TerminalState
         \/ \E t \in Thread : pc[t] = "saveRunning" /\ Current(t) = j
  <1>0. /\ StoreTypeOK /\ ThreadTypeOK /\ CancelTypeOK /\ j \in Job
        /\ \A t \in Thread : pc[t] \in Walking => Current(t) \in Job
    BY CurrentType DEF ItemInv, TypeInv, TypeOK, Entered
  <1>1. ASSUME NEW i \in Job, SubmitStep(i) PROVE jobs'[j].state = jobs[j].state
    <2>1. CASE CreateJob(i)
      BY <1>0, <2>1 DEF CreateJob, Create, Entered, StoreTypeOK
    <2>2. CASE LogEnqueued(i)
      BY <1>0, <2>2, StoreKeepsState DEF LogEnqueued
    <2>3. CASE Put(i)
      BY <2>3 DEF Put, storeVars
    <2> QED BY <1>1, <2>1, <2>2, <2>3 DEF SubmitStep
  <1>2. ASSUME NEW t \in SyncCaller, NEW i \in Job, RunSync(t, i)
        PROVE  jobs'[j].state = jobs[j].state
    BY <1>2 DEF RunSync, storeVars
  <1>3. ASSUME NEW w \in Worker, CollectStep(w) PROVE jobs'[j].state = jobs[j].state
    BY <1>3
    DEF CollectStep, Take, Collect, CollectEnds, RequeueCounts, Requeue, RequeueEnds, Dispatch,
        Filter, storeVars
  <1>4. ASSUME NEW t \in Thread, ExecuteStep(t)
        PROVE  \/ jobs'[j].state = jobs[j].state
               \/ jobs'[j].state \in TerminalState
               \/ pc[t] = "saveRunning" /\ Current(t) = j
    <2>1. CASE SaveRunning(t)
      BY <1>0, <2>1 DEF SaveRunning, Save, StoreTypeOK, Walking
    <2>2. CASE SaveFinal(t)
      <3>1. copy[t] \in JobRecord /\ jobs' = [jobs EXCEPT ![Current(t)] = FinalRecord(t)]
        BY <1>0, <2>2 DEF SaveFinal, Save, ThreadTypeOK
      <3>2. FinalRecord(t).state \in TerminalState
        <4>1. CASE outcome[t] = "succeeded"
          BY <3>1, <4>1 DEF FinalRecord, JobRecord, TerminalState
        <4>2. CASE outcome[t] # "succeeded"
          BY <3>1, <4>2 DEF FinalRecord, JobRecord, TerminalState
        <4> QED BY <4>1, <4>2
      <3> QED BY <1>0, <3>1, <3>2 DEF StoreTypeOK
    <2>3. CASE LogStarted(t) \/ Emit(t) \/ LogFinal(t)
      <3>1. Current(t) \in Job /\ \E e : AppendEvent(Current(t), e)
        BY <1>0, <2>3 DEF LogStarted, Emit, LogFinal, Walking
      <3> QED BY <1>0, <3>1, StoreKeepsState
    <2>4. CASE ReadJob(t) \/ Run(t) \/ BuildFails(t) \/ Compute(t) \/ ReadBack(t) \/ Release(t)
      BY <2>4 DEF ReadJob, Run, BuildFails, Compute, ReadBack, Release, storeVars
    <2> QED BY <1>4, <2>1, <2>2, <2>3, <2>4 DEF ExecuteStep
  <1>5. ASSUME NEW c \in Canceller, CancelStep(c) \/ \E i \in Job : CancelReads(c, i)
        PROVE  jobs'[j].state = jobs[j].state \/ jobs'[j].state \in TerminalState
    <2>1. CASE CancelSaves(c)
      <3>1. /\ ccopy[c] \in JobRecord
            /\ jobs' = [jobs EXCEPT ![cjob[c]] = [ccopy[c] EXCEPT !.state = "cancelled"]]
        BY <1>0, <2>1 DEF CancelSaves, Save, CancelTypeOK
      <3>2. [ccopy[c] EXCEPT !.state = "cancelled"].state = "cancelled"
        BY <3>1 DEF JobRecord
      <3> QED BY <1>0, <3>1, <3>2 DEF StoreTypeOK, TerminalState
    <2>2. CASE CancelLogs(c)
      BY <1>0, <2>2, StoreKeepsState DEF CancelLogs, CancelTypeOK
    <2>3. CASE CancelReturns(c) \/ \E i \in Job : CancelReads(c, i)
      BY <2>3 DEF CancelReturns, CancelReads, storeVars
    <2> QED BY <1>5, <2>1, <2>2, <2>3 DEF CancelStep
  <1>6. CASE UNCHANGED vars
    BY <1>6 DEF vars, storeVars
  <1> QED BY <1>1, <1>2, <1>3, <1>4, <1>5, <1>6 DEF Next

\* What a thread holds and is settled stays so, unless the thread itself
\* records it as running.
LEMMA TerminalRemains ==
  ASSUME ItemInv, [Next]_vars, NEW u \in Thread, NEW j \in Items(held[u]),
         jobs[j].state \in TerminalState
  PROVE  \/ jobs'[j].state \in TerminalState
         \/ pc[u] = "saveRunning" /\ Current(u) = j
  <1>1. j \in Entered /\ ExclusiveItems
    BY DEF ItemInv, PlacedIsSubmitted, Holding
  <1>2. ASSUME NEW t \in Thread, pc[t] = "saveRunning", Current(t) = j PROVE t = u
    BY <1>1, <1>2, SavedIsHeld DEF ExclusiveItems, Holding
  <1> QED BY <1>1, <1>2, StateGoesOn

\* A thread that does not move has what it had.
LEMMA OthersHandle ==
  ASSUME ItemInv, [Next]_vars, NEW u \in Thread, Handling(u),
         pc'[u] = pc[u], idx'[u] = idx[u], active'[u] = active[u], held'[u] = held[u]
  PROVE  Handling(u)'
  <1>1. ASSUME NEW j \in Items(held[u]), jobs[j].state \in TerminalState, pc[u] # "saveRunning"
        PROVE  jobs'[j].state \in TerminalState
    BY <1>1, TerminalRemains
  <1>2. ASSUME pc[u] \in Walking \cup {"release"}, NEW j \in Items(held[u])
        PROVE  jobs'[j].state \in TerminalState \/ Works(u, j)'
    <2>1. CASE Works(u, j)
      BY <2>1, WalkOfOthers
    <2>2. CASE ~Works(u, j)
      <3>1. jobs[j].state \in TerminalState
        BY <1>2, <2>2 DEF Handling
      <3>2. ~(pc[u] = "saveRunning" /\ Current(u) = j)
        BY <2>2, SavedIsHeld
      <3> QED BY <3>1, <3>2, TerminalRemains
    <2> QED BY <2>1, <2>2
  <1>3. ASSUME pc[u] = "filter", NEW i \in DOMAIN held[u], i < idx[u]
        PROVE  jobs'[held[u][i]].state \in TerminalState \/ held[u][i] \in Items(active[u])
    <2>1. held[u][i] \in Items(held[u])
      BY DEF Items
    <2> QED BY <1>1, <1>3, <2>1 DEF Handling
  <1>4. Items(held'[u]) = Items(held[u]) /\ Items(active'[u]) = Items(active[u])
    BY DEF Items
  <1> QED BY <1>2, <1>3, <1>4 DEF Handling

\* The collection leaves out what is cancelled, and nothing else.
LEMMA CollectHandles ==
  ASSUME ItemInv, NEW w \in Worker, Handling(w), CollectStep(w)
  PROVE  Handling(w)'
  <1>0. /\ ThreadTypeOK /\ w \in Thread /\ held[w] \in Seq(Job) /\ active[w] \in Seq(Job)
        /\ idx[w] \in Nat \ {0}
    BY DEF ItemInv, TypeInv, TypeOK, ThreadTypeOK, Thread
  <1>1. CASE Take(w) \/ Collect(w) \/ CollectEnds(w) \/ RequeueCounts(w) \/ Requeue(w)
             \/ RequeueEnds(w)
    <2>1. pc'[w] \in {"collect", "requeue", "putBack", "dispatch"}
      BY <1>0, <1>1
      DEF Take, Collect, CollectEnds, RequeueCounts, Requeue, RequeueEnds, GoTo, ThreadTypeOK
    <2> QED BY <2>1 DEF Handling, Walking
  <1>2. CASE Dispatch(w)
    <2>1. CASE Len(held[w]) = 1
      <3>1. pc'[w] = "read" /\ active'[w] = held[w] /\ held'[w] = held[w]
        BY <1>0, <1>2, <2>1 DEF Dispatch, GoTo, ThreadTypeOK
      <3>2. \A j \in Items(held'[w]) : Works(w, j)'
        BY <3>1 DEF Works, Items, Walking
      <3> QED BY <3>1, <3>2 DEF Handling
    <2>2. CASE Len(held[w]) # 1
      <3>1. pc'[w] \in {"dead", "filter"} /\ idx'[w] = 1 /\ (pc'[w] = "filter" => held'[w] = held[w])
        BY <1>0, <1>2, <2>2 DEF Dispatch, GoTo, ThreadTypeOK
      <3>2. \A i \in DOMAIN held[w] : ~(i < 1)
        BY <1>0
      <3> QED BY <3>1, <3>2 DEF Handling, Walking
    <2> QED BY <2>1, <2>2
  <1>3. CASE Filter(w)
    <2>0. /\ held'[w] = held[w] /\ jobs' = jobs /\ pc[w] = "filter"
          /\ \A i \in DOMAIN held[w] : i < idx[w] => \/ jobs[held[w][i]].state \in TerminalState
                                                     \/ held[w][i] \in Items(active[w])
      BY <1>3 DEF Filter, storeVars, Handling
    <2>1. CASE idx[w] <= Len(held[w])
      <3>1. pc'[w] = "filter" /\ idx'[w] = idx[w] + 1
        BY <1>0, <1>3, <2>1 DEF Filter, ThreadTypeOK
      <3>2. \/ jobs[held[w][idx[w]]].state = "cancelled" /\ active' = active
            \/ /\ active'[w] = Append(active[w], held[w][idx[w]])
               /\ held[w][idx[w]] \in Job
        BY <1>0, <1>3, <2>1 DEF Filter, ThreadTypeOK
      <3>3. /\ Items(active[w]) \subseteq Items(active'[w])
            /\ jobs[held[w][idx[w]]].state \in TerminalState \/ held[w][idx[w]] \in Items(active'[w])
        <4>1. CASE jobs[held[w][idx[w]]].state = "cancelled" /\ active' = active
          BY <4>1 DEF TerminalState
        <4>2. CASE /\ active'[w] = Append(active[w], held[w][idx[w]])
                   /\ held[w][idx[w]] \in Job
          <5>1. Items(active'[w]) = Items(active[w]) \cup {held[w][idx[w]]}
            BY <1>0, <4>2, ItemsOfAppend
          <5> QED BY <5>1
        <4> QED BY <3>2, <4>1, <4>2
      <3>4. \A i \in DOMAIN held[w] : i < idx[w] + 1 => i < idx[w] \/ i = idx[w]
        BY <1>0
      <3>5. ASSUME NEW i \in DOMAIN held[w], i < idx[w] + 1
            PROVE  jobs[held[w][i]].state \in TerminalState \/ held[w][i] \in Items(active'[w])
        BY <2>0, <3>3, <3>4, <3>5
      <3> QED BY <2>0, <3>1, <3>5 DEF Handling, Items, Walking
    <2>2. CASE ~(idx[w] <= Len(held[w]))
      <3>1. /\ active'[w] = active[w]
            /\ pc'[w] = IF active[w] = << >> THEN "release" ELSE "read"
        BY <1>0, <1>3, <2>2 DEF Filter, GoTo, ThreadTypeOK
      <3>2. \A i \in DOMAIN held[w] : i < idx[w]
        BY <1>0, <2>2
      <3>3. \A j \in Items(held[w]) : jobs[j].state \in TerminalState \/ j \in Items(active[w])
        BY <2>0, <3>2 DEF Items
      <3>4. CASE active[w] = << >>
        <4>1. \A j \in Items(held'[w]) : jobs'[j].state \in TerminalState
          BY <2>0, <3>3, <3>4, ItemsOfEmpty DEF Items
        <4> QED BY <3>1, <3>4, <4>1 DEF Handling
      <3>5. CASE active[w] # << >>
        <4>1. \A j \in Items(active[w]) : Works(w, j)'
          BY <3>1, <3>5 DEF Works, Items, Walking
        <4>2. Items(held'[w]) = Items(held[w])
          BY <2>0 DEF Items
        <4> QED BY <2>0, <3>1, <3>3, <3>5, <4>1, <4>2 DEF Handling
      <3> QED BY <3>4, <3>5
    <2> QED BY <2>1, <2>2
  <1> QED BY <1>1, <1>2, <1>3, CollectStep(w) DEF CollectStep

\* An execution step comes past an item only by settling it.
LEMMA ExecuteHandles ==
  ASSUME ItemInv, StartsAtFirst, NEW t \in Thread, Handling(t), ExecuteStep(t)
  PROVE  Handling(t)'
  <1>0. /\ ThreadTypeOK /\ StoreTypeOK /\ active[t] \in Seq(Job) /\ idx[t] \in Nat \ {0}
        /\ copy[t] \in JobRecord
        /\ pc[t] \in Walking => Current(t) \in Job /\ idx[t] \in 1 .. Len(active[t])
    BY CurrentType DEF ItemInv, TypeInv, TypeOK, ThreadTypeOK, IndexInRange
  <1>1. CASE Release(t)
    <2>1. pc'[t] = "idle"
      BY <1>0, <1>1 DEF Release, GoTo, ThreadTypeOK
    <2> QED BY <2>1 DEF Handling, Walking
  <1>2. CASE ReadJob(t)
    <2>1. /\ pc[t] = "read" /\ UNCHANGED <<held, active, idx, jobs>>
          /\ pc'[t] = IF FoundCancelled(t) THEN "release" ELSE "saveRunning"
      BY <1>0, <1>2 DEF ReadJob, GoTo, ThreadTypeOK, storeVars
    <2>2. CASE FoundCancelled(t)
      <3>1. /\ Len(active[t]) = 1 /\ idx[t] = 1 /\ DOMAIN active[t] = {1}
            /\ jobs[active[t][1]].state = "cancelled"
        BY <1>0, <2>1, <2>2 DEF FoundCancelled, Walking, Current
      <3>2. \A j : Works(t, j) => j = active[t][1]
        BY <3>1 DEF Works
      <3>3. \A j \in Items(held[t]) : jobs[j].state \in TerminalState
        BY <2>1, <3>1, <3>2 DEF Handling, Walking, TerminalState
      <3> QED BY <2>1, <2>2, <3>3 DEF Handling, Items
    <2>3. CASE ~FoundCancelled(t)
      <3>1. \A j : Works(t, j) => Works(t, j)'
        BY <2>1, <2>3 DEF Works, Walking
      <3> QED BY <2>1, <2>3, <3>1 DEF Handling, Items, Walking
    <2> QED BY <2>2, <2>3
  <1>3. ASSUME UNCHANGED held, pc[t] \in Walking, pc'[t] \in Walking \cup {"release"},
               \A j \in Items(held[t]) : Works(t, j) => \/ Works(t, j)'
                                                        \/ jobs'[j].state \in TerminalState
        PROVE  Handling(t)'
    <2>1. ASSUME NEW j \in Items(held[t])
          PROVE  jobs'[j].state \in TerminalState \/ Works(t, j)'
      <3>1. CASE Works(t, j)
        BY <1>3, <3>1
      <3>2. CASE ~Works(t, j)
        <4>1. jobs[j].state \in TerminalState
          BY <1>3, <3>2 DEF Handling
        <4>2. ~(pc[t] = "saveRunning" /\ Current(t) = j)
          BY <3>2, SavedIsHeld
        <4>3. [Next]_vars
          BY ExecuteStep(t) DEF Next
        <4> QED BY <4>1, <4>2, <4>3, TerminalRemains
      <3> QED BY <3>1, <3>2
    <2> QED BY <1>3, <2>1 DEF Handling, Items, Walking
  <1>4. CASE SaveRunning(t) \/ Run(t) \/ Compute(t) \/ BuildFails(t) \/ ReadBack(t)
    <2>1. /\ pc[t] \in Walking /\ pc'[t] \in Walking /\ UNCHANGED <<held, active, idx>>
          /\ pc'[t] # "logFinal"
          /\ pc'[t] \in {"readBack", "saveFinal"} =>
               pc[t] \in {"run", "compute", "readBack"}
      BY <1>0, <1>4
      DEF SaveRunning, Run, Compute, BuildFails, ReadBack, GoTo, Walking, ThreadTypeOK
    <2>2. \A k \in DOMAIN active[t] : pc[t] \in {"run", "compute"} => k >= idx[t]
      BY <1>0 DEF StartsAtFirst
    <2>3. \A j : Works(t, j) => Works(t, j)'
      BY <2>1, <2>2 DEF Works
    <2> QED BY <1>3, <2>1, <2>3
  <1>5. CASE SaveFinal(t)
    <2>1. /\ pc[t] = "saveFinal" /\ pc'[t] = "logFinal" /\ UNCHANGED <<held, active, idx>>
          /\ jobs' = [jobs EXCEPT ![Current(t)] = FinalRecord(t)]
      BY <1>0, <1>5 DEF SaveFinal, Save, GoTo, ThreadTypeOK
    <2>2. FinalRecord(t).state \in TerminalState
      <3>1. CASE outcome[t] = "succeeded"
        BY <1>0, <3>1 DEF FinalRecord, JobRecord, TerminalState
      <3>2. CASE outcome[t] # "succeeded"
        BY <1>0, <3>2 DEF FinalRecord, JobRecord, TerminalState
      <3> QED BY <3>1, <3>2
    <2>3. jobs'[Current(t)].state \in TerminalState
      BY <1>0, <2>1, <2>2 DEF StoreTypeOK, Walking
    <2>4. ASSUME NEW j, Works(t, j), j # Current(t) PROVE Works(t, j)'
      <3>1. PICK k \in DOMAIN active[t] : active[t][k] = j /\ k >= idx[t]
        BY <2>1, <2>4 DEF Works
      <3>2. k # idx[t]
        BY <2>4, <3>1 DEF Current
      <3>3. k > idx[t]
        BY <1>0, <3>1, <3>2
      <3> QED BY <2>1, <3>1, <3>3 DEF Works, Walking
    <2> QED BY <1>3, <2>1, <2>3, <2>4 DEF Walking
  <1>6. CASE LogStarted(t) \/ Emit(t)
    <2>1. /\ UNCHANGED <<held, active>> /\ pc[t] \in {"logStarted", "emit"}
          /\ \/ pc'[t] \in {"read", "emit", "run", "compute"}
             \/ pc'[t] = "readBack" /\ idx'[t] = 1
      <3>1. CASE LogStarted(t)
        <4>1. NextItem(t, "read", "run") /\ UNCHANGED <<held, active>> /\ pc[t] = "logStarted"
          BY <3>1 DEF LogStarted
        <4> QED BY <1>0, <4>1, NextItemMoves
      <3>2. CASE Emit(t)
        <4>1. NextItem(t, "emit", AfterEmit(t)) /\ UNCHANGED <<held, active>> /\ pc[t] = "emit"
          BY <3>2 DEF Emit
        <4>2. AfterEmit(t) \in {"compute", "readBack"}
          BY DEF AfterEmit
        <4> QED BY <1>0, <4>1, <4>2, NextItemMoves
      <3> QED BY <1>6, <3>1, <3>2
    <2>2. \A k \in DOMAIN active[t] : k >= 1
      BY <1>0
    <2>3. \A j : Works(t, j) => Works(t, j)'
      BY <2>1, <2>2 DEF Works, Walking
    <2> QED BY <1>3, <2>1, <2>3 DEF Walking
  <1>7. CASE LogFinal(t)
    <2>1. /\ UNCHANGED <<held, active>> /\ pc[t] = "logFinal"
          /\ \/ idx[t] < Len(active[t]) /\ pc'[t] = "readBack" /\ idx'[t] = idx[t] + 1
             \/ ~(idx[t] < Len(active[t])) /\ pc'[t] = "release"
      <3>1. NextItem(t, "readBack", "release") /\ UNCHANGED <<held, active>> /\ pc[t] = "logFinal"
        BY <1>7 DEF LogFinal
      <3> QED BY <1>0, <3>1, NextItemMoves
    <2>2. ASSUME NEW j, Works(t, j) PROVE Works(t, j)'
      <3>1. PICK k \in DOMAIN active[t] : active[t][k] = j /\ k > idx[t]
        BY <2>1, <2>2 DEF Works
      <3>2. idx[t] < Len(active[t]) /\ k >= idx[t] + 1
        BY <1>0, <3>1
      <3> QED BY <2>1, <3>1, <3>2 DEF Works, Walking
    <2> QED BY <1>3, <2>1, <2>2 DEF Walking
  <1> QED BY <1>1, <1>2, <1>4, <1>5, <1>6, <1>7, ExecuteStep(t) DEF ExecuteStep

\* A batch is collected around its first item.
LEMMA CollectMatches ==
  ASSUME ThreadTypeOK, BatchesMatch, NEW w \in Worker, CollectStep(w)
  PROVE  BatchesMatch'
  <1>0. w \in Thread /\ held[w] \in Seq(Job)
    BY DEF ThreadTypeOK, Thread
  <1>1. SUFFICES ASSUME pc'[w] \in {"collect", "requeue", "putBack", "dispatch"},
                        NEW k \in DOMAIN held'[w]
                 PROVE  BatchSignature(Request[held'[w][k]]) = BatchSignature(Request[held'[w][1]])
    BY <1>0, CollectIsLocal DEF BatchesMatch
  <1>2. CASE Take(w)
    <2>1. held'[w] = <<Head(queue)>>
      BY <1>0, <1>2 DEF Take, ThreadTypeOK
    <2> QED BY <2>1
  <1>3. CASE Collect(w)
    <2>1. pc[w] = "collect"
      BY <1>3 DEF Collect
    <2>2. CASE held'[w] = held[w]
      BY <1>0, <2>1, <2>2 DEF BatchesMatch
    <2>3. CASE held'[w] # held[w]
      <3>1. /\ held'[w] = Append(held[w], Head(queue))
            /\ BatchSignature(Request[held[w][1]]) = BatchSignature(Request[Head(queue)])
        BY <1>0, <1>3, <2>3 DEF Collect, Matches, ThreadTypeOK
      <3>2. CASE k = Len(held[w]) + 1
        BY <1>0, <3>1, <3>2
      <3>3. CASE k # Len(held[w]) + 1
        <4>1. k \in DOMAIN held[w] /\ held'[w][k] = held[w][k] /\ held'[w][1] = held[w][1]
          BY <1>0, <3>1, <3>3
        <4> QED BY <1>0, <2>1, <4>1 DEF BatchesMatch
      <3> QED BY <3>2, <3>3
    <2> QED BY <2>2, <2>3
  <1>4. CASE CollectEnds(w) \/ RequeueCounts(w) \/ Requeue(w) \/ RequeueEnds(w)
    <2>1. held' = held /\ pc[w] \in {"collect", "requeue", "putBack"}
      BY <1>4 DEF CollectEnds, RequeueCounts, Requeue, RequeueEnds
    <2> QED BY <1>0, <2>1 DEF BatchesMatch
  <1>5. CASE Dispatch(w) \/ Filter(w)
    <2>1. pc'[w] \in {"read", "filter", "dead", "release"}
      BY <1>0, <1>5 DEF Dispatch, Filter, GoTo, ThreadTypeOK
    <2> QED BY <1>1, <2>1
  <1> QED BY <1>2, <1>3, <1>4, <1>5, CollectStep(w) DEF CollectStep

\* What is given back stays settled, and what is given back anew is settled, or
\* was taken down with its worker.
LEMMA ReleasedRemain ==
  ASSUME ReleasedInv, [Next]_vars
  PROVE  ReleasedIsSettled'
  <1>0. /\ ItemInv /\ ThreadTypeOK /\ ExclusiveItems /\ PlacedIsSubmitted /\ ActiveIsHeld
        /\ RunIsRemembered /\ ReleasedIsSettled /\ StoreTypeOK /\ runs \in [Job -> Nat]
        /\ released \subseteq Job
    BY DEF ReleasedInv, ItemInv, TypeInv, TypeOK
  <1>1. ASSUME NEW j \in released
        PROVE  \/ jobs'[j].state \in TerminalState
               \/ jobs'[j].state = "queued" /\ runs'[j] = 0 /\ ~Batchable(Request[j])
    <2>1. j \in Entered /\ j \in Job /\ \A t \in Thread : j \notin Items(held[t])
      BY <1>0 DEF PlacedIsSubmitted, ExclusiveItems, Holding
    <2>2. jobs'[j].state = jobs[j].state \/ jobs'[j].state \in TerminalState
      BY <1>0, <2>1, StateGoesOn, SavedIsHeld
    <2>3. runs'[j] = runs[j]
      <3>1. CASE \E t \in Thread : Run(t)
        <4>1. PICK t \in Thread : Run(t)
          BY <3>1
        <4>2. j \notin Items(active[t])
          BY <1>0, <2>1, <4>1 DEF Run, ActiveIsHeld, Walking
        <4> QED BY <2>1, <4>1, <4>2 DEF Run
      <3>2. CASE ~\E t \in Thread : Run(t)
        BY <3>2
        DEF Next, vars, SubmitStep, CreateJob, LogEnqueued, Put, RunSync, CollectStep, Take,
            Collect, CollectEnds, RequeueCounts, Requeue, RequeueEnds, Dispatch, Filter,
            ExecuteStep, ReadJob, SaveRunning, LogStarted, BuildFails, Emit, Compute, ReadBack,
            SaveFinal, LogFinal, Release, CancelStep, CancelReads, CancelSaves, CancelLogs,
            CancelReturns
      <3> QED BY <3>1, <3>2
    <2> QED BY <1>0, <2>2, <2>3 DEF ReleasedIsSettled
  <1>2. ASSUME NEW t \in Thread, Release(t) PROVE ReleasedIsSettled'
    <2>1. released' = released \cup Items(held[t]) /\ pc[t] = "release" /\ jobs' = jobs
      BY <1>2 DEF Release, storeVars
    <2>2. \A j \in Items(held[t]) : jobs[j].state \in TerminalState
      BY <2>1 DEF ReleasedInv, Handling, Works, Walking
    <2> QED BY <1>1, <2>1, <2>2 DEF ReleasedIsSettled
  <1>3. ASSUME NEW w \in Worker, Dispatch(w) PROVE ReleasedIsSettled'
    <2>0. w \in Thread /\ pc[w] = "dispatch" /\ UNCHANGED <<jobs, runs>> /\ held[w] \in Seq(Job)
      BY <1>0, <1>3 DEF Dispatch, Thread, ThreadTypeOK, storeVars
    <2>1. CASE released' = released
      BY <1>1, <2>1 DEF ReleasedIsSettled
    <2>2. CASE released' # released
      <3>1. /\ released' = released \cup Items(held[w])
            /\ CombineRaises({Request[j] : j \in Items(held[w])})
        BY <1>3, <2>2 DEF Dispatch
      <3>2. PICK k \in DOMAIN held[w] : Request[held[w][k]].prompt = "missing"
        BY <3>1 DEF CombineRaises, Items
      <3>3. BatchSignature(Request[held[w][1]]) = NoSignature
        BY <2>0, <3>2 DEF ReleasedInv, BatchesMatch, BatchSignature, Batchable
      <3>4. ASSUME NEW j \in Items(held[w])
            PROVE  ~Batchable(Request[j])
        <4>1. PICK i \in DOMAIN held[w] : j = held[w][i]
          BY <3>4 DEF Items
        <4>2. BatchSignature(Request[j]) = NoSignature
          BY <2>0, <3>3, <4>1 DEF ReleasedInv, BatchesMatch
        <4>3. Request[j].shape \in Shape
          BY <2>0, <4>1, EngineAssumption DEF RequestType
        <4> QED BY <4>2, <4>3, BatcherAssumption DEF BatchSignature
      <3>5. ASSUME NEW j \in Items(held[w])
            PROVE  jobs[j].state \in TerminalState \cup {"queued"} /\ runs[j] = 0
        <4>0. j \in Job
          BY <2>0, <3>5 DEF Items
        <4>1. \A t \in Thread : j \in Items(held[t]) => t = w
          BY <1>0, <2>0, <3>5 DEF ExclusiveItems, Holding
        <4>2. j \notin released
          BY <1>0, <2>0, <3>5 DEF ExclusiveItems, Holding
        <4>3. runs[j] = 0
          BY <1>0, <2>0, <4>0, <4>1, <4>2 DEF RunIsRemembered, Ran
        <4>4. ASSUME jobs[j].state = "running" PROVE FALSE
          <5>1. PICK t \in Thread : Works(t, j)
            BY <4>0, <4>4 DEF ReleasedInv, OwnerInv, RunningInv
          <5>2. j \in Items(held[t]) /\ pc[t] \in Walking
            BY <1>0, <5>1 DEF Works, ActiveIsHeld, Items
          <5> QED BY <2>0, <4>1, <5>2 DEF Walking
        <4>5. jobs[j].state \in JobState
          BY <1>0, <4>0 DEF StoreTypeOK, JobRecord
        <4> QED BY <4>3, <4>4, <4>5 DEF JobState, TerminalState
      <3> QED BY <1>1, <2>0, <3>1, <3>4, <3>5 DEF ReleasedIsSettled
    <2> QED BY <2>1, <2>2
  <1>4. CASE released' = released
    BY <1>1, <1>4 DEF ReleasedIsSettled
  <1>5. \/ released' = released
        \/ \E t \in Thread : Release(t)
        \/ \E w \in Worker : Dispatch(w)
    BY DEF Next, vars, SubmitStep, CreateJob, LogEnqueued, Put, RunSync, CollectStep, Take,
           Collect, CollectEnds, RequeueCounts, Requeue, RequeueEnds, Filter, ExecuteStep,
           ReadJob, SaveRunning, LogStarted, Run, BuildFails, Emit, Compute, ReadBack,
           SaveFinal, LogFinal, CancelStep, CancelReads, CancelSaves, CancelLogs, CancelReturns
  <1> QED BY <1>2, <1>3, <1>4, <1>5

\* Every step keeps the invariant.
LEMMA NextReleased == ReleasedInv /\ [Next]_vars => ReleasedInv'
  <1> SUFFICES ASSUME ReleasedInv, [Next]_vars PROVE ReleasedInv'
    OBVIOUS
  <1>0. /\ ItemInv /\ OwnerInv /\ BatchesMatch /\ StartsAtFirst /\ ThreadTypeOK
        /\ \A t \in Thread : Handling(t)
    BY DEF ReleasedInv, OwnerInv, ItemInv, TypeInv, TypeOK
  <1>1. ItemInv' /\ OwnerInv' /\ ReleasedIsSettled'
    BY <1>0, NextItemInv, NextOwner, ReleasedRemain
  <1>2. ASSUME UNCHANGED <<pc, idx, active, held>> PROVE ReleasedInv'
    <2>1. BatchesMatch'
      BY <1>0, <1>2 DEF BatchesMatch
    <2>2. \A t \in Thread : Handling(t)'
      BY <1>0, <1>2, OthersHandle
    <2> QED BY <1>1, <2>1, <2>2 DEF ReleasedInv
  <1>3. ASSUME NEW j \in Job, SubmitStep(j) PROVE ReleasedInv'
    BY <1>2, <1>3 DEF SubmitStep, CreateJob, LogEnqueued, Put, threadVars
  <1>4. ASSUME NEW t \in SyncCaller, NEW j \in Job, RunSync(t, j) PROVE ReleasedInv'
    <2>1. /\ t \in Thread /\ pc'[t] = "read" /\ held'[t] = <<j>> /\ active'[t] = <<j>>
          /\ \A u \in Thread \ {t} : /\ pc'[u] = pc[u] /\ idx'[u] = idx[u]
                                     /\ active'[u] = active[u] /\ held'[u] = held[u]
      BY <1>0, <1>4 DEF RunSync, Thread, ThreadTypeOK
    <2>2. \A i \in Items(held'[t]) : Works(t, i)'
      BY <2>1 DEF Works, Items, Walking
    <2>3. Handling(t)'
      BY <2>1, <2>2 DEF Handling
    <2>4. \A u \in Thread \ {t} : Handling(u)'
      BY <1>0, <2>1, OthersHandle
    <2>5. BatchesMatch'
      BY <1>0, <2>1 DEF BatchesMatch
    <2> QED BY <1>1, <2>3, <2>4, <2>5 DEF ReleasedInv
  <1>5. ASSUME NEW w \in Worker, CollectStep(w) PROVE ReleasedInv'
    <2>1. w \in Thread
      BY DEF Thread
    <2>2. \A u \in Thread \ {w} : Handling(u)'
      BY <1>0, <1>5, CollectIsLocal, OthersHandle
    <2>3. Handling(w)' /\ BatchesMatch'
      BY <1>0, <1>5, <2>1, CollectHandles, CollectMatches
    <2> QED BY <1>1, <2>2, <2>3 DEF ReleasedInv
  <1>6. ASSUME NEW t \in Thread, ExecuteStep(t) PROVE ReleasedInv'
    <2>1. \A u \in Thread \ {t} : /\ pc'[u] = pc[u] /\ idx'[u] = idx[u]
                                  /\ active'[u] = active[u] /\ held'[u] = held[u]
      BY <1>0, <1>6, ExecuteIsLocal
    <2>2. \A u \in Thread \ {t} : Handling(u)'
      BY <1>0, <2>1, OthersHandle
    <2>3. Handling(t)'
      BY <1>0, <1>6, ExecuteHandles
    <2>4. pc'[t] \notin {"collect", "requeue", "putBack", "dispatch"}
      <3>1. CASE LogStarted(t) \/ Emit(t) \/ LogFinal(t)
        BY <1>0, <3>1 DEF LogStarted, Emit, AfterEmit, LogFinal, NextItem, GoTo, ThreadTypeOK
      <3>2. CASE ReadJob(t) \/ SaveRunning(t) \/ Run(t) \/ BuildFails(t) \/ Compute(t)
                 \/ ReadBack(t) \/ SaveFinal(t) \/ Release(t)
        BY <1>0, <3>2
        DEF ReadJob, SaveRunning, Run, BuildFails, Compute, ReadBack, SaveFinal, Release, GoTo,
            ThreadTypeOK
      <3> QED BY <1>6, <3>1, <3>2 DEF ExecuteStep
    <2>5. BatchesMatch'
      BY <1>0, <2>1, <2>4 DEF BatchesMatch
    <2> QED BY <1>1, <2>2, <2>3, <2>5 DEF ReleasedInv
  <1>7. ASSUME NEW c \in Canceller, CancelStep(c) \/ \E j \in Job : CancelReads(c, j)
        PROVE  ReleasedInv'
    BY <1>2, <1>7
    DEF CancelStep, CancelReads, CancelSaves, CancelLogs, CancelReturns, threadVars
  <1>8. CASE UNCHANGED vars
    BY <1>2, <1>8 DEF vars, threadVars
  <1> QED BY <1>3, <1>4, <1>5, <1>6, <1>7, <1>8 DEF Next

\* An item that was given back has a settled job, however it was merged, set
\* aside, filtered or cancelled, with the one exception of a request the
\* batcher has no signature for, taken down with its worker.
THEOREM GivenBackIsSettled == Spec => []ReleasedIsSettled
  <1>1. ReleasedInv => ReleasedIsSettled
    BY DEF ReleasedInv
  <1> QED BY <1>1, InitReleased, NextReleased, PTL DEF Spec
===============================================================================
