--------------------------- MODULE JobEngineProofs ---------------------------
(***************************************************************************)
(* Proofs about JobEngine for any jobs, threads, requests and batch sizes. *)
(*                                                                         *)
(* TypeOK is not inductive: a thread that reads active[t][idx[t]] needs    *)
(* the index in range.  TypeInv adds that.                                 *)
(*                                                                         *)
(* An item is in one place only (ExclusiveItems), hence no job is run      *)
(* twice (AtMostOneRun).  Neither is inductive.  A new item must not be in *)
(* a place already, which is PlacedIsSubmitted; a run must be of items the *)
(* thread holds, which is ActiveIsHeld; and a job that ran must still be   *)
(* with the thread that ran it or be given back, which is RunIsRemembered. *)
(*                                                                         *)
(* The dispatch layer loses nothing: every item that was submitted and not *)
(* given back is somewhere, the queue's counter counts them (NoItemLost),  *)
(* and the queue, the batches and the callers are a work pool              *)
(* (ImplementsWorkPool).  Nothing is lost because a thread that starts     *)
(* anew holds nothing (HoldsInTurn), and the counter is exact because      *)
(* workers hold only what went through the queue (PlacedByKind).  The      *)
(* place of an item in the work pool is well defined because it is in one  *)
(* place.                                                                  *)
(***************************************************************************)
EXTENDS JobEngine, TLAPS, FiniteSetTheorems

-------------------------------------------------------------------------------
(* Sequences and the set of their items                                    *)

\* The empty sequence has no items.
LEMMA ItemsOfEmpty == Items(<< >>) = {} /\ NoDuplicates(<< >>)
  BY DEF Items, NoDuplicates

\* A sequence of one has one item, once.
LEMMA ItemsOfSingleton == \A x : Items(<<x>>) = {x} /\ NoDuplicates(<<x>>)
  BY DEF Items, NoDuplicates

\* The items of a sequence over S are in S.
LEMMA ItemsOfSeq ==
  ASSUME NEW S, NEW s \in Seq(S)
  PROVE  Items(s) \subseteq S
  BY DEF Items

\* Append adds one item, and no duplicate if it is a new one.
LEMMA ItemsOfAppend ==
  ASSUME NEW S, NEW s \in Seq(S), NEW x \in S
  PROVE  /\ Items(Append(s, x)) = Items(s) \cup {x}
         /\ NoDuplicates(s) /\ x \notin Items(s) => NoDuplicates(Append(s, x))
  <1>1. /\ DOMAIN s = 1 .. Len(s) /\ Len(s) \in Nat
        /\ DOMAIN Append(s, x) = 1 .. (Len(s) + 1)
        /\ \A k \in 1 .. Len(s) : Append(s, x)[k] = s[k]
        /\ Append(s, x)[Len(s) + 1] = x
    OBVIOUS
  <1>2. DOMAIN Append(s, x) = DOMAIN s \cup {Len(s) + 1}
    BY <1>1
  <1>3. Items(Append(s, x)) = Items(s) \cup {x}
    BY <1>1, <1>2 DEF Items
  <1>4. ASSUME NoDuplicates(s), x \notin Items(s) PROVE NoDuplicates(Append(s, x))
    BY <1>1, <1>2, <1>4 DEF Items, NoDuplicates
  <1> QED BY <1>3, <1>4

\* Head and Tail split the items of a sequence.
LEMMA ItemsOfTail ==
  ASSUME NEW S, NEW s \in Seq(S), s # << >>
  PROVE  /\ Head(s) \in S /\ Tail(s) \in Seq(S)
         /\ Items(s) = Items(Tail(s)) \cup {Head(s)}
         /\ NoDuplicates(s) => NoDuplicates(Tail(s)) /\ Head(s) \notin Items(Tail(s))
  <1>1. /\ Head(s) = s[1] /\ Head(s) \in S /\ Tail(s) \in Seq(S)
        /\ Len(s) \in Nat \ {0} /\ DOMAIN s = 1 .. Len(s)
        /\ DOMAIN Tail(s) = 1 .. (Len(s) - 1)
        /\ \A k \in 1 .. (Len(s) - 1) : Tail(s)[k] = s[k + 1]
    OBVIOUS
  <1>2. Items(s) = Items(Tail(s)) \cup {Head(s)}
    <2>1. \A k \in 2 .. Len(s) : k - 1 \in DOMAIN Tail(s) /\ Tail(s)[k - 1] = s[k]
      BY <1>1
    <2>2. \A k \in DOMAIN s : k = 1 \/ k \in 2 .. Len(s)
      BY <1>1
    <2>3. \A k \in DOMAIN Tail(s) : k + 1 \in DOMAIN s
      BY <1>1
    <2>4. ASSUME NEW k \in DOMAIN s PROVE s[k] \in Items(Tail(s)) \cup {Head(s)}
      BY <1>1, <2>1, <2>2 DEF Items
    <2>5. ASSUME NEW k \in DOMAIN Tail(s) PROVE Tail(s)[k] \in Items(s)
      BY <1>1, <2>3 DEF Items
    <2>6. Head(s) \in Items(s)
      BY <1>1 DEF Items
    <2> QED BY <2>4, <2>5, <2>6 DEF Items
  <1>3. ASSUME NoDuplicates(s)
        PROVE  NoDuplicates(Tail(s)) /\ Head(s) \notin Items(Tail(s))
    <2>1. \A k \in DOMAIN Tail(s) : k + 1 \in DOMAIN s /\ k + 1 # 1 /\ 1 \in DOMAIN s
      BY <1>1
    <2> QED BY <1>1, <1>3, <2>1 DEF Items, NoDuplicates
  <1> QED BY <1>1, <1>2, <1>3
-------------------------------------------------------------------------------
(* Types                                                                   *)

IndexInRange ==
  \A t \in Thread : pc[t] \in Walking => idx[t] \in 1 .. Len(active[t])

TypeInv == TypeOK /\ IndexInRange

\* The dataclass defaults of JobRecord are a record.
LEMMA NewRecordType == NewRecord \in JobRecord
  BY DEF NewRecord, JobRecord, JobState

\* store.create keeps the store well formed.
LEMMA CreateType ==
  ASSUME StoreTypeOK, NEW j \in Job, Create(j)
  PROVE  StoreTypeOK'
  BY NewRecordType DEF StoreTypeOK, Create

\* store.save keeps the store well formed, given a record.
LEMMA SaveType ==
  ASSUME StoreTypeOK, NEW j \in Job, NEW r \in JobRecord, Save(j, r)
  PROVE  StoreTypeOK'
  BY DEF StoreTypeOK, Save

\* store.append_event keeps the store well formed.
LEMMA AppendEventType ==
  ASSUME StoreTypeOK, NEW j \in Job, NEW e \in EventKind, AppendEvent(j, e)
  PROVE  StoreTypeOK'
  <1>1. jobs' \in [Job -> JobRecord]
    <2>1. jobs[j] \in JobRecord /\ Append(jobs[j].events, e) \in Seq(EventKind)
      BY DEF StoreTypeOK, JobRecord
    <2>2. [jobs[j] EXCEPT !.events = Append(@, e)] \in JobRecord
      BY <2>1 DEF JobRecord
    <2> QED BY <2>2 DEF StoreTypeOK, AppendEvent
  <1>2. channels' \in [Client -> Seq(EventKind)]
    BY DEF StoreTypeOK, AppendEvent
  <1>3. log' \in [Job -> Seq(EventKind)]
    BY DEF StoreTypeOK, AppendEvent
  <1> QED BY <1>1, <1>2, <1>3 DEF StoreTypeOK, AppendEvent

\* The item a walking thread is at is a job.
LEMMA CurrentType ==
  ASSUME TypeInv, NEW t \in Thread, pc[t] \in Walking
  PROVE  Current(t) \in Job
  BY DEF TypeInv, TypeOK, ThreadTypeOK, IndexInRange, Current

\* What a step leaves alone keeps its type.
LEMMA TypeUnchanged ==
  /\ StoreTypeOK /\ UNCHANGED storeVars => StoreTypeOK'
  /\ QueueTypeOK /\ UNCHANGED queueVars => QueueTypeOK'
  /\ ThreadTypeOK /\ UNCHANGED threadVars => ThreadTypeOK'
  /\ CancelTypeOK /\ UNCHANGED cancelVars => CancelTypeOK'
  BY DEF StoreTypeOK, QueueTypeOK, ThreadTypeOK, CancelTypeOK,
         storeVars, queueVars, threadVars, cancelVars

\* The inductive type invariant holds initially.
LEMMA InitTypeInv == Init => TypeInv
  BY NewRecordType DEF Init, StoreInit, TypeInv, TypeOK, StoreTypeOK, QueueTypeOK,
     ThreadTypeOK, CancelTypeOK, IndexInRange, Walking, EventKind

\* A step of one thread leaves the indices of the others alone.
LEMMA IndexOfOthers ==
  ASSUME IndexInRange, NEW t \in Thread,
         \A u \in Thread \ {t} : /\ pc'[u] = pc[u] /\ idx'[u] = idx[u]
                                 /\ active'[u] = active[u],
         pc'[t] \in Walking => idx'[t] \in 1 .. Len(active'[t])
  PROVE  IndexInRange'
  <1> SUFFICES ASSUME NEW u \in Thread, pc'[u] \in Walking
               PROVE  idx'[u] \in 1 .. Len(active'[u])
    BY DEF IndexInRange, Walking
  <1>1. CASE u = t
    BY <1>1
  <1>2. CASE u # t
    BY <1>2 DEF IndexInRange
  <1> QED BY <1>1, <1>2

\* The counter of a walk stays in range, and the walk goes where it says.
LEMMA NextItemInRange ==
  ASSUME ThreadTypeOK, IndexInRange, NEW t \in Thread, pc[t] \in Walking,
         NEW again, NEW after, NextItem(t, again, after), UNCHANGED active
  PROVE  /\ idx' \in [Thread -> Nat \ {0}]
         /\ pc' = [pc EXCEPT ![t] = again] \/ pc' = [pc EXCEPT ![t] = after]
         /\ IndexInRange'
  <1>1. idx[t] \in 1 .. Len(active[t]) /\ Len(active[t]) \in Nat
    BY DEF IndexInRange, ThreadTypeOK
  <1>2. /\ idx' \in [Thread -> Nat \ {0}]
        /\ pc' = [pc EXCEPT ![t] = again] \/ pc' = [pc EXCEPT ![t] = after]
        /\ \A u \in Thread \ {t} : pc'[u] = pc[u] /\ idx'[u] = idx[u]
        /\ idx'[t] \in 1 .. Len(active[t])
    <2>1. CASE idx[t] < Len(active[t])
      <3>1. pc' = [pc EXCEPT ![t] = again] /\ idx' = [idx EXCEPT ![t] = idx[t] + 1]
        BY <2>1 DEF NextItem, GoTo
      <3> QED BY <1>1, <2>1, <3>1 DEF ThreadTypeOK
    <2>2. CASE ~(idx[t] < Len(active[t]))
      <3>1. pc' = [pc EXCEPT ![t] = after] /\ idx' = [idx EXCEPT ![t] = 1]
        BY <2>2 DEF NextItem, GoTo
      <3> QED BY <1>1, <3>1 DEF ThreadTypeOK
    <2> QED BY <2>1, <2>2
  <1> QED BY <1>2, IndexOfOthers

\* submit and run_sync
LEMMA SubmitTypeInv ==
  ASSUME TypeInv, NEW j \in Job,
         SubmitStep(j) \/ \E t \in SyncCaller : RunSync(t, j)
  PROVE  TypeInv'
  <1>0. StoreTypeOK /\ QueueTypeOK /\ ThreadTypeOK /\ CancelTypeOK
    BY DEF TypeInv, TypeOK
  <1>1. CASE CreateJob(j)
    <2>1. StoreTypeOK'
      BY <1>0, <1>1, CreateType DEF CreateJob
    <2>2. QueueTypeOK' /\ ThreadTypeOK' /\ CancelTypeOK'
      BY <1>0, <1>1, TypeUnchanged DEF CreateJob
    <2> QED BY <1>1, <2>1, <2>2 DEF TypeInv, TypeOK, IndexInRange, CreateJob, threadVars
  <1>2. CASE LogEnqueued(j)
    <2>1. StoreTypeOK'
      BY <1>0, <1>2, AppendEventType DEF LogEnqueued, EventKind
    <2>2. QueueTypeOK' /\ ThreadTypeOK' /\ CancelTypeOK'
      BY <1>0, <1>2, TypeUnchanged DEF LogEnqueued
    <2> QED BY <1>2, <2>1, <2>2 DEF TypeInv, TypeOK, IndexInRange, LogEnqueued, threadVars
  <1>3. CASE Put(j)
    <2>1. StoreTypeOK' /\ ThreadTypeOK' /\ CancelTypeOK'
      BY <1>0, <1>3, TypeUnchanged DEF Put
    <2>2. QueueTypeOK'
      BY <1>0, <1>3 DEF QueueTypeOK, Put
    <2> QED BY <1>3, <2>1, <2>2 DEF TypeInv, TypeOK, IndexInRange, Put, threadVars
  <1>4. ASSUME NEW t \in SyncCaller, RunSync(t, j) PROVE TypeInv'
    <2>1. StoreTypeOK' /\ QueueTypeOK' /\ CancelTypeOK'
      BY <1>0, <1>4, TypeUnchanged DEF RunSync
    <2>0. t \in Thread
      BY DEF Thread
    <2>2. ThreadTypeOK'
      BY <1>0, <1>4, <2>0 DEF ThreadTypeOK, RunSync
    <2>3. IndexInRange'
      BY <1>0, <1>4, <2>0, IndexOfOthers DEF TypeInv, ThreadTypeOK, RunSync
    <2> QED BY <1>4, <2>1, <2>2, <2>3 DEF TypeInv, TypeOK, RunSync
  <1> QED BY <1>1, <1>2, <1>3, <1>4 DEF SubmitStep

\* Worker.run, collect_matching and the filter of _execute_batch
LEMMA CollectTypeInv ==
  ASSUME TypeInv, NEW w \in Worker, CollectStep(w)
  PROVE  TypeInv'
  <1>0. /\ StoreTypeOK /\ QueueTypeOK /\ ThreadTypeOK /\ CancelTypeOK /\ IndexInRange
        /\ w \in Thread
    BY DEF TypeInv, TypeOK, Thread
  <1>1. StoreTypeOK' /\ CancelTypeOK'
    BY <1>0, TypeUnchanged, CollectStep(w)
    DEF CollectStep, Take, Collect, CollectEnds, RequeueCounts, Requeue, RequeueEnds, Dispatch, Filter
  <1>2. UNCHANGED <<stage, runs>>
    BY CollectStep(w)
    DEF CollectStep, Take, Collect, CollectEnds, RequeueCounts, Requeue, RequeueEnds, Dispatch, Filter
  <1>3. released' \subseteq Job
    BY <1>0, CollectStep(w)
    DEF CollectStep, Take, Collect, CollectEnds, RequeueCounts, Requeue, RequeueEnds, Dispatch, Filter,
        TypeInv, TypeOK, ThreadTypeOK, Items
  <1>4. /\ queue # << >> => Head(queue) \in Job /\ Tail(queue) \in Seq(Job)
        /\ deferred[w] # << >> => Head(deferred[w]) \in Job /\ Tail(deferred[w]) \in Seq(Job)
    BY <1>0 DEF QueueTypeOK, ThreadTypeOK
  <1>5. QueueTypeOK'
    <2>1. CASE Take(w) \/ Collect(w)
      BY <1>0, <1>4, <2>1 DEF Take, Collect, QueueTypeOK
    <2>2. CASE RequeueCounts(w)
      BY <1>0, <2>2 DEF RequeueCounts, QueueTypeOK
    <2>5. CASE Requeue(w)
      BY <1>0, <1>4, <2>5 DEF Requeue, QueueTypeOK
    <2>3. CASE CollectEnds(w) \/ RequeueEnds(w) \/ Filter(w)
      BY <1>0, <2>3, TypeUnchanged DEF CollectEnds, RequeueEnds, Filter
    <2>4. CASE Dispatch(w)
      BY <1>0, <2>4 DEF Dispatch, TasksDone, QueueTypeOK, ThreadTypeOK
    <2> QED BY CollectStep(w), <2>1, <2>2, <2>3, <2>4, <2>5 DEF CollectStep
  <1>6. ThreadTypeOK' /\ IndexInRange'
    <2>1. CASE Take(w)
      <3>1. ThreadTypeOK'
        BY <1>0, <1>4, <2>1 DEF Take, GoTo, ThreadTypeOK
      <3>2. IndexInRange'
        BY <1>0, <2>1, IndexOfOthers DEF Take, GoTo, Walking, ThreadTypeOK
      <3> QED BY <3>1, <3>2
    <2>2. CASE Collect(w)
      <3>1. ThreadTypeOK'
        <4>1. /\ UNCHANGED <<pc, active, idx, copy, event, outcome>>
              /\ \/ /\ held' = [held EXCEPT ![w] = Append(held[w], Head(queue))]
                    /\ deferred' = deferred
                 \/ /\ deferred' = [deferred EXCEPT ![w] = Append(deferred[w], Head(queue))]
                    /\ held' = held
          BY <2>2 DEF Collect
        <4>2. queue # << >> => /\ Append(held[w], Head(queue)) \in Seq(Job)
                               /\ Append(deferred[w], Head(queue)) \in Seq(Job)
          BY <1>0, <1>4 DEF ThreadTypeOK
        <4> QED BY <1>0, <2>2, <4>1, <4>2 DEF ThreadTypeOK, Collect
      <3>2. IndexInRange'
        BY <1>0, <2>2, IndexOfOthers DEF Collect, Walking
      <3> QED BY <3>1, <3>2
    <2>3. CASE CollectEnds(w)
      BY <1>0, <2>3, IndexOfOthers DEF CollectEnds, GoTo, Walking, ThreadTypeOK
    <2>4. CASE Requeue(w)
      <3>1. ThreadTypeOK'
        BY <1>0, <1>4, <2>4 DEF Requeue, GoTo, ThreadTypeOK
      <3>2. IndexInRange'
        BY <1>0, <2>4, IndexOfOthers DEF Requeue, GoTo, Walking, ThreadTypeOK
      <3> QED BY <3>1, <3>2
    <2>8. CASE RequeueCounts(w)
      BY <1>0, <2>8, IndexOfOthers DEF RequeueCounts, GoTo, Walking, ThreadTypeOK
    <2>5. CASE RequeueEnds(w)
      BY <1>0, <2>5, IndexOfOthers DEF RequeueEnds, GoTo, Walking, ThreadTypeOK
    <2>6. CASE Dispatch(w)
      <3>0. /\ UNCHANGED <<deferred, copy, event, outcome>>
            /\ idx' = [idx EXCEPT ![w] = 1]
            /\ held' = held \/ held' = [held EXCEPT ![w] = << >>]
            /\ \/ /\ Len(held[w]) = 1 /\ active' = [active EXCEPT ![w] = held[w]]
                  /\ pc' = [pc EXCEPT ![w] = "read"]
               \/ /\ active' = [active EXCEPT ![w] = << >>]
                  /\ pc' = [pc EXCEPT ![w] = "dead"] \/ pc' = [pc EXCEPT ![w] = "filter"]
        BY <2>6 DEF Dispatch, GoTo
      <3>a. held' \in [Thread -> Seq(Job)]
        <4>1. held \in [Thread -> Seq(Job)] /\ << >> \in Seq(Job)
          BY <1>0 DEF ThreadTypeOK
        <4>2. [held EXCEPT ![w] = << >>] \in [Thread -> Seq(Job)]
          BY <1>0, <4>1
        <4> QED BY <3>0, <4>1, <4>2
      <3>b. idx' \in [Thread -> Nat \ {0}]
        BY <1>0, <3>0 DEF ThreadTypeOK
      <3>1. CASE /\ Len(held[w]) = 1 /\ active' = [active EXCEPT ![w] = held[w]]
                 /\ pc' = [pc EXCEPT ![w] = "read"]
        <4>1. ThreadTypeOK'
          BY <1>0, <3>0, <3>a, <3>b, <3>1 DEF ThreadTypeOK
        <4>2. idx'[w] \in 1 .. Len(active'[w])
          <5>1. idx'[w] = 1 /\ active'[w] = held[w]
            BY <1>0, <3>0, <3>1 DEF ThreadTypeOK
          <5>2. Len(active'[w]) = 1
            BY <3>1, <5>1
          <5>3. 1 \in 1 .. 1
            OBVIOUS
          <5> QED BY <5>1, <5>2, <5>3
        <4> QED BY <1>0, <3>0, <3>1, <4>1, <4>2, IndexOfOthers DEF ThreadTypeOK
      <3>2. ASSUME NEW label \in {"dead", "filter"},
                   active' = [active EXCEPT ![w] = << >>], pc' = [pc EXCEPT ![w] = label]
            PROVE  ThreadTypeOK' /\ IndexInRange'
        <4>1. ThreadTypeOK'
          BY <1>0, <3>0, <3>a, <3>b, <3>2 DEF ThreadTypeOK
        <4>2. pc'[w] \notin Walking
          BY <1>0, <3>2 DEF ThreadTypeOK, Walking
        <4> QED BY <1>0, <3>0, <3>2, <4>1, <4>2, IndexOfOthers DEF ThreadTypeOK
      <3> QED BY <3>0, <3>1, <3>2
    <2>7. CASE Filter(w)
      <3>0. idx[w] <= Len(held[w]) => held[w][idx[w]] \in Job
        BY <1>0 DEF ThreadTypeOK
      <3>1. CASE idx[w] <= Len(held[w])
        <4>1. /\ UNCHANGED <<pc, held, deferred, copy, event, outcome>>
              /\ idx' = [idx EXCEPT ![w] = idx[w] + 1]
              /\ \/ active' = active
                 \/ active' = [active EXCEPT ![w] = Append(active[w], held[w][idx[w]])]
          BY <2>7, <3>1 DEF Filter
        <4>2. ThreadTypeOK'
          <5>1. idx' \in [Thread -> Nat \ {0}]
            BY <1>0, <4>1 DEF ThreadTypeOK
          <5>2. /\ active \in [Thread -> Seq(Job)]
                /\ Append(active[w], held[w][idx[w]]) \in Seq(Job)
            BY <1>0, <3>0, <3>1 DEF ThreadTypeOK
          <5>3. [active EXCEPT ![w] = Append(active[w], held[w][idx[w]])]
                   \in [Thread -> Seq(Job)]
            BY <1>0, <5>2
          <5>4. active' \in [Thread -> Seq(Job)]
            BY <4>1, <5>2, <5>3
          <5> QED BY <1>0, <4>1, <5>1, <5>4 DEF ThreadTypeOK
        <4>3. pc'[w] \notin Walking
          BY <2>7, <4>1 DEF Filter, Walking
        <4>4. \A u \in Thread \ {w} : pc'[u] = pc[u] /\ idx'[u] = idx[u]
          BY <1>0, <4>1 DEF ThreadTypeOK
        <4>5. \A u \in Thread \ {w} : active'[u] = active[u]
          BY <1>0, <4>1 DEF ThreadTypeOK
        <4> QED BY <1>0, <4>2, <4>3, <4>4, <4>5, IndexOfOthers
      <3>2. CASE ~(idx[w] <= Len(held[w]))
        <4>1. /\ UNCHANGED <<active, held, deferred, copy, event, outcome>>
              /\ idx' = [idx EXCEPT ![w] = 1]
              /\ \/ active[w] # << >> /\ pc' = [pc EXCEPT ![w] = "read"]
                 \/ pc' = [pc EXCEPT ![w] = "release"]
          BY <2>7, <3>2 DEF Filter, GoTo
        <4>2. ThreadTypeOK'
          <5>1. idx' \in [Thread -> Nat \ {0}]
            BY <1>0, <4>1 DEF ThreadTypeOK
          <5>2. pc' = [pc EXCEPT ![w] = "read"] \/ pc' = [pc EXCEPT ![w] = "release"]
            BY <4>1
          <5> QED BY <1>0, <4>1, <5>1, <5>2 DEF ThreadTypeOK
        <4>3. pc'[w] \in Walking => idx'[w] \in 1 .. Len(active'[w])
          <5>1. pc'[w] \in Walking => active[w] # << >>
            BY <1>0, <4>1 DEF Walking, ThreadTypeOK
          <5>2. active[w] \in Seq(Job) /\ idx'[w] = 1 /\ active'[w] = active[w]
            BY <1>0, <4>1 DEF ThreadTypeOK
          <5>3. active[w] # << >> => Len(active[w]) \in Nat \ {0}
            BY <5>2
          <5> QED BY <5>1, <5>2, <5>3
        <4>4. \A u \in Thread \ {w} : /\ pc'[u] = pc[u] /\ idx'[u] = idx[u]
                                      /\ active'[u] = active[u]
          <5>1. \A u \in Thread \ {w} : idx'[u] = idx[u] /\ active'[u] = active[u]
            BY <1>0, <4>1 DEF ThreadTypeOK
          <5>2. \A u \in Thread \ {w} : pc'[u] = pc[u]
            BY <1>0, <4>1 DEF ThreadTypeOK
          <5> QED BY <5>1, <5>2
        <4> QED BY <1>0, <4>2, <4>3, <4>4, IndexOfOthers
      <3> QED BY <3>1, <3>2
    <2> QED BY CollectStep(w), <2>1, <2>2, <2>3, <2>4, <2>5, <2>6, <2>7, <2>8
      DEF CollectStep
  <1> QED BY <1>1, <1>2, <1>3, <1>4, <1>5, <1>6 DEF TypeInv, TypeOK

\* _execute and _execute_batch
LEMMA ExecuteTypeInv ==
  ASSUME TypeInv, NEW t \in Thread, ExecuteStep(t)
  PROVE  TypeInv'
  <1>0. StoreTypeOK /\ QueueTypeOK /\ ThreadTypeOK /\ CancelTypeOK /\ IndexInRange
    BY DEF TypeInv, TypeOK
  <1>1. pc[t] \in Walking => Current(t) \in Job /\ idx[t] \in 1 .. Len(active[t])
    BY <1>0, CurrentType DEF IndexInRange
  <1>2. CancelTypeOK' /\ UNCHANGED <<stage, queue, deferred>>
    BY <1>0, TypeUnchanged, ExecuteStep(t)
    DEF ExecuteStep, ReadJob, SaveRunning, LogStarted, Run, BuildFails, Emit, Compute,
        ReadBack, SaveFinal, LogFinal, Release, queueVars
  <1>3. QueueTypeOK' /\ released' \subseteq Job
    BY <1>0, ExecuteStep(t)
    DEF ExecuteStep, ReadJob, SaveRunning, LogStarted, Run, BuildFails, Emit, Compute,
        ReadBack, SaveFinal, LogFinal, Release, TasksDone, queueVars, QueueTypeOK, ThreadTypeOK,
        TypeInv, TypeOK, Items
  <1>4. runs' \in [Job -> Nat]
    BY ExecuteStep(t)
    DEF ExecuteStep, ReadJob, SaveRunning, LogStarted, Run, BuildFails, Emit, Compute,
        ReadBack, SaveFinal, LogFinal, Release, TypeInv, TypeOK
  <1>5. StoreTypeOK' /\ ThreadTypeOK' /\ IndexInRange'
    <2>1. CASE ReadJob(t)
      <3>1. StoreTypeOK'
        BY <1>0, <2>1, TypeUnchanged DEF ReadJob
      <3>2. pc[t] \in Walking => jobs[Current(t)] \in JobRecord
        BY <1>0, <1>1 DEF StoreTypeOK
      <3> QED
        BY <1>0, <1>1, <2>1, <3>1, <3>2
        DEF ThreadTypeOK, IndexInRange, ReadJob, GoTo, Walking
    <2>2. CASE SaveRunning(t)
      <3>1. [copy[t] EXCEPT !.state = "running", !.worker = t] \in JobRecord
        BY <1>0, ZenonT(60) DEF ThreadTypeOK, JobRecord, JobState
      <3>2. StoreTypeOK'
        BY <1>0, <1>1, <2>2, <3>1, SaveType DEF SaveRunning, StartedRecord, Walking
      <3> QED
        BY <1>0, <2>2, <3>2, NewRecordType
        DEF ThreadTypeOK, IndexInRange, SaveRunning, GoTo, Walking
    <2>3. CASE LogStarted(t)
      <3>1. StoreTypeOK'
        BY <1>0, <1>1, <2>3, AppendEventType DEF LogStarted, Walking, EventKind
      <3>2. IndexInRange' /\ idx' \in [Thread -> Nat \ {0}]
        BY <1>0, <2>3, NextItemInRange DEF LogStarted, Walking
      <3>3. ThreadTypeOK'
        BY <1>0, <2>3, <3>2, NextItemInRange DEF ThreadTypeOK, LogStarted, NextItem, GoTo, Walking
      <3> QED BY <3>1, <3>2, <3>3
    <2>4. CASE Run(t)
      <3>1. StoreTypeOK'
        BY <1>0, <2>4, TypeUnchanged DEF Run
      <3> QED
        BY <1>0, <2>4, <3>1 DEF ThreadTypeOK, IndexInRange, Run, GoTo, Walking, EventKind
    <2>5. CASE BuildFails(t)
      <3>1. StoreTypeOK'
        BY <1>0, <2>5, TypeUnchanged DEF BuildFails
      <3> QED
        BY <1>0, <2>5, <3>1 DEF ThreadTypeOK, IndexInRange, BuildFails, GoTo, Walking
    <2>6. CASE Emit(t)
      <3>1. StoreTypeOK'
        BY <1>0, <1>1, <2>6, AppendEventType DEF ThreadTypeOK, Emit, Walking
      <3>2. IndexInRange' /\ idx' \in [Thread -> Nat \ {0}]
        BY <1>0, <2>6, NextItemInRange DEF Emit, Walking
      <3>3. ThreadTypeOK'
        BY <1>0, <2>6, <3>2, NextItemInRange 
        DEF ThreadTypeOK, Emit, AfterEmit, NextItem, GoTo, Walking
      <3> QED BY <3>1, <3>2, <3>3
    <2>7. CASE Compute(t)
      <3>1. StoreTypeOK'
        BY <1>0, <2>7, TypeUnchanged DEF Compute
      <3>2. /\ UNCHANGED <<held, deferred, active, idx, copy>> /\ pc[t] = "compute"
            /\ event' \in [Thread -> EventKind]
            /\ outcome' \in [Thread -> {"succeeded", "failed"}]
        BY <1>0, <2>7 DEF ThreadTypeOK, Compute, EventKind
      <3>3. pc' = [pc EXCEPT ![t] = "emit"] \/ pc' = [pc EXCEPT ![t] = "readBack"]
        BY <2>7 DEF Compute, GoTo
      <3>4. CASE pc' = [pc EXCEPT ![t] = "emit"]
        BY <1>0, <3>1, <3>2, <3>4 DEF ThreadTypeOK, IndexInRange, Walking
      <3>5. CASE pc' = [pc EXCEPT ![t] = "readBack"]
        BY <1>0, <3>1, <3>2, <3>5 DEF ThreadTypeOK, IndexInRange, Walking
      <3> QED BY <3>3, <3>4, <3>5
    <2>8. CASE ReadBack(t)
      <3>1. StoreTypeOK' /\ jobs[Current(t)] \in JobRecord
        BY <1>0, <1>1, <2>8, TypeUnchanged DEF ReadBack, StoreTypeOK, Walking
      <3> QED
        BY <1>0, <2>8, <3>1 DEF ThreadTypeOK, IndexInRange, ReadBack, Reread, GoTo, Walking
    <2>9. CASE SaveFinal(t)
      <3>1. /\ [copy[t] EXCEPT !.state = "succeeded", !.result = TRUE, !.error = FALSE] \in JobRecord
            /\ [copy[t] EXCEPT !.state = "failed", !.error = TRUE] \in JobRecord
        BY <1>0 DEF ThreadTypeOK, JobRecord, JobState
      <3>2. StoreTypeOK'
        BY <1>0, <1>1, <2>9, <3>1, SaveType DEF SaveFinal, FinalRecord, Walking
      <3> QED
        BY <1>0, <2>9, <3>2, NewRecordType
        DEF ThreadTypeOK, IndexInRange, SaveFinal, GoTo, Walking
    <2>10. CASE LogFinal(t)
      <3>1. StoreTypeOK'
        BY <1>0, <1>1, <2>10, AppendEventType DEF LogFinal, Walking, EventKind
      <3>2. IndexInRange' /\ idx' \in [Thread -> Nat \ {0}]
        BY <1>0, <2>10, NextItemInRange DEF LogFinal, Walking
      <3>3. ThreadTypeOK'
        BY <1>0, <2>10, <3>2, NextItemInRange DEF ThreadTypeOK, LogFinal, NextItem, GoTo, Walking
      <3> QED BY <3>1, <3>2, <3>3
    <2>11. CASE Release(t)
      <3>1. StoreTypeOK'
        BY <1>0, <2>11, TypeUnchanged DEF Release
      <3> QED
        BY <1>0, <2>11, <3>1 DEF ThreadTypeOK, IndexInRange, Release, GoTo, Walking, EventKind
    <2> QED
      BY ExecuteStep(t), <2>1, <2>2, <2>3, <2>4, <2>5, <2>6, <2>7, <2>8, <2>9, <2>10, <2>11
      DEF ExecuteStep
  <1> QED BY <1>2, <1>3, <1>4, <1>5 DEF TypeInv, TypeOK

\* cancel
LEMMA CancelTypeInv ==
  ASSUME TypeInv, NEW c \in Canceller,
         CancelStep(c) \/ \E j \in Job : CancelReads(c, j)
  PROVE  TypeInv'
  <1>0. StoreTypeOK /\ QueueTypeOK /\ ThreadTypeOK /\ CancelTypeOK /\ IndexInRange
    BY DEF TypeInv, TypeOK
  <1>1. /\ QueueTypeOK' /\ ThreadTypeOK'
        /\ UNCHANGED <<stage, released, runs, pc, idx, active>>
    BY <1>0, TypeUnchanged
    DEF CancelStep, CancelReads, CancelSaves, CancelLogs, CancelReturns, threadVars
  <1>2. StoreTypeOK' /\ CancelTypeOK'
    <2>1. ASSUME NEW j \in Job, CancelReads(c, j) PROVE StoreTypeOK' /\ CancelTypeOK'
      <3>1. StoreTypeOK' /\ jobs[j] \in JobRecord
        BY <1>0, <2>1, TypeUnchanged DEF CancelReads, StoreTypeOK
      <3> QED BY <1>0, <2>1, <3>1 DEF CancelTypeOK, CancelReads
    <2>2. CASE CancelSaves(c)
      <3>1. [ccopy[c] EXCEPT !.state = "cancelled"] \in JobRecord /\ cjob[c] \in Job
        BY <1>0, <2>2 DEF CancelTypeOK, JobRecord, JobState, CancelSaves
      <3>2. StoreTypeOK'
        BY <1>0, <2>2, <3>1, SaveType DEF CancelSaves
      <3> QED BY <1>0, <2>2, <3>1, <3>2, NewRecordType DEF CancelTypeOK, CancelSaves
    <2>3. CASE CancelLogs(c)
      <3>1. StoreTypeOK'
        BY <1>0, <2>3, AppendEventType DEF CancelTypeOK, CancelLogs, EventKind
      <3> QED BY <1>0, <2>3, <3>1 DEF CancelTypeOK, CancelLogs
    <2>4. CASE CancelReturns(c)
      <3>1. StoreTypeOK'
        BY <1>0, <2>4, TypeUnchanged DEF CancelReturns
      <3> QED BY <1>0, <2>4, <3>1 DEF CancelTypeOK, CancelReturns
    <2> QED BY <2>1, <2>2, <2>3, <2>4 DEF CancelStep
  <1> QED BY <1>0, <1>1, <1>2 DEF TypeInv, TypeOK, IndexInRange

\* Every step keeps the inductive type invariant.
LEMMA NextTypeInv == TypeInv /\ [Next]_vars => TypeInv'
  <1> SUFFICES ASSUME TypeInv, [Next]_vars PROVE TypeInv'
    OBVIOUS
  <1>1. CASE UNCHANGED vars
    BY <1>1, TypeUnchanged
    DEF TypeInv, TypeOK, IndexInRange, vars, storeVars, queueVars, threadVars, cancelVars
  <1>2. CASE Next
    BY <1>2, SubmitTypeInv, CollectTypeInv, ExecuteTypeInv, CancelTypeInv DEF Next
  <1> QED BY <1>1, <1>2

\* Every reachable state is well typed, and a thread that works on an item
\* has an item to work on (the loops of _execute_batch).
THEOREM TypeCorrect == Spec => []TypeInv
  BY InitTypeInv, NextTypeInv, PTL DEF Spec

\* Every reachable state is well typed.
THEOREM TypeSafety == Spec => []TypeOK
  BY TypeCorrect, PTL DEF TypeInv

-------------------------------------------------------------------------------
(* Items                                                                   *)

\* submit or run_sync is past the point of handing the job over.
Entered == {j \in Job : stage[j] \in {"submitted", "sync"}}

PlacedIsSubmitted ==
  /\ Items(queue) \subseteq Entered
  /\ \A t \in Thread : Holding(t) \subseteq Entered
  /\ released \subseteq Entered

ActiveIsHeld ==
  \A t \in Thread :
    pc[t] \in Walking \cup {"filter"} => Items(active[t]) \subseteq Items(held[t])

\* The thread has called its executor, or will not.
Ran == {"emit", "compute", "readBack", "saveFinal", "logFinal", "release"}

RunIsRemembered ==
  \A j \in Job :
    \/ runs[j] = 0
    \/ /\ runs[j] = 1
       /\ j \in released \/ \E t \in Thread : pc[t] \in Ran /\ j \in Items(held[t])

ItemInv ==
  /\ TypeInv
  /\ ExclusiveItems
  /\ PlacedIsSubmitted
  /\ ActiveIsHeld
  /\ RunIsRemembered

\* The item invariant holds initially: no item is anywhere.
LEMMA InitItemInv == Init => ItemInv
  <1> SUFFICES ASSUME Init PROVE ItemInv
    OBVIOUS
  <1>1. \A t \in Thread : held[t] = << >> /\ deferred[t] = << >> /\ pc[t] = "idle"
    BY DEF Init
  <1>2. queue = << >> /\ released = {} /\ \A j \in Job : runs[j] = 0
    BY DEF Init
  <1>3. \A t \in Thread : Holding(t) = {}
    BY <1>1, ItemsOfEmpty DEF Holding
  <1>4. ExclusiveItems
    BY <1>1, <1>2, <1>3, ItemsOfEmpty DEF ExclusiveItems
  <1>5. PlacedIsSubmitted
    BY <1>2, <1>3, ItemsOfEmpty DEF PlacedIsSubmitted
  <1>6. ActiveIsHeld
    BY <1>1 DEF ActiveIsHeld, Walking
  <1> QED BY <1>2, <1>4, <1>5, <1>6, InitTypeInv DEF ItemInv, RunIsRemembered

\* A thread that only rearranges what it holds, what is queued and what was
\* given back keeps every item in one place.
LEMMA Rearranged ==
  ASSUME ExclusiveItems, PlacedIsSubmitted, NEW t \in Thread, UNCHANGED stage,
         \A u \in Thread \ {t} : held'[u] = held[u] /\ deferred'[u] = deferred[u],
         NoDuplicates(queue'), NoDuplicates(held'[t]), NoDuplicates(deferred'[t]),
         Items(held'[t]) \cap Items(deferred'[t]) = {},
         Items(queue') \cap (Items(held'[t]) \cup Items(deferred'[t])) = {},
         released' \cap (Items(held'[t]) \cup Items(deferred'[t])) = {},
         released' \cap Items(queue') = {},
         Items(queue') \cup Items(held'[t]) \cup Items(deferred'[t]) \cup released'
           \subseteq Items(queue) \cup Holding(t) \cup released
  PROVE  ExclusiveItems' /\ PlacedIsSubmitted'
  <1>1. /\ Holding(t)' = Items(held'[t]) \cup Items(deferred'[t])
        /\ \A u \in Thread \ {t} : Holding(u)' = Holding(u)
    BY DEF Holding
  <1>2. Entered' = Entered
    BY DEF Entered
  <1>3. \A u \in Thread \ {t} : Holding(u) \cap (Items(queue) \cup Holding(t) \cup released) = {}
    BY DEF ExclusiveItems
  <1>4. \A u \in Thread \ {t} :
           /\ NoDuplicates(held'[u]) /\ NoDuplicates(deferred'[u])
           /\ Items(held'[u]) \cap Items(deferred'[u]) = {}
           /\ Items(queue') \cap Holding(u)' = {}
           /\ released' \cap Holding(u)' = {}
           /\ Holding(t)' \cap Holding(u)' = {}
    BY <1>1, <1>3 DEF ExclusiveItems
  <1>5. \A u, v \in Thread \ {t} : u # v => Holding(u)' \cap Holding(v)' = {}
    BY <1>1 DEF ExclusiveItems
  <1>6. \A u \in Thread :
           /\ NoDuplicates(held'[u]) /\ NoDuplicates(deferred'[u])
           /\ Items(held'[u]) \cap Items(deferred'[u]) = {}
           /\ Items(queue') \cap Holding(u)' = {}
           /\ released' \cap Holding(u)' = {}
    BY <1>1, <1>4
  <1>7. \A u, v \in Thread : u # v => Holding(u)' \cap Holding(v)' = {}
    BY <1>4, <1>5
  <1>8. ExclusiveItems'
    BY <1>6, <1>7 DEF ExclusiveItems
  <1>9. PlacedIsSubmitted'
    BY <1>1, <1>2 DEF PlacedIsSubmitted
  <1> QED BY <1>8, <1>9

\* Nothing is moved: the step is somewhere else.
LEMMA NotMoved ==
  ASSUME ExclusiveItems, PlacedIsSubmitted, Entered \subseteq Entered',
         UNCHANGED <<queue, held, deferred, released>>
  PROVE  ExclusiveItems' /\ PlacedIsSubmitted'
  <1>1. \A t \in Thread : Holding(t)' = Holding(t)
    BY DEF Holding
  <1>2. ExclusiveItems'
    BY <1>1 DEF ExclusiveItems
  <1>3. PlacedIsSubmitted'
    BY <1>1 DEF PlacedIsSubmitted
  <1> QED BY <1>2, <1>3

\* submit and run_sync: a new item is in no place yet.
LEMMA SubmitItemInv ==
  ASSUME ItemInv, NEW j \in Job, SubmitStep(j)
  PROVE  ItemInv'
  <1>0. TypeInv' /\ TypeOK /\ QueueTypeOK /\ ThreadTypeOK /\ stage \in [Job -> {"new", "created", "logged", "submitted", "sync"}]
    BY SubmitTypeInv DEF ItemInv, TypeInv, TypeOK
  <1>1. UNCHANGED <<pc, held, deferred, active, released, runs>>
    BY SubmitStep(j) DEF SubmitStep, CreateJob, LogEnqueued, Put, threadVars
  <1>2. ActiveIsHeld' /\ RunIsRemembered'
    BY <1>1 DEF ItemInv, ActiveIsHeld, RunIsRemembered
  <1>3. Entered \subseteq Entered'
    BY <1>0, SubmitStep(j) DEF Entered, SubmitStep, CreateJob, LogEnqueued, Put
  <1>4. CASE CreateJob(j) \/ LogEnqueued(j)
    BY <1>0, <1>1, <1>2, <1>3, <1>4, NotMoved DEF ItemInv, CreateJob, LogEnqueued, queueVars
  <1>5. CASE Put(j)
    <2>1. j \notin Entered /\ j \in Entered' /\ queue' = Append(queue, j)
      BY <1>0, <1>5 DEF Put, Entered
    <2>2. /\ j \notin Items(queue) /\ j \notin released
          /\ \A t \in Thread : j \notin Holding(t)
      BY <2>1 DEF ItemInv, PlacedIsSubmitted
    <2>3. queue \in Seq(Job)
      BY <1>0 DEF QueueTypeOK
    <2>4. Items(queue') = Items(queue) \cup {j} /\ NoDuplicates(queue')
      BY <2>1, <2>2, <2>3, ItemsOfAppend DEF ItemInv, ExclusiveItems
    <2>5. \A t \in Thread : Holding(t)' = Holding(t)
      BY <1>1 DEF Holding
    <2>6. ExclusiveItems'
      BY <1>1, <2>2, <2>4, <2>5 DEF ItemInv, ExclusiveItems
    <2>7. PlacedIsSubmitted'
      BY <1>1, <1>3, <2>1, <2>4, <2>5 DEF ItemInv, PlacedIsSubmitted
    <2> QED BY <1>0, <1>2, <2>6, <2>7 DEF ItemInv
  <1> QED BY SubmitStep(j), <1>4, <1>5 DEF SubmitStep

\* run_sync hands a job to its own thread.
LEMMA RunSyncItemInv ==
  ASSUME ItemInv, NEW t \in SyncCaller, NEW j \in Job, RunSync(t, j)
  PROVE  ItemInv'
  <1>0. /\ TypeInv' /\ ThreadTypeOK /\ t \in Thread
        /\ stage \in [Job -> {"new", "created", "logged", "submitted", "sync"}]
    BY SubmitTypeInv DEF ItemInv, TypeInv, TypeOK, Thread
  <1>1. /\ UNCHANGED <<queue, deferred, released, runs>>
        /\ held'[t] = <<j>> /\ active'[t] = <<j>> /\ pc[t] = "idle" /\ pc'[t] = "read"
        /\ \A u \in Thread \ {t} : /\ held'[u] = held[u] /\ active'[u] = active[u]
                                   /\ pc'[u] = pc[u]
    BY <1>0 DEF RunSync, ThreadTypeOK, queueVars
  <1>2. j \notin Entered /\ Entered' = Entered \cup {j}
    BY <1>0 DEF RunSync, Entered
  <1>3. /\ j \notin Items(queue) /\ j \notin released
        /\ \A u \in Thread : j \notin Holding(u)
    BY <1>2 DEF ItemInv, PlacedIsSubmitted
  <1>4. Items(held'[t]) = {j} /\ NoDuplicates(held'[t])
    BY <1>1, ItemsOfSingleton
  <1>5. /\ Holding(t)' = {j} \cup Items(deferred[t])
        /\ \A u \in Thread \ {t} : Holding(u)' = Holding(u)
    BY <1>1, <1>4 DEF Holding
  <1>6. Holding(t)' \subseteq {j} \cup Holding(t) /\ j \notin Items(deferred[t])
    BY <1>3, <1>5, <1>0 DEF Holding
  <1>7. \A u \in Thread :
           /\ NoDuplicates(held'[u]) /\ NoDuplicates(deferred'[u])
           /\ Items(held'[u]) \cap Items(deferred'[u]) = {}
           /\ Items(queue') \cap Holding(u)' = {}
           /\ released' \cap Holding(u)' = {}
    <2>1. ASSUME NEW u \in Thread \ {t}
          PROVE  /\ NoDuplicates(held'[u]) /\ NoDuplicates(deferred'[u])
                 /\ Items(held'[u]) \cap Items(deferred'[u]) = {}
                 /\ Items(queue') \cap Holding(u)' = {}
                 /\ released' \cap Holding(u)' = {}
      BY <1>1, <1>5 DEF ItemInv, ExclusiveItems
    <2>2. /\ NoDuplicates(held'[t]) /\ NoDuplicates(deferred'[t])
          /\ Items(held'[t]) \cap Items(deferred'[t]) = {}
          /\ Items(queue') \cap Holding(t)' = {}
          /\ released' \cap Holding(t)' = {}
      BY <1>0, <1>1, <1>3, <1>4, <1>6 DEF ItemInv, ExclusiveItems
    <2> QED BY <2>1, <2>2
  <1>8. \A u, v \in Thread : u # v => Holding(u)' \cap Holding(v)' = {}
    BY <1>0, <1>3, <1>5, <1>6 DEF ItemInv, ExclusiveItems
  <1>9. ExclusiveItems'
    BY <1>1, <1>7, <1>8 DEF ItemInv, ExclusiveItems
  <1>10. PlacedIsSubmitted'
    BY <1>1, <1>2, <1>5, <1>6 DEF ItemInv, PlacedIsSubmitted
  <1>11. ActiveIsHeld'
    BY <1>1 DEF ItemInv, ActiveIsHeld
  <1>12. RunIsRemembered'
    BY <1>1 DEF ItemInv, RunIsRemembered, Ran
  <1> QED BY <1>0, <1>9, <1>10, <1>11, <1>12 DEF ItemInv

\* Worker.run and collect_matching: items move between the queue and the
\* two lists of one worker.
LEMMA CollectPlaces ==
  ASSUME ItemInv, NEW w \in Worker, CollectStep(w)
  PROVE  ExclusiveItems' /\ PlacedIsSubmitted'
  <1>0. /\ ExclusiveItems /\ PlacedIsSubmitted /\ w \in Thread
        /\ queue \in Seq(Job) /\ held[w] \in Seq(Job) /\ deferred[w] \in Seq(Job)
        /\ held \in [Thread -> Seq(Job)] /\ deferred \in [Thread -> Seq(Job)]
    BY DEF ItemInv, TypeInv, TypeOK, QueueTypeOK, ThreadTypeOK, Thread
  <1>1. UNCHANGED stage
    BY CollectStep(w)
    DEF CollectStep, Take, Collect, CollectEnds, RequeueCounts, Requeue, RequeueEnds, Dispatch, Filter
  <1>2. /\ NoDuplicates(queue) /\ NoDuplicates(held[w]) /\ NoDuplicates(deferred[w])
        /\ Items(held[w]) \cap Items(deferred[w]) = {}
        /\ Items(queue) \cap (Items(held[w]) \cup Items(deferred[w])) = {}
        /\ released \cap (Items(held[w]) \cup Items(deferred[w])) = {}
        /\ released \cap Items(queue) = {}
    BY <1>0 DEF ExclusiveItems, Holding
  <1>3. CASE Take(w)
    <2>1. /\ queue # << >> /\ queue' = Tail(queue) /\ held'[w] = <<Head(queue)>>
          /\ UNCHANGED <<deferred, released>>
          /\ \A u \in Thread \ {w} : held'[u] = held[u] /\ deferred'[u] = deferred[u]
      BY <1>0, <1>3 DEF Take
    <2>2. /\ Items(queue) = Items(queue') \cup {Head(queue)}
          /\ NoDuplicates(queue') /\ Head(queue) \notin Items(queue')
      BY <1>0, <1>2, <2>1, ItemsOfTail
    <2>3. Items(held'[w]) = {Head(queue)} /\ NoDuplicates(held'[w])
      BY <2>1, ItemsOfSingleton
    <2> QED BY <1>0, <1>1, <1>2, <2>1, <2>2, <2>3, Rearranged DEF Holding
  <1>4. CASE Collect(w)
    <2>1. /\ queue # << >> /\ queue' = Tail(queue) /\ UNCHANGED released
          /\ \A u \in Thread \ {w} : held'[u] = held[u] /\ deferred'[u] = deferred[u]
      BY <1>0, <1>4 DEF Collect
    <2>2. /\ Items(queue) = Items(queue') \cup {Head(queue)} /\ Head(queue) \in Job
          /\ NoDuplicates(queue') /\ Head(queue) \notin Items(queue')
      BY <1>0, <1>2, <2>1, ItemsOfTail
    <2>3. CASE held'[w] = Append(held[w], Head(queue)) /\ deferred'[w] = deferred[w]
      <3>1. Items(held'[w]) = Items(held[w]) \cup {Head(queue)} /\ NoDuplicates(held'[w])
        BY <1>0, <1>2, <2>2, <2>3, ItemsOfAppend
      <3> QED BY <1>0, <1>1, <1>2, <2>1, <2>2, <2>3, <3>1, Rearranged DEF Holding
    <2>4. CASE deferred'[w] = Append(deferred[w], Head(queue)) /\ held'[w] = held[w]
      <3>1. /\ Items(deferred'[w]) = Items(deferred[w]) \cup {Head(queue)}
            /\ NoDuplicates(deferred'[w])
        BY <1>0, <1>2, <2>2, <2>4, ItemsOfAppend
      <3>2. /\ Items(queue') \cup Items(held'[w]) \cup Items(deferred'[w]) \cup released'
                 \subseteq Items(queue) \cup Holding(w) \cup released
            /\ Items(held'[w]) \cap Items(deferred'[w]) = {}
            /\ Items(queue') \cap (Items(held'[w]) \cup Items(deferred'[w])) = {}
            /\ released' \cap (Items(held'[w]) \cup Items(deferred'[w])) = {}
            /\ released' \cap Items(queue') = {}
        BY <1>2, <2>1, <2>2, <2>4, <3>1 DEF Holding
      <3> QED BY <1>0, <1>1, <1>2, <2>1, <2>2, <2>4, <3>1, <3>2, Rearranged
    <2> QED BY <1>0, <1>4, <2>3, <2>4 DEF Collect
  <1>5. CASE Requeue(w)
    <2>1. /\ deferred[w] # << >> /\ queue' = Append(queue, Head(deferred[w]))
          /\ deferred'[w] = Tail(deferred[w]) /\ UNCHANGED <<held, released>>
          /\ \A u \in Thread \ {w} : held'[u] = held[u] /\ deferred'[u] = deferred[u]
      BY <1>0, <1>5 DEF Requeue
    <2>2. /\ Items(deferred[w]) = Items(deferred'[w]) \cup {Head(deferred[w])}
          /\ Head(deferred[w]) \in Job
          /\ NoDuplicates(deferred'[w]) /\ Head(deferred[w]) \notin Items(deferred'[w])
      BY <1>0, <1>2, <2>1, ItemsOfTail
    <2>3. Items(queue') = Items(queue) \cup {Head(deferred[w])} /\ NoDuplicates(queue')
      BY <1>0, <1>2, <2>1, <2>2, ItemsOfAppend
    <2>4. /\ Items(queue') \cup Items(held'[w]) \cup Items(deferred'[w]) \cup released'
               \subseteq Items(queue) \cup Holding(w) \cup released
          /\ Items(held'[w]) \cap Items(deferred'[w]) = {}
          /\ Items(queue') \cap (Items(held'[w]) \cup Items(deferred'[w])) = {}
          /\ released' \cap (Items(held'[w]) \cup Items(deferred'[w])) = {}
          /\ released' \cap Items(queue') = {}
      BY <1>2, <2>1, <2>2, <2>3 DEF Holding
    <2> QED BY <1>0, <1>1, <1>2, <2>1, <2>2, <2>3, <2>4, Rearranged
  <1>6. CASE Dispatch(w)
    <2>1. /\ UNCHANGED <<queue, deferred>>
          /\ \A u \in Thread \ {w} : held'[u] = held[u] /\ deferred'[u] = deferred[u]
          /\ \/ held'[w] = held[w] /\ released' = released
             \/ held'[w] = << >> /\ released' = released \cup Items(held[w])
      BY <1>0, <1>6 DEF Dispatch
    <2>2. CASE held'[w] = held[w] /\ released' = released
      BY <1>0, <1>1, <1>2, <2>1, <2>2, Rearranged DEF Holding
    <2>3. CASE held'[w] = << >> /\ released' = released \cup Items(held[w])
      <3>1. Items(held'[w]) = {} /\ NoDuplicates(held'[w])
        BY <2>3, ItemsOfEmpty
      <3> QED BY <1>0, <1>1, <1>2, <2>1, <2>3, <3>1, Rearranged DEF Holding
    <2> QED BY <2>1, <2>2, <2>3
  <1>7. CASE CollectEnds(w) \/ RequeueCounts(w) \/ RequeueEnds(w) \/ Filter(w)
    BY <1>0, <1>7, NotMoved DEF CollectEnds, RequeueCounts, RequeueEnds, Filter, queueVars, Entered
  <1> QED BY CollectStep(w), <1>3, <1>4, <1>5, <1>6, <1>7 DEF CollectStep

\* Collecting keeps what is active held and what has run remembered.
LEMMA CollectActive ==
  ASSUME ItemInv, NEW w \in Worker, CollectStep(w)
  PROVE  ActiveIsHeld' /\ RunIsRemembered'
  <1>0. /\ ThreadTypeOK /\ w \in Thread /\ held[w] \in Seq(Job) /\ active[w] \in Seq(Job)
        /\ ActiveIsHeld /\ RunIsRemembered
    BY DEF ItemInv, TypeInv, TypeOK, ThreadTypeOK, Thread
  <1>1. /\ \A u \in Thread \ {w} : /\ held'[u] = held[u] /\ active'[u] = active[u]
                                   /\ pc'[u] = pc[u]
        /\ pc[w] \notin Ran /\ runs' = runs /\ released \subseteq released'
    <2>1. \A u \in Thread \ {w} : pc'[u] = pc[u]
      BY <1>0, CollectStep(w)
      DEF CollectStep, Take, Collect, CollectEnds, RequeueCounts, Requeue, RequeueEnds, Dispatch, Filter,
          GoTo, ThreadTypeOK
    <2>2. \A u \in Thread \ {w} : held'[u] = held[u]
      BY <1>0, CollectStep(w)
      DEF CollectStep, Take, Collect, CollectEnds, RequeueCounts, Requeue, RequeueEnds, Dispatch, Filter,
          ThreadTypeOK
    <2>3. \A u \in Thread \ {w} : active'[u] = active[u]
      BY <1>0, CollectStep(w)
      DEF CollectStep, Take, Collect, CollectEnds, RequeueCounts, Requeue, RequeueEnds, Dispatch, Filter,
          ThreadTypeOK
    <2>4. pc[w] \notin Ran /\ runs' = runs /\ released \subseteq released'
      BY CollectStep(w)
      DEF CollectStep, Take, Collect, CollectEnds, RequeueCounts, Requeue, RequeueEnds, Dispatch, Filter, Ran
    <2> QED BY <2>1, <2>2, <2>3, <2>4
  <1>2. RunIsRemembered'
    BY <1>0, <1>1 DEF RunIsRemembered
  <1>3. pc'[w] \in Walking \cup {"filter"} => Items(active'[w]) \subseteq Items(held'[w])
    <2>1. CASE \/ Take(w) \/ Collect(w) \/ CollectEnds(w)
               \/ RequeueCounts(w) \/ Requeue(w) \/ RequeueEnds(w)
      BY <1>0, <2>1
      DEF Take, Collect, CollectEnds, RequeueCounts, Requeue, RequeueEnds, GoTo, Walking, ThreadTypeOK
    <2>2. CASE Dispatch(w)
      <3>1. \/ held'[w] = held[w] /\ active'[w] = held[w]
            \/ active'[w] = << >>
        BY <1>0, <2>2 DEF Dispatch, ThreadTypeOK
      <3> QED BY <3>1, ItemsOfEmpty
    <2>3. CASE Filter(w)
      <3>1. held'[w] = held[w] /\ pc[w] = "filter" /\ Items(active[w]) \subseteq Items(held[w])
        BY <1>0, <2>3 DEF Filter, ActiveIsHeld
      <3>2. CASE active'[w] = active[w]
        BY <3>1, <3>2
      <3>3. CASE /\ idx[w] <= Len(held[w])
                 /\ active'[w] = Append(active[w], held[w][idx[w]])
        <4>1. held[w][idx[w]] \in Items(held[w]) /\ held[w][idx[w]] \in Job
          BY <1>0, <3>3 DEF Items, ThreadTypeOK
        <4>2. Items(active'[w]) = Items(active[w]) \cup {held[w][idx[w]]}
          BY <1>0, <3>3, <4>1, ItemsOfAppend
        <4> QED BY <3>1, <4>1, <4>2
      <3> QED BY <1>0, <2>3, <3>2, <3>3 DEF Filter, ThreadTypeOK
    <2> QED BY CollectStep(w), <2>1, <2>2, <2>3 DEF CollectStep
  <1>4. ActiveIsHeld'
    BY <1>0, <1>1, <1>3 DEF ActiveIsHeld
  <1> QED BY <1>2, <1>4

\* _execute and _execute_batch: the items stay with the thread until it
\* gives all of them back.
LEMMA ExecuteItemInv ==
  ASSUME ItemInv, NEW t \in Thread, ExecuteStep(t)
  PROVE  ItemInv'
  <1>0. /\ ExclusiveItems /\ PlacedIsSubmitted /\ ActiveIsHeld /\ RunIsRemembered
        /\ ThreadTypeOK /\ IndexInRange /\ runs \in [Job -> Nat]
        /\ held \in [Thread -> Seq(Job)] /\ pc[t] # "filter"
    BY ExecuteStep(t)
    DEF ExecuteStep, ReadJob, SaveRunning, LogStarted, Run, BuildFails, Emit, Compute,
        ReadBack, SaveFinal, LogFinal, Release, ItemInv, TypeInv, TypeOK, ThreadTypeOK
  <1>1. TypeInv'
    BY ExecuteTypeInv DEF ItemInv
  <1>2. CASE Release(t)
    <2>1. /\ UNCHANGED <<stage, queue, deferred, runs>>
          /\ held'[t] = << >> /\ released' = released \cup Items(held[t])
          /\ active'[t] = << >> /\ pc'[t] = "idle"
          /\ \A u \in Thread \ {t} : /\ held'[u] = held[u] /\ active'[u] = active[u]
                                     /\ pc'[u] = pc[u]
      BY <1>0, <1>2 DEF Release, GoTo, ThreadTypeOK
    <2>2. Items(held'[t]) = {} /\ NoDuplicates(held'[t])
      BY <2>1, ItemsOfEmpty
    <2>3. /\ NoDuplicates(queue) /\ NoDuplicates(deferred[t])
          /\ Items(held[t]) \cap Items(deferred[t]) = {}
          /\ Items(queue) \cap (Items(held[t]) \cup Items(deferred[t])) = {}
          /\ released \cap (Items(held[t]) \cup Items(deferred[t])) = {}
          /\ released \cap Items(queue) = {}
      BY <1>0 DEF ExclusiveItems, Holding
    <2>4. ExclusiveItems' /\ PlacedIsSubmitted'
      BY <1>0, <2>1, <2>2, <2>3, Rearranged DEF Holding
    <2>5. ActiveIsHeld'
      BY <1>0, <2>1 DEF ActiveIsHeld, Walking
    <2>6. RunIsRemembered'
      BY <1>0, <2>1 DEF RunIsRemembered
    <2> QED BY <1>1, <2>4, <2>5, <2>6 DEF ItemInv
  <1>3. CASE ~Release(t)
    <2>1. UNCHANGED <<stage, queue, held, deferred, released, active>>
      BY <1>3, ExecuteStep(t)
      DEF ExecuteStep, ReadJob, SaveRunning, LogStarted, Run, BuildFails, Emit, Compute,
          ReadBack, SaveFinal, LogFinal, queueVars
    <2>2. ExclusiveItems' /\ PlacedIsSubmitted'
      BY <1>0, <2>1, NotMoved DEF Entered
    <2>3. /\ \A u \in Thread \ {t} : pc'[u] = pc[u]
          /\ pc[t] \in Walking
          /\ pc[t] \in Ran => pc'[t] \in Ran
      <3>1. pc[t] \in Walking
        BY <1>3, ExecuteStep(t)
        DEF ExecuteStep, ReadJob, SaveRunning, LogStarted, Run, BuildFails, Emit, Compute,
            ReadBack, SaveFinal, LogFinal, Walking
      <3>2. \E label : pc' = [pc EXCEPT ![t] = label] /\ (pc[t] \in Ran => label \in Ran)
        <4>1. CASE ReadJob(t) \/ SaveRunning(t) \/ Run(t) \/ BuildFails(t) \/ Compute(t)
                   \/ ReadBack(t) \/ SaveFinal(t)
          BY <4>1 DEF ReadJob, SaveRunning, Run, BuildFails, Compute, ReadBack, SaveFinal,
                      GoTo, Ran
        <4>2. CASE LogStarted(t)
          BY <4>2 DEF LogStarted, NextItem, GoTo, Ran
        <4>3. CASE Emit(t)
          BY <4>3 DEF Emit, AfterEmit, NextItem, GoTo, Ran
        <4>4. CASE LogFinal(t)
          BY <4>4 DEF LogFinal, NextItem, GoTo, Ran
        <4> QED BY <1>3, ExecuteStep(t), <4>1, <4>2, <4>3, <4>4 DEF ExecuteStep
      <3> QED BY <1>0, <3>1, <3>2 DEF ThreadTypeOK
    <2>4. Items(active[t]) \subseteq Items(held[t])
      BY <1>0, <2>3 DEF ActiveIsHeld
    <2>5. ActiveIsHeld'
      BY <1>0, <2>1, <2>3, <2>4 DEF ActiveIsHeld
    <2>6. CASE Run(t)
      <3>1. /\ pc[t] = "run" /\ pc'[t] = "emit"
            /\ \A j \in Job : runs'[j] = IF j \in Items(active[t]) THEN runs[j] + 1 ELSE runs[j]
        BY <1>0, <2>6 DEF Run, GoTo, ThreadTypeOK
      <3>2. ASSUME NEW j \in Job, j \in Items(active[t])
            PROVE  runs'[j] = 1 /\ pc'[t] \in Ran /\ j \in Items(held'[t])
        <4>1. j \in Items(held[t]) /\ j \in Holding(t)
          BY <2>4, <3>2 DEF Holding
        <4>2. j \notin released /\ \A u \in Thread \ {t} : j \notin Items(held[u])
          BY <1>0, <4>1 DEF ExclusiveItems, Holding
        <4>3. runs[j] = 0
          BY <1>0, <3>1, <4>2 DEF RunIsRemembered, Ran
        <4> QED BY <2>1, <3>1, <3>2, <4>1, <4>3 DEF Ran
      <3>3. ASSUME NEW j \in Job, j \notin Items(active[t])
            PROVE  \/ runs'[j] = 0
                   \/ /\ runs'[j] = 1
                      /\ j \in released' \/ \E u \in Thread : pc'[u] \in Ran /\ j \in Items(held'[u])
        BY <1>0, <2>1, <2>3, <3>1, <3>3 DEF RunIsRemembered
      <3>4. RunIsRemembered'
        BY <3>2, <3>3 DEF RunIsRemembered
      <3> QED BY <1>1, <2>2, <2>5, <3>4 DEF ItemInv
    <2>7. CASE ~Run(t)
      <3>1. UNCHANGED runs
        BY <1>3, <2>7, ExecuteStep(t)
        DEF ExecuteStep, ReadJob, SaveRunning, LogStarted, BuildFails, Emit, Compute,
            ReadBack, SaveFinal, LogFinal
      <3>2. RunIsRemembered'
        BY <1>0, <2>1, <2>3, <3>1 DEF RunIsRemembered
      <3> QED BY <1>1, <2>2, <2>5, <3>2 DEF ItemInv
    <2> QED BY <2>6, <2>7
  <1> QED BY <1>2, <1>3

\* cancel touches records only.
LEMMA CancelItemInv ==
  ASSUME ItemInv, NEW c \in Canceller,
         CancelStep(c) \/ \E j \in Job : CancelReads(c, j)
  PROVE  ItemInv'
  <1>1. UNCHANGED <<stage, queue, held, deferred, released, active, pc, runs>>
    BY DEF CancelStep, CancelReads, CancelSaves, CancelLogs, CancelReturns, threadVars,
           queueVars
  <1>2. ExclusiveItems' /\ PlacedIsSubmitted'
    BY <1>1, NotMoved DEF ItemInv, Entered
  <1>3. ActiveIsHeld' /\ RunIsRemembered'
    BY <1>1 DEF ItemInv, ActiveIsHeld, RunIsRemembered
  <1> QED BY <1>2, <1>3, CancelTypeInv DEF ItemInv

\* Every step keeps the item invariant.
LEMMA NextItemInv == ItemInv /\ [Next]_vars => ItemInv'
  <1> SUFFICES ASSUME ItemInv, [Next]_vars PROVE ItemInv'
    OBVIOUS
  <1>1. CASE UNCHANGED vars
    <2>1. UNCHANGED <<stage, queue, held, deferred, released, active, pc, runs>>
      BY <1>1 DEF vars, queueVars, threadVars
    <2>2. ExclusiveItems' /\ PlacedIsSubmitted'
      BY <2>1, NotMoved DEF ItemInv, Entered
    <2>3. ActiveIsHeld' /\ RunIsRemembered'
      BY <2>1 DEF ItemInv, ActiveIsHeld, RunIsRemembered
    <2> QED BY <1>1, <2>2, <2>3, NextTypeInv DEF ItemInv
  <1>2. CASE Next
    <2>1. ASSUME NEW w \in Worker, CollectStep(w) PROVE ItemInv'
      BY <2>1, CollectTypeInv, CollectPlaces, CollectActive DEF ItemInv
    <2> QED
      BY <1>2, <2>1, SubmitItemInv, RunSyncItemInv, ExecuteItemInv, CancelItemInv DEF Next
  <1> QED BY <1>1, <1>2

\* In every reachable state each item is where the item invariant says: in one
\* place, submitted, held while active, and remembered once it ran.
THEOREM ItemsCorrect == Spec => []ItemInv
  BY InitItemInv, NextItemInv, PTL DEF Spec

\* Batching, setting aside, requeueing and giving back never put an item in
\* two places or twice in one (JobQueue.collect_matching, Worker.run).
THEOREM ItemsAreExclusive == Spec => []ExclusiveItems
  BY ItemsCorrect, PTL DEF ItemInv

\* No job reaches an executor twice, whatever is merged with what.
THEOREM NoSecondRun == Spec => []AtMostOneRun
  <1>1. ItemInv => AtMostOneRun
    BY DEF ItemInv, RunIsRemembered, AtMostOneRun
  <1> QED BY <1>1, ItemsCorrect, PTL

-------------------------------------------------------------------------------
(* Nothing is lost, and the refinement of the work pool                    *)

Collecting == {"collect", "requeue", "putBack"}

HoldsInTurn ==
  \A t \in Thread :
    /\ pc[t] = "idle" => held[t] = << >>
    /\ pc[t] \notin {"idle", "dead"} => held[t] # << >>
    /\ pc[t] \notin Collecting => deferred[t] = << >>
    /\ pc[t] = "putBack" => deferred[t] # << >>

PlacedByKind ==
  /\ \A j \in Items(queue) : stage[j] = "submitted"
  /\ \A w \in Worker : \A j \in Holding(w) : stage[j] = "submitted"
  /\ \A t \in SyncCaller : \A j \in Holding(t) : stage[j] = "sync"

AllPlaced ==
  \A j \in InFlight : j \in Items(queue) \/ \E t \in Thread : j \in Holding(t)

PuttingBack == {w \in Worker : pc[w] = "putBack"}

Counted ==
  /\ IsFiniteSet(Unreturned) /\ IsFiniteSet(PuttingBack)
  /\ unfinished + Cardinality(PuttingBack) = Cardinality(Unreturned)

PoolInv == ItemInv /\ HoldsInTurn /\ PlacedByKind /\ AllPlaced /\ Counted

\* A sequence without duplicates has as many items as places.
LEMMA CountItems ==
  ASSUME NEW S, NEW s \in Seq(S), NoDuplicates(s)
  PROVE  IsFiniteSet(Items(s)) /\ Cardinality(Items(s)) = Len(s)
  <1>1. Len(s) \in Nat /\ DOMAIN s = 1 .. Len(s)
    OBVIOUS
  <1>2. IsFiniteSet(1 .. Len(s)) /\ Cardinality(1 .. Len(s)) = Len(s)
    BY <1>1, FS_Interval
  <1> DEFINE f == [k \in 1 .. Len(s) |-> s[k]]
  <1>3. f \in Bijection(1 .. Len(s), Items(s))
    BY <1>1 DEF Bijection, Injection, Surjection, IsInjective, Items, NoDuplicates
  <1>4. ExistsBijection(1 .. Len(s), Items(s))
    BY <1>3 DEF ExistsBijection
  <1> QED BY <1>2, <1>4, FS_Bijection

\* The initial states.
LEMMA InitPool == Init => PoolInv
  <1> SUFFICES ASSUME Init PROVE PoolInv
    OBVIOUS
  <1>1. \A t \in Thread : held[t] = << >> /\ deferred[t] = << >> /\ pc[t] = "idle"
    BY DEF Init
  <1>2. queue = << >> /\ unfinished = 0 /\ \A j \in Job : stage[j] = "new"
    BY DEF Init
  <1>3. \A t \in Thread : Holding(t) = {}
    BY <1>1, ItemsOfEmpty DEF Holding
  <1>4. InFlight = {} /\ Unreturned = {} /\ PuttingBack = {}
    BY <1>1, <1>2 DEF InFlight, Unreturned, PuttingBack, Thread
  <1>5. Counted
    BY <1>2, <1>4, FS_EmptySet DEF Counted
  <1>6. HoldsInTurn /\ AllPlaced /\ PlacedByKind
    BY <1>1, <1>2, <1>3, <1>4, ItemsOfEmpty DEF HoldsInTurn, AllPlaced, PlacedByKind, Thread
  <1> QED BY <1>5, <1>6, InitItemInv DEF PoolInv

\* With exact counts the counter is not 0 before everything is given back: a
\* worker that puts an item back holds another one.
LEMMA PoolHoldsAll == PoolInv => NoItemLost
  <1> SUFFICES ASSUME PoolInv PROVE NoItemLost
    OBVIOUS
  <1>0. /\ ItemInv /\ HoldsInTurn /\ PlacedByKind /\ AllPlaced /\ Counted
        /\ ExclusiveItems /\ PlacedIsSubmitted /\ unfinished \in Int
        /\ \A t \in Thread : held[t] \in Seq(Job) /\ deferred[t] \in Seq(Job)
        /\ Worker \subseteq Thread
    BY DEF PoolInv, ItemInv, TypeInv, TypeOK, QueueTypeOK, ThreadTypeOK, Thread
  <1>1. InFlight = Items(queue) \cup UNION {Holding(t) : t \in Thread}
    <2>1. InFlight = Entered \ released
      BY DEF InFlight, Entered
    <2>2. Items(queue) \subseteq Entered \ released
      BY <1>0 DEF PlacedIsSubmitted, ExclusiveItems
    <2>3. \A t \in Thread : Holding(t) \subseteq Entered \ released
      BY <1>0 DEF PlacedIsSubmitted, ExclusiveItems
    <2> QED BY <1>0, <2>1, <2>2, <2>3 DEF AllPlaced
  <1>2. unfinished = 0 => Unreturned = {}
    <2>1. ASSUME NEW w \in PuttingBack
          PROVE  /\ held[w][1] \in Unreturned /\ Head(deferred[w]) \in Unreturned
                 /\ held[w][1] \in Holding(w) /\ Head(deferred[w]) \in Holding(w)
                 /\ Head(deferred[w]) \in Items(deferred[w]) /\ held[w][1] \in Items(held[w])
      <3>1. w \in Worker /\ w \in Thread /\ held[w] # << >> /\ deferred[w] # << >>
        BY <1>0, <2>1 DEF PuttingBack, HoldsInTurn
      <3>2. Head(deferred[w]) \in Items(deferred[w]) /\ held[w][1] \in Items(held[w])
        BY <1>0, <3>1 DEF Items
      <3>3. \A j \in Holding(w) : stage[j] = "submitted" /\ j \in InFlight
        BY <1>0, <1>1, <3>1 DEF PlacedByKind
      <3> QED BY <3>2, <3>3 DEF Holding, Unreturned
    <2> DEFINE f == [w \in PuttingBack |-> Head(deferred[w])]
    <2>2. f \in Injection(PuttingBack, Unreturned)
      <3>1. \A w, v \in PuttingBack : f[w] = f[v] => w = v
        BY <1>0, <2>1 DEF ExclusiveItems, PuttingBack
      <3> QED BY <2>1, <3>1 DEF Injection, IsInjective
    <2>3. ASSUME NEW w \in PuttingBack PROVE f \notin Surjection(PuttingBack, Unreturned)
      <3>1. \A v \in PuttingBack : f[v] # held[w][1]
        <4>1. ASSUME NEW v \in PuttingBack, f[v] = held[w][1] PROVE FALSE
          <5>1. v = w
            BY <1>0, <2>1, <2>3, <4>1 DEF ExclusiveItems, PuttingBack
          <5>2. Items(held[w]) \cap Items(deferred[w]) = {}
            BY <1>0, <2>3 DEF ExclusiveItems, PuttingBack
          <5> QED BY <2>1, <2>3, <4>1, <5>1, <5>2
        <4> QED BY <4>1
      <3> QED BY <2>1, <2>3, <3>1 DEF Surjection
    <2>4. Cardinality(Unreturned) \in Nat /\ Cardinality(PuttingBack) \in Nat
      BY <1>0, FS_CardinalityType DEF Counted
    <2>5. ASSUME unfinished = 0 PROVE Unreturned = {}
      <3>1. Cardinality(PuttingBack) = Cardinality(Unreturned)
        BY <1>0, <2>4, <2>5 DEF Counted
      <3>2. f \in Surjection(PuttingBack, Unreturned)
        BY <1>0, <2>2, <3>1, FS_Injection DEF Counted
      <3>3. PuttingBack = {}
        BY <2>3, <3>2
      <3> QED BY <1>0, <3>1, <3>3, FS_EmptySet DEF Counted
    <2> QED BY <2>5
  <1>3. unfinished + Cardinality({w \in Worker : pc[w] = "putBack"}) = Cardinality(Unreturned)
    BY <1>0 DEF Counted, PuttingBack
  <1> QED BY <1>1, <1>2, <1>3 DEF NoItemLost

\* A thread that moves items between the queue, its lists and the returned
\* items drops none, given the counts.
LEMMA ThreadKeepsPool ==
  ASSUME PoolInv, ItemInv', Counted', NEW t \in Thread, UNCHANGED stage,
         \A u \in Thread \ {t} : /\ pc'[u] = pc[u] /\ held'[u] = held[u]
                                 /\ deferred'[u] = deferred[u],
         pc'[t] = "idle" => held'[t] = << >>,
         pc'[t] \notin {"idle", "dead"} => held'[t] # << >>,
         pc'[t] \notin Collecting => deferred'[t] = << >>,
         pc'[t] = "putBack" => deferred'[t] # << >>,
         t \in Worker \/ queue' = queue,
         released \subseteq released',
         Items(queue') \subseteq Items(queue) \cup Holding(t),
         Holding(t)' \subseteq Holding(t) \cup (Items(queue) \ Items(queue')),
         Items(queue) \cup Holding(t) \subseteq Items(queue') \cup Holding(t)' \cup released'
  PROVE  PoolInv'
  <1>0. /\ HoldsInTurn /\ PlacedByKind /\ AllPlaced /\ Worker \cap SyncCaller = {}
        /\ Thread = Worker \cup SyncCaller
    BY StoreAssumption DEF PoolInv, Thread
  <1>1. \A u \in Thread \ {t} : Holding(u)' = Holding(u)
    BY DEF Holding
  <1>2. HoldsInTurn'
    BY <1>0 DEF HoldsInTurn
  <1>3. PlacedByKind'
    BY <1>0, <1>1 DEF PlacedByKind
  <1>4. InFlight' \subseteq InFlight
    BY DEF InFlight
  <1>5. AllPlaced'
    <2>1. ASSUME NEW j \in InFlight'
          PROVE  j \in Items(queue') \/ \E u \in Thread : j \in Holding(u)'
      <3>1. j \in Items(queue) \/ \E u \in Thread : j \in Holding(u)
        BY <1>0, <1>4, <2>1 DEF AllPlaced
      <3>2. j \notin released'
        BY <2>1 DEF InFlight
      <3> QED BY <1>1, <3>1, <3>2
    <2> QED BY <2>1 DEF AllPlaced
  <1> QED BY <1>2, <1>3, <1>5 DEF PoolInv

\* Nothing of the counts changes.
LEMMA SameCounts ==
  ASSUME Counted, UNCHANGED <<unfinished, released>>, Unreturned' = Unreturned,
         PuttingBack' = PuttingBack
  PROVE  Counted'
  BY DEF Counted

\* A worker counts down what it gives back.
LEMMA GiveBackCounts ==
  ASSUME PoolInv, NEW t \in Thread, UNCHANGED stage, PuttingBack' = PuttingBack,
         released' = released \cup Items(held[t]),
         unfinished' = unfinished - TasksDone(t)
  PROVE  Counted'
  <1>0. /\ PlacedByKind /\ Counted /\ held[t] \in Seq(Job) /\ NoDuplicates(held[t])
        /\ unfinished \in Int /\ Worker \cap SyncCaller = {}
        /\ released \cap Items(held[t]) = {} /\ Items(held[t]) \subseteq Entered
    BY StoreAssumption
    DEF PoolInv, ItemInv, TypeInv, TypeOK, ThreadTypeOK, QueueTypeOK, ExclusiveItems,
        PlacedIsSubmitted, Holding
  <1>1. Unreturned' = Unreturned \ Items(held[t])
    BY DEF Unreturned, InFlight
  <1>2. CASE t \in Worker
    <2>1. \A j \in Items(held[t]) : stage[j] = "submitted"
      BY <1>0, <1>2 DEF PlacedByKind, Holding
    <2>2. Items(held[t]) \subseteq Unreturned
      BY <1>0, <2>1 DEF Unreturned, InFlight, Entered
    <2>3. IsFiniteSet(Items(held[t])) /\ Cardinality(Items(held[t])) = Len(held[t])
      BY <1>0, CountItems
    <2>4. Unreturned \cap Items(held[t]) = Items(held[t])
      BY <2>2
    <2>5. /\ IsFiniteSet(Unreturned \ Items(held[t]))
          /\ Cardinality(Unreturned \ Items(held[t])) = Cardinality(Unreturned) - Len(held[t])
      <3>1. IsFiniteSet(Unreturned)
        BY <1>0 DEF Counted
      <3>2. /\ IsFiniteSet(Unreturned \ Items(held[t]))
            /\ Cardinality(Unreturned \ Items(held[t]))
                 = Cardinality(Unreturned) - Cardinality(Unreturned \cap Items(held[t]))
        BY <3>1, FS_Difference, Zenon
      <3> QED BY <2>3, <2>4, <3>2
    <2>6. Cardinality(Unreturned) \in Nat /\ Cardinality(PuttingBack) \in Nat /\ Len(held[t]) \in Nat
      BY <1>0, FS_CardinalityType DEF Counted
    <2>7. unfinished' = unfinished - Len(held[t])
      BY <1>2 DEF TasksDone
    <2> QED BY <1>0, <1>1, <2>5, <2>6, <2>7 DEF Counted
  <1>3. CASE t \in SyncCaller
    <2>1. \A j \in Items(held[t]) : stage[j] = "sync"
      BY <1>0, <1>3 DEF PlacedByKind, Holding
    <2>2. Unreturned' = Unreturned
      BY <1>1, <2>1 DEF Unreturned
    <2>3. unfinished' = unfinished
      BY <1>0, <1>3 DEF TasksDone
    <2> QED BY <1>0, <2>2, <2>3 DEF Counted
  <1> QED BY <1>2, <1>3 DEF Thread

\* submit puts one item more and counts it; run_sync's item is not counted.
LEMMA SubmitKeepsPool ==
  ASSUME PoolInv, NEW j \in Job, SubmitStep(j) \/ \E t \in SyncCaller : RunSync(t, j)
  PROVE  PoolInv'
  <1>0. /\ ItemInv /\ HoldsInTurn /\ PlacedByKind /\ AllPlaced /\ Counted
        /\ Worker \cap SyncCaller = {} /\ Thread = Worker \cup SyncCaller
        /\ stage \in [Job -> {"new", "created", "logged", "submitted", "sync"}]
        /\ ThreadTypeOK /\ queue \in Seq(Job) /\ unfinished \in Int
        /\ Cardinality(Unreturned) \in Nat /\ Cardinality(PuttingBack) \in Nat
    BY StoreAssumption, FS_CardinalityType
    DEF PoolInv, ItemInv, TypeInv, TypeOK, QueueTypeOK, Thread, Counted
  <1>1. ItemInv'
    BY <1>0, SubmitItemInv, RunSyncItemInv
  <1>2. CASE CreateJob(j) \/ LogEnqueued(j)
    <2>1. /\ UNCHANGED <<queue, unfinished, pc, held, deferred, released>>
          /\ \A i \in Job \ {j} : stage'[i] = stage[i]
          /\ stage[j] \notin {"submitted", "sync"} /\ stage'[j] \notin {"submitted", "sync"}
      BY <1>0, <1>2 DEF CreateJob, LogEnqueued, queueVars, threadVars
    <2>2. /\ InFlight' = InFlight /\ Unreturned' = Unreturned /\ PuttingBack' = PuttingBack
          /\ \A t \in Thread : Holding(t)' = Holding(t)
      BY <2>1 DEF InFlight, Unreturned, PuttingBack, Holding
    <2>3. Counted'
      BY <1>0, <2>1, <2>2, SameCounts
    <2>4. HoldsInTurn' /\ AllPlaced'
      BY <1>0, <2>1, <2>2 DEF HoldsInTurn, AllPlaced
    <2>5. PlacedByKind'
      <3>1. /\ Items(queue) \subseteq Entered
            /\ \A t \in Thread : Holding(t) \subseteq Entered
            /\ j \notin Entered
        BY <1>0, <2>1 DEF ItemInv, PlacedIsSubmitted, Entered
      <3>2. \A i \in Entered : stage'[i] = stage[i]
        BY <2>1, <3>1 DEF Entered
      <3> QED BY <1>0, <2>1, <2>2, <3>1, <3>2 DEF PlacedByKind
    <2> QED BY <1>1, <2>3, <2>4, <2>5 DEF PoolInv
  <1>3. CASE Put(j)
    <2>1. /\ UNCHANGED <<pc, held, deferred, released>> /\ unfinished' = unfinished + 1
          /\ stage'[j] = "submitted" /\ \A i \in Job \ {j} : stage'[i] = stage[i]
          /\ stage[j] = "logged" /\ Items(queue') = Items(queue) \cup {j}
      BY <1>0, <1>3, ItemsOfAppend DEF Put, threadVars
    <2>2. j \notin Entered /\ j \notin released
      BY <1>0, <2>1 DEF Entered, ItemInv, PlacedIsSubmitted
    <2>3. /\ InFlight' = InFlight \cup {j} /\ Unreturned' = Unreturned \cup {j}
          /\ PuttingBack' = PuttingBack /\ j \notin Unreturned
          /\ \A t \in Thread : Holding(t)' = Holding(t)
      BY <1>0, <2>1, <2>2 DEF InFlight, Unreturned, PuttingBack, Holding
    <2>4. IsFiniteSet(Unreturned') /\ Cardinality(Unreturned') = Cardinality(Unreturned) + 1
      BY <1>0, <2>3, FS_AddElement DEF Counted
    <2>5. Counted'
      BY <1>0, <2>1, <2>3, <2>4 DEF Counted
    <2>6. HoldsInTurn' /\ AllPlaced'
      BY <1>0, <2>1, <2>3 DEF HoldsInTurn, AllPlaced
    <2>7. PlacedByKind'
      <3>1. /\ Items(queue) \subseteq Entered
            /\ \A t \in Thread : Holding(t) \subseteq Entered
        BY <1>0 DEF ItemInv, PlacedIsSubmitted
      <3>2. \A i \in Entered : stage'[i] = stage[i]
        BY <2>1, <2>2 DEF Entered
      <3> QED BY <1>0, <2>1, <2>3, <3>1, <3>2 DEF PlacedByKind
    <2> QED BY <1>1, <2>5, <2>6, <2>7 DEF PoolInv
  <1>4. ASSUME NEW t \in SyncCaller, RunSync(t, j) PROVE PoolInv'
    <2>1. /\ t \in Thread /\ t \notin Worker /\ UNCHANGED <<queue, unfinished, deferred, released>>
          /\ stage'[j] = "sync" /\ \A i \in Job \ {j} : stage'[i] = stage[i]
          /\ stage[j] = "logged" /\ pc[t] = "idle" /\ pc'[t] = "read"
          /\ held'[t] = <<j>> /\ held[t] = << >> /\ deferred[t] = << >>
          /\ \A u \in Thread \ {t} : pc'[u] = pc[u] /\ held'[u] = held[u]
      BY <1>0, <1>4, ZenonT(60) DEF RunSync, queueVars, ThreadTypeOK, HoldsInTurn, Collecting
    <2>2. /\ Items(held'[t]) = {j} /\ Items(deferred'[t]) = {} /\ held'[t] # << >>
          /\ Holding(t) = {}
      BY <2>1, ItemsOfSingleton, ItemsOfEmpty DEF Holding
    <2>3. /\ Holding(t)' = {j}
          /\ \A u \in Thread \ {t} : Holding(u)' = Holding(u)
      BY <2>1, <2>2 DEF Holding
    <2>4. j \notin Entered
      BY <2>1 DEF Entered
    <2>5. InFlight' \subseteq InFlight \cup {j} /\ Unreturned' = Unreturned
      BY <1>0, <2>1 DEF InFlight, Unreturned
    <2>6. PuttingBack' = PuttingBack
      BY <1>0, <2>1 DEF PuttingBack
    <2>7. Counted'
      BY <1>0, <2>1, <2>5, <2>6, SameCounts
    <2>8. HoldsInTurn'
      BY <1>0, <2>1, <2>2 DEF HoldsInTurn, Collecting
    <2>9. AllPlaced'
      BY <1>0, <2>1, <2>2, <2>3, <2>5 DEF AllPlaced
    <2>10. PlacedByKind'
      <3>1. /\ Items(queue) \subseteq Entered
            /\ \A u \in Thread : Holding(u) \subseteq Entered
        BY <1>0 DEF ItemInv, PlacedIsSubmitted
      <3>2. \A i \in Entered : stage'[i] = stage[i]
        BY <2>1, <2>4 DEF Entered
      <3>3. \A w \in Worker : w \in Thread \ {t}
        BY <1>0, <2>1
      <3> QED BY <1>0, <2>1, <2>3, <3>1, <3>2, <3>3 DEF PlacedByKind
    <2> QED BY <1>1, <2>7, <2>8, <2>9, <2>10 DEF PoolInv
  <1> QED BY <1>2, <1>3, <1>4 DEF SubmitStep

\* Only RequeueCounts and Requeue change who is putting an item back.
LEMMA SamePutters ==
  ASSUME ThreadTypeOK, NEW t \in Thread, \A u \in Thread \ {t} : pc'[u] = pc[u],
         pc[t] # "putBack", pc'[t] # "putBack"
  PROVE  PuttingBack' = PuttingBack
  <1>1. ASSUME NEW w \in Worker PROVE pc'[w] = "putBack" <=> pc[w] = "putBack"
    <2>1. w \in Thread
      BY DEF Thread
    <2>2. CASE w = t
      BY <2>2
    <2>3. CASE w # t
      BY <2>1, <2>3
    <2> QED BY <2>2, <2>3
  <1> QED BY <1>1 DEF PuttingBack

\* Worker.run and collect_matching.
LEMMA CollectKeepsPool ==
  ASSUME PoolInv, NEW w \in Worker, CollectStep(w)
  PROVE  PoolInv'
  <1>0. /\ ItemInv /\ HoldsInTurn /\ Counted /\ ThreadTypeOK /\ w \in Thread
        /\ queue \in Seq(Job) /\ held[w] \in Seq(Job) /\ deferred[w] \in Seq(Job)
        /\ unfinished \in Int /\ NoDuplicates(queue) /\ NoDuplicates(deferred[w])
        /\ Cardinality(Unreturned) \in Nat /\ Cardinality(PuttingBack) \in Nat
    BY FS_CardinalityType
    DEF PoolInv, ItemInv, TypeInv, TypeOK, QueueTypeOK, ThreadTypeOK, Thread, Counted,
        ExclusiveItems
  <1>1. ItemInv' /\ UNCHANGED stage
    <2>1. ItemInv'
      BY <1>0, CollectTypeInv, CollectPlaces, CollectActive DEF ItemInv
    <2>2. UNCHANGED stage
      BY CollectStep(w)
      DEF CollectStep, Take, Collect, CollectEnds, RequeueCounts, Requeue, RequeueEnds, Dispatch,
          Filter
    <2> QED BY <2>1, <2>2
  <1>2. Holding(w)' = Items(held'[w]) \cup Items(deferred'[w])
    BY DEF Holding
  <1>3. CASE Take(w)
    <2>1. /\ queue # << >> /\ queue' = Tail(queue) /\ held'[w] = <<Head(queue)>>
          /\ UNCHANGED <<deferred, released, unfinished>> /\ held[w] = << >>
          /\ deferred[w] = << >> /\ pc[w] = "idle" /\ pc'[w] \in {"collect", "dispatch"}
          /\ \A u \in Thread \ {w} : /\ held'[u] = held[u] /\ pc'[u] = pc[u]
                                     /\ deferred'[u] = deferred[u]
      BY <1>0, <1>3 DEF Take, GoTo, HoldsInTurn, Collecting, ThreadTypeOK
    <2>2. /\ Items(queue) = Items(queue') \cup {Head(queue)}
          /\ Head(queue) \notin Items(queue') /\ Items(held'[w]) = {Head(queue)}
          /\ held'[w] # << >> /\ Items(<< >>) = {}
      BY <1>0, <2>1, ItemsOfTail, ItemsOfSingleton, ItemsOfEmpty
    <2>3. Holding(w)' = {Head(queue)} /\ Holding(w) = {}
      BY <1>2, <2>1, <2>2 DEF Holding
    <2>4. Counted'
      <3>1. PuttingBack' = PuttingBack
        BY <1>0, <2>1, SamePutters
      <3>2. Unreturned' = Unreturned
        BY <1>1, <2>1 DEF Unreturned, InFlight
      <3> QED BY <1>0, <2>1, <3>1, <3>2, SameCounts
    <2> QED BY <1>0, <1>1, <2>1, <2>2, <2>3, <2>4, ThreadKeepsPool
  <1>4. CASE Collect(w)
    <2>1. /\ queue # << >> /\ queue' = Tail(queue) /\ UNCHANGED <<pc, released, unfinished>>
          /\ pc[w] = "collect" /\ held[w] # << >>
          /\ \A u \in Thread \ {w} : held'[u] = held[u] /\ deferred'[u] = deferred[u]
          /\ \/ held'[w] = Append(held[w], Head(queue)) /\ deferred'[w] = deferred[w]
             \/ deferred'[w] = Append(deferred[w], Head(queue)) /\ held'[w] = held[w]
      BY <1>0, <1>4 DEF Collect, HoldsInTurn, ThreadTypeOK
    <2>2. /\ Items(queue) = Items(queue') \cup {Head(queue)}
          /\ Head(queue) \notin Items(queue') /\ Head(queue) \in Job
      BY <1>0, <2>1, ItemsOfTail
    <2>3. /\ Items(Append(held[w], Head(queue))) = Items(held[w]) \cup {Head(queue)}
          /\ Items(Append(deferred[w], Head(queue))) = Items(deferred[w]) \cup {Head(queue)}
          /\ Append(held[w], Head(queue)) # << >>
      BY <1>0, <2>2, ItemsOfAppend
    <2>4. Holding(w)' = Holding(w) \cup {Head(queue)} /\ held'[w] # << >>
      BY <1>2, <2>1, <2>3 DEF Holding
    <2>5. Counted'
      <3>1. Unreturned' = Unreturned /\ PuttingBack' = PuttingBack
        BY <1>1, <2>1 DEF Unreturned, InFlight, PuttingBack
      <3> QED BY <1>0, <2>1, <3>1, SameCounts
    <2>6. pc'[w] = "collect" /\ \A u \in Thread \ {w} : pc'[u] = pc[u]
      BY <2>1
    <2> QED BY <1>0, <1>1, <2>1, <2>2, <2>4, <2>5, <2>6, ThreadKeepsPool DEF Collecting
  <1>5. CASE RequeueCounts(w)
    <2>1. /\ UNCHANGED <<queue, held, deferred, released>> /\ unfinished' = unfinished - 1
          /\ pc[w] = "requeue" /\ pc'[w] = "putBack" /\ held[w] # << >> /\ deferred[w] # << >>
          /\ \A u \in Thread \ {w} : pc'[u] = pc[u]
      BY <1>0, <1>5 DEF RequeueCounts, GoTo, HoldsInTurn, ThreadTypeOK
    <2>2. PuttingBack' = PuttingBack \cup {w} /\ w \notin PuttingBack
      BY <1>0, <2>1 DEF PuttingBack, Thread
    <2>3. IsFiniteSet(PuttingBack') /\ Cardinality(PuttingBack') = Cardinality(PuttingBack) + 1
      BY <1>0, <2>2, FS_AddElement DEF Counted
    <2>4. Unreturned' = Unreturned
      BY <1>1, <2>1 DEF Unreturned, InFlight
    <2>5. Counted'
      BY <1>0, <2>1, <2>3, <2>4 DEF Counted
    <2>6. Holding(w)' = Holding(w)
      BY <2>1 DEF Holding
    <2> QED BY <1>0, <1>1, <2>1, <2>5, <2>6, ThreadKeepsPool DEF Collecting
  <1>6. CASE Requeue(w)
    <2>1. /\ deferred[w] # << >> /\ queue' = Append(queue, Head(deferred[w]))
          /\ deferred'[w] = Tail(deferred[w]) /\ UNCHANGED <<held, released>>
          /\ unfinished' = unfinished + 1 /\ held[w] # << >>
          /\ pc[w] = "putBack" /\ pc'[w] = "requeue"
          /\ \A u \in Thread \ {w} : pc'[u] = pc[u] /\ deferred'[u] = deferred[u]
      BY <1>0, <1>6 DEF Requeue, GoTo, HoldsInTurn, ThreadTypeOK
    <2>2. /\ Items(deferred[w]) = Items(deferred'[w]) \cup {Head(deferred[w])}
          /\ Head(deferred[w]) \in Job
          /\ Items(queue') = Items(queue) \cup {Head(deferred[w])}
      BY <1>0, <2>1, ItemsOfTail, ItemsOfAppend
    <2>3. PuttingBack' = PuttingBack \ {w} /\ w \in PuttingBack
      BY <1>0, <2>1 DEF PuttingBack, Thread
    <2>4. IsFiniteSet(PuttingBack') /\ Cardinality(PuttingBack') = Cardinality(PuttingBack) - 1
      BY <1>0, <2>3, FS_RemoveElement DEF Counted
    <2>5. Unreturned' = Unreturned
      BY <1>1, <2>1 DEF Unreturned, InFlight
    <2>6. Counted'
      BY <1>0, <2>1, <2>4, <2>5 DEF Counted
    <2>7. /\ Holding(w)' \subseteq Holding(w)
          /\ Items(queue) \cup Holding(w) \subseteq Items(queue') \cup Holding(w)'
          /\ Items(queue') \subseteq Items(queue) \cup Holding(w)
      BY <1>2, <2>1, <2>2 DEF Holding
    <2> QED BY <1>0, <1>1, <2>1, <2>6, <2>7, ThreadKeepsPool DEF Collecting
  <1>7. CASE CollectEnds(w) \/ RequeueEnds(w) \/ Filter(w)
    <2>1. /\ UNCHANGED <<queue, held, deferred, released, unfinished>>
          /\ pc[w] \notin {"idle", "dead", "putBack"} /\ pc'[w] \notin {"idle", "dead", "putBack"}
          /\ pc'[w] \notin Collecting => deferred[w] = << >>
          /\ \A u \in Thread \ {w} : pc'[u] = pc[u]
      BY <1>0, <1>7
      DEF CollectEnds, RequeueEnds, Filter, GoTo, queueVars, HoldsInTurn, Collecting, ThreadTypeOK
    <2>2. held[w] # << >> /\ Holding(w)' = Holding(w)
      BY <1>0, <2>1 DEF HoldsInTurn, Holding
    <2>3. Counted'
      <3>1. PuttingBack' = PuttingBack
        BY <1>0, <2>1, SamePutters
      <3>2. Unreturned' = Unreturned
        BY <1>1, <2>1 DEF Unreturned, InFlight
      <3> QED BY <1>0, <2>1, <3>1, <3>2, SameCounts
    <2> QED BY <1>0, <1>1, <2>1, <2>2, <2>3, ThreadKeepsPool
  <1>8. CASE Dispatch(w)
    <2>1. /\ UNCHANGED <<queue, deferred>> /\ pc[w] = "dispatch" /\ deferred[w] = << >>
          /\ held[w] # << >>
          /\ pc'[w] \in {"read", "filter", "dead"}
          /\ \A u \in Thread \ {w} : pc'[u] = pc[u] /\ held'[u] = held[u]
      BY <1>0, <1>8 DEF Dispatch, GoTo, HoldsInTurn, Collecting, ThreadTypeOK
    <2>2. \/ /\ UNCHANGED <<held, unfinished, released>> /\ pc'[w] # "dead"
          \/ /\ pc'[w] = "dead" /\ unfinished' = unfinished - TasksDone(w)
             /\ released' = released \cup Items(held[w]) /\ held'[w] = << >>
      BY <1>0, <1>8 DEF Dispatch, GoTo, ThreadTypeOK
    <2>3. PuttingBack' = PuttingBack
      BY <1>0, <2>1, SamePutters
    <2>4. CASE UNCHANGED <<held, unfinished, released>> /\ pc'[w] # "dead"
      <3>1. Unreturned' = Unreturned /\ Holding(w)' = Holding(w)
        BY <1>1, <2>1, <2>4 DEF Unreturned, InFlight, Holding
      <3>2. Counted'
        BY <1>0, <2>3, <2>4, <3>1, SameCounts
      <3> QED BY <1>0, <1>1, <2>1, <2>4, <3>1, <3>2, ThreadKeepsPool
    <2>5. CASE /\ pc'[w] = "dead" /\ unfinished' = unfinished - TasksDone(w)
               /\ released' = released \cup Items(held[w]) /\ held'[w] = << >>
      <3>1. Counted'
        BY <1>0, <1>1, <2>3, <2>5, GiveBackCounts
      <3>2. Holding(w)' = {} /\ Holding(w) = Items(held[w])
        BY <1>2, <2>1, <2>5, ItemsOfEmpty DEF Holding
      <3> QED BY <1>0, <1>1, <2>1, <2>5, <3>1, <3>2, ThreadKeepsPool
    <2> QED BY <2>2, <2>4, <2>5
  <1> QED BY CollectStep(w), <1>3, <1>4, <1>5, <1>6, <1>7, <1>8 DEF CollectStep

\* _execute and _execute_batch, and the return of the items.
LEMMA ExecuteKeepsPool ==
  ASSUME PoolInv, NEW t \in Thread, ExecuteStep(t)
  PROVE  PoolInv'
  <1>0. /\ ItemInv /\ HoldsInTurn /\ Counted /\ ThreadTypeOK
    BY DEF PoolInv, ItemInv, TypeInv, TypeOK
  <1>1. ItemInv' /\ UNCHANGED <<stage, queue, deferred>>
    <2>1. UNCHANGED <<stage, queue, deferred>>
      BY ExecuteStep(t)
      DEF ExecuteStep, ReadJob, SaveRunning, LogStarted, Run, BuildFails, Emit, Compute, ReadBack,
          SaveFinal, LogFinal, Release, queueVars
    <2> QED BY <1>0, <2>1, ExecuteItemInv
  <1>2. CASE Release(t)
    <2>1. /\ pc[t] = "release" /\ pc'[t] = "idle" /\ deferred[t] = << >> /\ held'[t] = << >>
          /\ unfinished' = unfinished - TasksDone(t) /\ released' = released \cup Items(held[t])
          /\ \A u \in Thread \ {t} : pc'[u] = pc[u] /\ held'[u] = held[u]
      BY <1>0, <1>2 DEF Release, GoTo, HoldsInTurn, Collecting, ThreadTypeOK
    <2>2. PuttingBack' = PuttingBack
      BY <1>0, <2>1, SamePutters
    <2>3. Counted'
      BY <1>1, <2>1, <2>2, GiveBackCounts
    <2>4. Holding(t)' = {} /\ Holding(t) = Items(held[t])
      BY <1>1, <2>1, ItemsOfEmpty DEF Holding
    <2> QED BY <1>1, <2>1, <2>3, <2>4, ThreadKeepsPool
  <1>3. CASE ~Release(t)
    <2>1. /\ UNCHANGED <<held, released, unfinished>> /\ pc[t] \in Walking
      BY <1>3, ExecuteStep(t)
      DEF ExecuteStep, ReadJob, SaveRunning, LogStarted, Run, BuildFails, Emit, Compute, ReadBack,
          SaveFinal, LogFinal, queueVars, Walking
    <2>2. /\ pc'[t] \in Walking \cup {"release"}
          /\ \A u \in Thread \ {t} : pc'[u] = pc[u]
      <3>1. CASE ReadJob(t) \/ SaveRunning(t) \/ Run(t) \/ BuildFails(t) \/ Compute(t)
                 \/ ReadBack(t) \/ SaveFinal(t)
        BY <1>0, <3>1
        DEF ReadJob, SaveRunning, Run, BuildFails, Compute, ReadBack, SaveFinal, GoTo, Walking,
            ThreadTypeOK
      <3>2. CASE LogStarted(t) \/ Emit(t) \/ LogFinal(t)
        BY <1>0, <3>2
        DEF LogStarted, Emit, AfterEmit, LogFinal, NextItem, GoTo, Walking, ThreadTypeOK
      <3> QED BY <1>3, ExecuteStep(t), <3>1, <3>2 DEF ExecuteStep
    <2>3. /\ held[t] # << >> /\ deferred[t] = << >>
          /\ pc[t] # "putBack" /\ pc'[t] \notin {"putBack", "idle", "dead"}
      BY <1>0, <2>1, <2>2 DEF HoldsInTurn, Walking, Collecting
    <2>4. PuttingBack' = PuttingBack
      BY <1>0, <2>2, <2>3, SamePutters
    <2>5. Unreturned' = Unreturned /\ Holding(t)' = Holding(t)
      BY <1>1, <2>1 DEF Unreturned, InFlight, Holding
    <2>6. Counted'
      BY <1>0, <2>1, <2>4, <2>5, SameCounts
    <2> QED BY <1>1, <2>1, <2>2, <2>3, <2>5, <2>6, ThreadKeepsPool
  <1> QED BY <1>2, <1>3

\* Every step keeps the pool.
LEMMA NextPool == PoolInv /\ [Next]_vars => PoolInv'
  <1> SUFFICES ASSUME PoolInv, [Next]_vars PROVE PoolInv'
    OBVIOUS
  <1>0. ItemInv'
    BY NextItemInv DEF PoolInv
  <1>1. ASSUME UNCHANGED <<stage, queue, unfinished, pc, held, deferred, released>>
        PROVE  PoolInv'
    <2>1. /\ \A t \in Thread : Holding(t)' = Holding(t)
          /\ InFlight' = InFlight /\ Unreturned' = Unreturned /\ PuttingBack' = PuttingBack
      BY <1>1 DEF Holding, InFlight, Unreturned, PuttingBack
    <2> QED
      BY <1>0, <1>1, <2>1 DEF PoolInv, HoldsInTurn, PlacedByKind, AllPlaced, Counted, Thread
  <1>2. ASSUME NEW c \in Canceller, CancelStep(c) \/ \E j \in Job : CancelReads(c, j)
        PROVE  PoolInv'
    BY <1>1, <1>2
    DEF CancelStep, CancelReads, CancelSaves, CancelLogs, CancelReturns, threadVars, queueVars
  <1>3. CASE UNCHANGED vars
    BY <1>1, <1>3 DEF vars, threadVars, queueVars
  <1> QED
    BY <1>2, <1>3, SubmitKeepsPool, CollectKeepsPool, ExecuteKeepsPool DEF Next

\* No item is lost on its way through the queue, the batches and the set-aside
\* lists, and the queue's counter of unfinished tasks is exact.
THEOREM NothingIsLost == Spec => []NoItemLost
  BY InitPool, NextPool, PoolHoldsAll, PTL DEF Spec

-------------------------------------------------------------------------------
(* The refinement.  The place of an item is a function of the state because *)
(* the item is in one place only.                                          *)

\* The place of an item is the thread that holds it, or else says where it is.
LEMMA PlaceIs ==
  ASSUME ExclusiveItems, NEW j \in Job
  PROVE  /\ \A t \in Thread : j \in Holding(t) => PlaceOf(j) = t
         /\ (\A t \in Thread : j \notin Holding(t)) =>
              PlaceOf(j) = IF j \in released THEN "done"
                           ELSE IF j \in Items(queue) THEN "waiting" ELSE "absent"
  <1>1. ASSUME NEW t \in Thread, j \in Holding(t) PROVE PlaceOf(j) = t
    <2>1. \A u \in Thread : j \in Holding(u) => u = t
      BY <1>1 DEF ExclusiveItems
    <2>2. PlaceOf(j) = CHOOSE u \in Thread : j \in Holding(u)
      BY <1>1 DEF PlaceOf
    <2> QED BY <1>1, <2>1, <2>2
  <1>2. ASSUME \A t \in Thread : j \notin Holding(t)
        PROVE  PlaceOf(j) = IF j \in released THEN "done"
                            ELSE IF j \in Items(queue) THEN "waiting" ELSE "absent"
    BY <1>2 DEF PlaceOf
  <1> QED BY <1>1, <1>2

\* The same after a step.
LEMMA PlaceIsNext ==
  ASSUME ExclusiveItems', NEW j \in Job
  PROVE  /\ \A t \in Thread : j \in Holding(t)' => PlaceOf(j)' = t
         /\ (\A t \in Thread : j \notin Holding(t)') =>
              PlaceOf(j)' = IF j \in released' THEN "done"
                            ELSE IF j \in Items(queue') THEN "waiting" ELSE "absent"
  <1>1. ASSUME NEW t \in Thread, j \in Holding(t)' PROVE PlaceOf(j)' = t
    <2>1. \A u \in Thread : j \in Holding(u)' => u = t
      BY <1>1 DEF ExclusiveItems
    <2>2. PlaceOf(j)' = CHOOSE u \in Thread : j \in Holding(u)'
      BY <1>1 DEF PlaceOf
    <2> QED BY <1>1, <2>1, <2>2
  <1>2. ASSUME \A t \in Thread : j \notin Holding(t)'
        PROVE  PlaceOf(j)' = IF j \in released' THEN "done"
                             ELSE IF j \in Items(queue') THEN "waiting" ELSE "absent"
    BY <1>2 DEF PlaceOf
  <1> QED BY <1>1, <1>2

\* An item that nothing touches stays where it is.
LEMMA PlaceStays ==
  ASSUME ExclusiveItems, ExclusiveItems', NEW j \in Job,
         \A t \in Thread : j \in Holding(t)' <=> j \in Holding(t),
         j \in released' <=> j \in released,
         j \in Items(queue') <=> j \in Items(queue)
  PROVE  PlaceOf(j)' = PlaceOf(j)
  <1>1. CASE \E t \in Thread : j \in Holding(t)
    BY <1>1, PlaceIs, PlaceIsNext
  <1>2. CASE \A t \in Thread : j \notin Holding(t)
    BY <1>2, PlaceIs, PlaceIsNext
  <1> QED BY <1>1, <1>2

\* A step that puts the items of a set somewhere is a move of the work pool.
LEMMA IsMove ==
  ASSUME NEW S, NEW target, runs' = runs,
         \A j \in Job : PlaceOf(j)' = IF j \in S THEN target ELSE PlaceOf(j)
  PROVE  Pool!Move(S, target)
  BY DEF Pool!Move

\* The pool's view of the state does not change.
LEMMA IsStutter ==
  ASSUME runs' = runs, \A j \in Job : PlaceOf(j)' = PlaceOf(j)
  PROVE  UNCHANGED <<[j \in Job |-> PlaceOf(j)], runs>>
  OBVIOUS

\* A queued item, or one that a worker set aside, was not run.
LEMMA AsideNotRun ==
  ASSUME PoolInv, NEW w \in Thread, pc[w] \notin Ran, NEW j \in Job, j \in Holding(w)
  PROVE  runs[j] = 0
  <1>1. ExclusiveItems /\ RunIsRemembered
    BY DEF PoolInv, ItemInv
  <1>2. j \notin released /\ \A u \in Thread \ {w} : j \notin Items(held[u])
    BY <1>1 DEF ExclusiveItems, Holding
  <1> QED BY <1>1, <1>2 DEF RunIsRemembered

\* submit and run_sync: an item enters.
LEMMA SubmitIsPool ==
  ASSUME PoolInv, ExclusiveItems', NEW j \in Job,
         SubmitStep(j) \/ \E t \in SyncCaller : RunSync(t, j)
  PROVE  Pool!WorkPoolNext \/ UNCHANGED <<[i \in Job |-> PlaceOf(i)], runs>>
  <1>0. /\ ExclusiveItems /\ PlacedIsSubmitted /\ HoldsInTurn /\ ThreadTypeOK
        /\ queue \in Seq(Job) /\ SyncCaller \subseteq Thread /\ Worker \subseteq Thread
    BY DEF PoolInv, ItemInv, TypeInv, TypeOK, QueueTypeOK, Thread
  <1>1. CASE CreateJob(j) \/ LogEnqueued(j)
    <2>1. UNCHANGED <<queue, held, deferred, released, runs>>
      BY <1>1 DEF CreateJob, LogEnqueued, queueVars, threadVars
    <2>2. \A t \in Thread : Holding(t)' = Holding(t)
      BY <2>1 DEF Holding
    <2>3. \A i \in Job : PlaceOf(i)' = PlaceOf(i)
      BY <1>0, <2>1, <2>2, PlaceStays
    <2> QED BY <2>1, <2>3, IsStutter
  <1>2. ASSUME stage[j] = "logged"
        PROVE  /\ j \notin Items(queue) /\ j \notin released
               /\ \A t \in Thread : j \notin Holding(t)
               /\ PlaceOf(j) = "absent"
    <2>1. j \notin Entered
      BY <1>2 DEF Entered
    <2> QED BY <1>0, <2>1, PlaceIs DEF PlacedIsSubmitted
  <1>3. CASE Put(j)
    <2>1. /\ UNCHANGED <<held, deferred, released, runs>> /\ stage[j] = "logged"
          /\ Items(queue') = Items(queue) \cup {j}
      BY <1>0, <1>3, ItemsOfAppend DEF Put, threadVars
    <2>2. \A t \in Thread : Holding(t)' = Holding(t)
      BY <2>1 DEF Holding
    <2>3. PlaceOf(j)' = "waiting"
      BY <1>0, <1>2, <2>1, <2>2, PlaceIsNext
    <2>4. ASSUME NEW i \in Job, i # j PROVE PlaceOf(i)' = PlaceOf(i)
      BY <1>0, <2>1, <2>2, <2>4, PlaceStays
    <2>5. Pool!Move({j}, "waiting")
      BY <2>1, <2>3, <2>4, IsMove
    <2>6. Pool!Submit(j)
      BY <1>2, <2>1, <2>5 DEF Pool!Submit
    <2> QED BY <2>6 DEF Pool!WorkPoolNext
  <1>4. ASSUME NEW t \in SyncCaller, RunSync(t, j)
        PROVE  Pool!WorkPoolNext
    <2>1. /\ UNCHANGED <<queue, deferred, released, runs>> /\ stage[j] = "logged"
          /\ held[t] = << >> /\ held'[t] = <<j>>
          /\ \A u \in Thread \ {t} : held'[u] = held[u]
      BY <1>0, <1>4 DEF RunSync, queueVars, HoldsInTurn, ThreadTypeOK
    <2>2. Items(held'[t]) = {j} /\ Items(held[t]) = {}
      BY <2>1, ItemsOfSingleton, ItemsOfEmpty
    <2>3. /\ Holding(t)' = Holding(t) \cup {j}
          /\ \A u \in Thread \ {t} : Holding(u)' = Holding(u)
      BY <2>1, <2>2 DEF Holding
    <2>4. PlaceOf(j)' = t
      BY <1>0, <2>3, PlaceIsNext
    <2>5. ASSUME NEW i \in Job, i # j PROVE PlaceOf(i)' = PlaceOf(i)
      BY <1>0, <2>1, <2>3, <2>5, PlaceStays
    <2>6. Pool!Move({j}, t)
      BY <2>1, <2>4, <2>5, IsMove
    <2>7. Pool!Bring(t, j)
      BY <1>2, <2>1, <2>6 DEF Pool!Bring
    <2> QED BY <1>0, <2>7 DEF Pool!WorkPoolNext
  <1> QED BY <1>1, <1>3, <1>4 DEF SubmitStep

\* What a thread gives back it has finished.
LEMMA IsFinish ==
  ASSUME PoolInv, ExclusiveItems', NEW t \in Thread, deferred[t] = << >>,
         UNCHANGED <<queue, deferred, runs>>,
         held'[t] = << >>, released' = released \cup Items(held[t]),
         \A u \in Thread \ {t} : held'[u] = held[u]
  PROVE  Pool!WorkPoolNext
  <1>0. ExclusiveItems
    BY DEF PoolInv, ItemInv
  <1>1. /\ Holding(t) = Items(held[t]) /\ Holding(t)' = {}
        /\ \A u \in Thread \ {t} : Holding(u)' = Holding(u)
    BY ItemsOfEmpty DEF Holding
  <1>2. ASSUME NEW j \in Job PROVE j \in Holding(t) <=> PlaceOf(j) = t
    <2>1. CASE \E u \in Thread : j \in Holding(u)
      BY <1>0, <2>1, PlaceIs
    <2>2. CASE \A u \in Thread : j \notin Holding(u)
      BY <1>0, <2>2, PlaceIs, PlaceAssumption
    <2> QED BY <2>1, <2>2
  <1>3. ASSUME NEW j \in Job, j \in Holding(t) PROVE PlaceOf(j)' = "done"
    <2>1. \A u \in Thread : j \notin Holding(u)'
      BY <1>0, <1>1, <1>3 DEF ExclusiveItems
    <2> QED BY <1>1, <1>3, <2>1, PlaceIsNext
  <1>4. ASSUME NEW j \in Job, j \notin Holding(t) PROVE PlaceOf(j)' = PlaceOf(j)
    BY <1>0, <1>1, <1>4, PlaceStays
  <1> DEFINE S == {j \in Job : [i \in Job |-> PlaceOf(i)][j] = t}
  <1>5. \A j \in Job : j \in S <=> j \in Holding(t)
    BY <1>2
  <1>6. Pool!Move(S, "done")
    BY <1>3, <1>4, <1>5, IsMove
  <1>7. Pool!FinishAll(t)
    BY <1>6 DEF Pool!FinishAll
  <1> QED BY <1>7 DEF Pool!WorkPoolNext

\* Worker.run and collect_matching: a worker takes the head of the queue, or
\* puts back what it set aside, or is taken down with what it has.
LEMMA CollectIsPool ==
  ASSUME PoolInv, ExclusiveItems', NEW w \in Worker, CollectStep(w)
  PROVE  Pool!WorkPoolNext \/ UNCHANGED <<[i \in Job |-> PlaceOf(i)], runs>>
  <1>0. /\ ExclusiveItems /\ HoldsInTurn /\ ThreadTypeOK /\ w \in Thread /\ runs' = runs
        /\ queue \in Seq(Job) /\ held[w] \in Seq(Job) /\ deferred[w] \in Seq(Job)
    <2>1. runs' = runs
      BY CollectStep(w)
      DEF CollectStep, Take, Collect, CollectEnds, RequeueCounts, Requeue, RequeueEnds, Dispatch,
          Filter
    <2> QED
      BY <2>1
      DEF PoolInv, ItemInv, TypeInv, TypeOK, QueueTypeOK, ThreadTypeOK, Thread
  <1>1. Holding(w) = Items(held[w]) \cup Items(deferred[w])
    BY DEF Holding
  <1>2. Holding(w)' = Items(held'[w]) \cup Items(deferred'[w])
    BY DEF Holding
  <1>3. CASE Take(w) \/ Collect(w)
    <2>0. queue # << >> /\ queue' = Tail(queue) /\ UNCHANGED released
      BY <1>3 DEF Take, Collect
    <2>1. \A u \in Thread \ {w} : held'[u] = held[u] /\ deferred'[u] = deferred[u]
      <3>1. CASE Take(w)
        BY <1>0, <3>1 DEF Take, ThreadTypeOK
      <3>2. CASE Collect(w)
        BY <1>0, <3>2 DEF Collect, ThreadTypeOK
      <3> QED BY <1>3, <3>1, <3>2
    <2> PICK h \in Job : h = Head(queue)
      BY <1>0, <2>0, ItemsOfTail
    <2>2. Items(queue) = Items(queue') \cup {h} /\ h \notin Items(queue')
      BY <1>0, <2>0, ItemsOfTail DEF ExclusiveItems
    <2>3. Holding(w)' = Holding(w) \cup {h}
      <3>1. CASE Take(w)
        <4>1. held[w] = << >> /\ held'[w] = <<h>> /\ deferred'[w] = deferred[w]
          BY <1>0, <3>1 DEF Take, HoldsInTurn, ThreadTypeOK
        <4> QED BY <1>1, <1>2, <4>1, ItemsOfSingleton, ItemsOfEmpty
      <3>2. CASE Collect(w)
        <4>1. \/ held'[w] = Append(held[w], h) /\ deferred'[w] = deferred[w]
              \/ deferred'[w] = Append(deferred[w], h) /\ held'[w] = held[w]
          BY <1>0, <3>2 DEF Collect, ThreadTypeOK
        <4>2. /\ Items(Append(held[w], h)) = Items(held[w]) \cup {h}
              /\ Items(Append(deferred[w], h)) = Items(deferred[w]) \cup {h}
          BY <1>0, <2>2, ItemsOfAppend
        <4> QED BY <1>1, <1>2, <4>1, <4>2
      <3> QED BY <1>3, <3>1, <3>2
    <2>4. \A u \in Thread \ {w} : Holding(u)' = Holding(u)
      BY <2>1 DEF Holding
    <2>5. PlaceOf(h) = "waiting"
      <3>1. h \in Items(queue)
        BY <2>2
      <3>2. h \notin released /\ \A t \in Thread : h \notin Holding(t)
        BY <1>0, <3>1 DEF ExclusiveItems
      <3> QED BY <1>0, <2>2, <3>1, <3>2, PlaceIs
    <2>6. PlaceOf(h)' = w
      BY <1>0, <2>2, <2>3, PlaceIsNext
    <2>7. ASSUME NEW i \in Job, i # h PROVE PlaceOf(i)' = PlaceOf(i)
      BY <1>0, <2>0, <2>2, <2>3, <2>4, <2>7, PlaceStays
    <2>8. Pool!Move({h}, w)
      BY <1>0, <2>6, <2>7, IsMove
    <2>9. Pool!TakeItem(w, h)
      BY <2>2, <2>5, <2>8 DEF Pool!TakeItem
    <2> QED BY <1>0, <2>2, <2>9 DEF Pool!WorkPoolNext
  <1>4. CASE Requeue(w)
    <2>0. deferred[w] # << >>
      BY <1>4 DEF Requeue
    <2> PICK h \in Job : h = Head(deferred[w])
      BY <1>0, <2>0, ItemsOfTail
    <2>1. /\ queue' = Append(queue, h) /\ UNCHANGED <<held, released>>
          /\ deferred'[w] = Tail(deferred[w]) /\ pc[w] = "putBack"
          /\ \A u \in Thread \ {w} : deferred'[u] = deferred[u]
      BY <1>0, <1>4 DEF Requeue, ThreadTypeOK
    <2>2. /\ Items(deferred[w]) = Items(deferred'[w]) \cup {h} /\ h \in Job
          /\ h \notin Items(deferred'[w]) /\ Items(queue') = Items(queue) \cup {h}
      BY <1>0, <2>0, <2>1, ItemsOfTail, ItemsOfAppend DEF ExclusiveItems
    <2>3. /\ \A u \in Thread \ {w} : Holding(u)' = Holding(u)
          /\ Holding(w) = Holding(w)' \cup {h} /\ h \in Holding(w)
      BY <1>1, <1>2, <2>1, <2>2 DEF Holding
    <2>4. PlaceOf(h) = w
      BY <1>0, <2>2, <2>3, PlaceIs
    <2>5. PlaceOf(h)' = "waiting"
      <3>1. h \in Items(queue')
        BY <2>2
      <3>2. h \notin released' /\ \A t \in Thread : h \notin Holding(t)'
        BY <1>0, <3>1 DEF ExclusiveItems
      <3> QED BY <1>0, <2>2, <3>1, <3>2, PlaceIsNext
    <2>6. ASSUME NEW i \in Job, i # h PROVE PlaceOf(i)' = PlaceOf(i)
      BY <1>0, <2>1, <2>2, <2>3, <2>6, PlaceStays
    <2>7. runs[h] = 0
      BY <1>0, <2>1, <2>2, <2>3, AsideNotRun DEF Ran
    <2>8. Pool!Move({h}, "waiting")
      BY <1>0, <2>5, <2>6, IsMove
    <2>9. Pool!PutBack(w, h)
      BY <2>2, <2>4, <2>7, <2>8 DEF Pool!PutBack
    <2> QED BY <1>0, <2>2, <2>9 DEF Pool!WorkPoolNext
  <1>5. CASE Dispatch(w)
    <2>1. /\ UNCHANGED <<queue, deferred>> /\ deferred[w] = << >>
          /\ \/ UNCHANGED <<held, released>>
             \/ /\ held'[w] = << >> /\ released' = released \cup Items(held[w])
                /\ \A u \in Thread \ {w} : held'[u] = held[u]
      BY <1>0, <1>5 DEF Dispatch, HoldsInTurn, Collecting, ThreadTypeOK
    <2>2. CASE UNCHANGED <<held, released>>
      <3>1. \A t \in Thread : Holding(t)' = Holding(t)
        BY <2>1, <2>2 DEF Holding
      <3>2. \A i \in Job : PlaceOf(i)' = PlaceOf(i)
        BY <1>0, <2>1, <2>2, <3>1, PlaceStays
      <3> QED BY <1>0, <3>2, IsStutter
    <2> QED BY <1>0, <2>1, <2>2, IsFinish
  <1>6. CASE CollectEnds(w) \/ RequeueCounts(w) \/ RequeueEnds(w) \/ Filter(w)
    <2>1. UNCHANGED <<queue, held, deferred, released>>
      BY <1>6 DEF CollectEnds, RequeueCounts, RequeueEnds, Filter, queueVars
    <2>2. \A t \in Thread : Holding(t)' = Holding(t)
      BY <2>1 DEF Holding
    <2>3. \A i \in Job : PlaceOf(i)' = PlaceOf(i)
      BY <1>0, <2>1, <2>2, PlaceStays
    <2> QED BY <1>0, <2>3, IsStutter
  <1> QED BY CollectStep(w), <1>3, <1>4, <1>5, <1>6 DEF CollectStep

\* _execute and _execute_batch: the thread runs what is active, once, and
\* finishes what it holds.
LEMMA ExecuteIsPool ==
  ASSUME PoolInv, ExclusiveItems', NEW t \in Thread, ExecuteStep(t)
  PROVE  Pool!WorkPoolNext \/ UNCHANGED <<[i \in Job |-> PlaceOf(i)], runs>>
  <1>0. /\ ExclusiveItems /\ HoldsInTurn /\ ThreadTypeOK /\ ActiveIsHeld
        /\ active[t] \in Seq(Job) /\ runs \in [Job -> Nat]
    BY DEF PoolInv, ItemInv, TypeInv, TypeOK, ThreadTypeOK
  <1>1. CASE Release(t)
    <2>1. /\ UNCHANGED <<queue, deferred, runs>> /\ deferred[t] = << >>
          /\ held'[t] = << >> /\ released' = released \cup Items(held[t])
          /\ \A u \in Thread \ {t} : held'[u] = held[u]
      BY <1>0, <1>1 DEF Release, HoldsInTurn, Collecting, ThreadTypeOK
    <2> QED BY <2>1, IsFinish
  <1>2. ASSUME ~Release(t)
        PROVE  \A i \in Job : PlaceOf(i)' = PlaceOf(i)
    <2>1. UNCHANGED <<queue, held, deferred, released>>
      BY <1>2, ExecuteStep(t)
      DEF ExecuteStep, ReadJob, SaveRunning, LogStarted, Run, BuildFails, Emit, Compute, ReadBack,
          SaveFinal, LogFinal, queueVars
    <2>2. \A u \in Thread : Holding(u)' = Holding(u)
      BY <2>1 DEF Holding
    <2> QED BY <1>0, <2>1, <2>2, PlaceStays
  <1>3. CASE Run(t)
    <2> DEFINE S == Items(active[t])
    <2>1. /\ pc[t] = "run"
          /\ runs' = [j \in Job |-> IF j \in S THEN runs[j] + 1 ELSE runs[j]]
      BY <1>3 DEF Run
    <2>2. S \subseteq Holding(t) /\ S \subseteq Job
      <3>1. S \subseteq Items(held[t])
        BY <1>0, <2>1 DEF ActiveIsHeld, Walking
      <3>2. S \subseteq Job
        BY <1>0, ItemsOfSeq
      <3> QED BY <3>1, <3>2 DEF Holding
    <2>3. \A j \in S : PlaceOf(j) = t /\ runs[j] = 0
      BY <1>0, <2>1, <2>2, PlaceIs, AsideNotRun DEF Ran
    <2>4. runs' = [j \in Job |-> IF j \in S THEN 1 ELSE runs[j]]
      BY <1>0, <2>1, <2>3
    <2>5. \A i \in Job : PlaceOf(i)' = PlaceOf(i)
      BY <1>2, <2>1 DEF Release
    <2>6. Pool!RunItems(t, S)
      BY <2>2, <2>3, <2>4, <2>5 DEF Pool!RunItems
    <2> QED BY <2>2, <2>6 DEF Pool!WorkPoolNext
  <1>4. CASE ~Release(t) /\ ~Run(t)
    <2>1. runs' = runs
      BY <1>4, ExecuteStep(t)
      DEF ExecuteStep, ReadJob, SaveRunning, LogStarted, BuildFails, Emit, Compute, ReadBack,
          SaveFinal, LogFinal
    <2> QED BY <1>2, <1>4, <2>1, IsStutter
  <1> QED BY <1>1, <1>3, <1>4

\* Every step of the engine is a step of the work pool or none.
LEMMA StepIsPool ==
  PoolInv /\ PoolInv' /\ [Next]_vars => [Pool!WorkPoolNext]_Pool!poolVars
  <1> SUFFICES ASSUME PoolInv, PoolInv', [Next]_vars
               PROVE  Pool!WorkPoolNext \/ UNCHANGED <<[i \in Job |-> PlaceOf(i)], runs>>
    BY DEF Pool!poolVars
  <1>0. ExclusiveItems /\ ExclusiveItems'
    BY DEF PoolInv, ItemInv
  <1>1. ASSUME UNCHANGED <<queue, held, deferred, released, runs>>
        PROVE  UNCHANGED <<[i \in Job |-> PlaceOf(i)], runs>>
    <2>1. \A t \in Thread : Holding(t)' = Holding(t)
      BY <1>1 DEF Holding
    <2>2. \A i \in Job : PlaceOf(i)' = PlaceOf(i)
      BY <1>0, <1>1, <2>1, PlaceStays
    <2> QED BY <1>1, <2>2, IsStutter
  <1>2. ASSUME NEW c \in Canceller, CancelStep(c) \/ \E j \in Job : CancelReads(c, j)
        PROVE  UNCHANGED <<[i \in Job |-> PlaceOf(i)], runs>>
    BY <1>1, <1>2
    DEF CancelStep, CancelReads, CancelSaves, CancelLogs, CancelReturns, threadVars, queueVars
  <1>3. CASE UNCHANGED vars
    BY <1>1, <1>3 DEF vars, threadVars, queueVars
  <1> QED
    BY <1>0, <1>2, <1>3, SubmitIsPool, CollectIsPool, ExecuteIsPool DEF Next

\* The queue, the batches and the run_sync callers implement the work pool:
\* items wait, are taken, put back untouched, run at most once and finished,
\* whatever is collected, set aside, merged or taken down.
THEOREM PoolIsImplemented == Spec => ImplementsWorkPool
  <1>1. Init => Pool!WorkPoolInit
    <2> SUFFICES ASSUME Init PROVE Pool!WorkPoolInit
      OBVIOUS
    <2>1. ExclusiveItems /\ queue = << >> /\ released = {}
      BY InitPool DEF PoolInv, ItemInv, Init
    <2>2. \A t \in Thread : Holding(t) = {}
      BY ItemsOfEmpty DEF Init, Holding
    <2>3. \A j \in Job : PlaceOf(j) = "absent"
      BY <2>1, <2>2, PlaceIs, ItemsOfEmpty
    <2> QED BY <2>3 DEF Init, Pool!WorkPoolInit
  <1> QED
    BY <1>1, InitPool, NextPool, StepIsPool, PTL DEF Spec, ImplementsWorkPool, Pool!WorkPoolSpec
===============================================================================
