---------------------------- MODULE JobStreamProofs ----------------------------
(***************************************************************************)
(* Proofs about JobStream, for any jobs, threads, clients and cancellers:  *)
(* no client gets an event twice or out of order (InOrderDelivery), and an *)
(* SSE client that is connected has missed nothing since its channel was   *)
(* registered (NothingMissedSince).                                        *)
(*                                                                         *)
(* A replay is a record read at some time, and records are written back    *)
(* from copies, so the order in a replay rests on the order in every copy  *)
(* (RecordsInOrder).  What a client gets next is on its channel, so        *)
(* StreamInOrder speaks of replay and channel together.                    *)
(***************************************************************************)
EXTENDS JobStream, JobEngineOutcomeProofs, SequenceTheorems

----------------------------------------------------------------------------
(* Sequences found in others, in order.                                    *)

\* The empty sequence is found everywhere.
LEMMA EmptyEmbeds ==
  ASSUME NEW t
  PROVE  Embeds(<< >>, t)
  <1> DEFINE at == [i \in DOMAIN << >> |-> 1]
  <1>1. DOMAIN << >> = {}
    OBVIOUS
  <1>2. at \in [DOMAIN << >> -> DOMAIN t]
    BY <1>1
  <1>3. /\ \A i, k \in DOMAIN << >> : i < k => at[i] < at[k]
        /\ \A i \in DOMAIN << >> : << >>[i] = t[at[i]]
    BY <1>1
  <1> HIDE DEF at
  <1> QED BY <1>2, <1>3 DEF Embeds

\* The other sequence may grow.
LEMMA EmbedsInLonger ==
  ASSUME NEW S, NEW s \in Seq(S), NEW t \in Seq(S), NEW e \in S, Embeds(s, t)
  PROVE  Embeds(s, Append(t, e))
  <1>1. PICK at \in [DOMAIN s -> DOMAIN t] :
          /\ \A i, k \in DOMAIN s : i < k => at[i] < at[k]
          /\ \A i \in DOMAIN s : s[i] = t[at[i]]
    BY DEF Embeds
  <1>2. /\ DOMAIN t \subseteq DOMAIN Append(t, e)
        /\ \A i \in DOMAIN t : Append(t, e)[i] = t[i]
    OBVIOUS
  <1>3. at \in [DOMAIN s -> DOMAIN Append(t, e)]
    BY <1>2
  <1> QED BY <1>1, <1>2, <1>3 DEF Embeds

\* Both may grow by the same element.
LEMMA EmbedsWithBothLonger ==
  ASSUME NEW S, NEW s \in Seq(S), NEW t \in Seq(S), NEW e \in S, Embeds(s, t)
  PROVE  Embeds(Append(s, e), Append(t, e))
  <1>1. PICK at \in [DOMAIN s -> DOMAIN t] :
          /\ \A i, k \in DOMAIN s : i < k => at[i] < at[k]
          /\ \A i \in DOMAIN s : s[i] = t[at[i]]
    BY DEF Embeds
  <1> DEFINE n == Len(s)
             m == Len(t)
             to == [i \in 1 .. n + 1 |-> IF i = n + 1 THEN m + 1 ELSE at[i]]
  <1>2. /\ n \in Nat /\ m \in Nat /\ DOMAIN s = 1 .. n /\ DOMAIN t = 1 .. m
        /\ DOMAIN Append(s, e) = 1 .. n + 1 /\ DOMAIN Append(t, e) = 1 .. m + 1
        /\ \A i \in 1 .. n : Append(s, e)[i] = s[i]
        /\ \A i \in 1 .. m : Append(t, e)[i] = t[i]
        /\ Append(s, e)[n + 1] = e /\ Append(t, e)[m + 1] = e
    OBVIOUS
  <1> HIDE DEF n, m
  <1>3. \A i \in 1 .. n + 1 : i # n + 1 => i \in 1 .. n
    BY <1>2
  <1>4. to \in [DOMAIN Append(s, e) -> DOMAIN Append(t, e)]
    BY <1>2, <1>3
  <1>5. \A i, k \in DOMAIN Append(s, e) : i < k => to[i] < to[k]
    BY <1>1, <1>2, <1>3
  <1>6. \A i \in DOMAIN Append(s, e) : Append(s, e)[i] = Append(t, e)[to[i]]
    BY <1>1, <1>2, <1>3
  <1> HIDE DEF to
  <1> QED BY <1>4, <1>5, <1>6 DEF Embeds

\* What is left when one element is taken out is still found.
LEMMA EmbedsWithoutOne ==
  ASSUME NEW S, NEW s \in Seq(S), NEW r \in Seq(S), r # << >>, NEW t \in Seq(S),
         Embeds(s \o r, t)
  PROVE  Embeds(s \o Tail(r), t)
  <1> DEFINE n == Len(s)
             m == Len(r)
             a == s \o r
             b == s \o Tail(r)
  <1>1. /\ n \in Nat /\ m \in Nat \ {0} /\ DOMAIN a = 1 .. n + m
        /\ \A i \in 1 .. n + m : a[i] = IF i <= n THEN s[i] ELSE r[i - n]
    BY ConcatProperties, LenProperties, EmptySeq
  <1>2. /\ Tail(r) \in Seq(S) /\ Len(Tail(r)) = m - 1
        /\ \A i \in 1 .. m - 1 : Tail(r)[i] = r[i + 1]
    BY HeadTailProperties
  <1>3. /\ DOMAIN b = 1 .. n + m - 1
        /\ \A i \in 1 .. n + m - 1 : b[i] = IF i <= n THEN s[i] ELSE r[i - n + 1]
    <2>1. b \in Seq(S) /\ Len(b) = n + (m - 1)
      BY <1>2, ConcatProperties
    <2>2. \A i \in 1 .. n + (m - 1) : b[i] = IF i <= n THEN s[i] ELSE Tail(r)[i - n]
      BY <1>2, ConcatProperties
    <2> HIDE DEF n, m, b
    <2>3. n \in Nat /\ m \in Nat \ {0}
      BY <1>1
    <2>4. /\ n + (m - 1) = n + m - 1
          /\ \A i \in 1 .. n + m - 1 :
                ~(i <= n) => i - n \in 1 .. m - 1 /\ i - n + 1 = (i - n) + 1
      BY <2>3
    <2>5. DOMAIN b = 1 .. n + m - 1
      BY <2>1, <2>4, LenProperties
    <2>6. ASSUME NEW i \in 1 .. n + m - 1
          PROVE  b[i] = IF i <= n THEN s[i] ELSE r[i - n + 1]
      <3>1. CASE i <= n
        BY <2>2, <2>4, <3>1
      <3>2. CASE ~(i <= n)
        <4>1. b[i] = Tail(r)[i - n] /\ i - n \in 1 .. m - 1 /\ i - n + 1 = (i - n) + 1
          BY <2>2, <2>4, <3>2
        <4> QED BY <1>2, <3>2, <4>1
      <3> QED BY <3>1, <3>2
    <2> QED BY <2>5, <2>6
  <1>4. PICK at \in [DOMAIN a -> DOMAIN t] :
          /\ \A i, k \in DOMAIN a : i < k => at[i] < at[k]
          /\ \A i \in DOMAIN a : a[i] = t[at[i]]
    BY DEF Embeds
  <1> DEFINE from(i) == IF i <= n THEN i ELSE i + 1
             to == [i \in DOMAIN b |-> at[from(i)]]
  <1> HIDE DEF n, m, a, b
  <1>5. ASSUME NEW i \in DOMAIN b
        PROVE  from(i) \in DOMAIN a /\ b[i] = a[from(i)]
    <2>1. /\ i \in 1 .. n + m - 1 /\ n \in Nat /\ m \in Nat \ {0}
          /\ b[i] = IF i <= n THEN s[i] ELSE r[i - n + 1]
      BY <1>1, <1>3
    <2>2. /\ from(i) \in 1 .. n + m
          /\ ~(i <= n) => ~(from(i) <= n) /\ from(i) - n = i - n + 1
      BY <2>1
    <2>3. /\ from(i) \in DOMAIN a
          /\ a[from(i)] = IF from(i) <= n THEN s[from(i)] ELSE r[from(i) - n]
      BY <1>1, <2>2
    <2>4. CASE i <= n
      BY <2>1, <2>3, <2>4
    <2>5. CASE ~(i <= n)
      BY <2>1, <2>2, <2>3, <2>5
    <2> QED BY <2>4, <2>5
  <1>6. \A i, k \in DOMAIN b : i < k => from(i) < from(k)
    <2>1. DOMAIN b = 1 .. n + m - 1 /\ n \in Nat /\ m \in Nat \ {0}
      BY <1>1, <1>3
    <2> QED BY <2>1
  <1> HIDE DEF from
  <1>7. to \in [DOMAIN b -> DOMAIN t]
    BY <1>4, <1>5
  <1>8. /\ \A i, k \in DOMAIN b : i < k => to[i] < to[k]
        /\ \A i \in DOMAIN b : b[i] = t[to[i]]
    BY <1>4, <1>5, <1>6
  <1>9. Embeds(b, t)
    <2> HIDE DEF to
    <2> QED BY <1>7, <1>8 DEF Embeds
  <1> QED BY <1>9 DEF b

\* The first part alone is found.
LEMMA FrontEmbeds ==
  ASSUME NEW S, NEW s \in Seq(S), NEW r \in Seq(S), NEW t \in Seq(S), Embeds(s \o r, t)
  PROVE  Embeds(s, t)
  <1> DEFINE a == s \o r
  <1>1. /\ DOMAIN s \subseteq DOMAIN a
        /\ \A i \in DOMAIN s : a[i] = s[i]
    BY ConcatProperties, LenProperties
  <1>2. PICK at \in [DOMAIN a -> DOMAIN t] :
          /\ \A i, k \in DOMAIN a : i < k => at[i] < at[k]
          /\ \A i \in DOMAIN a : a[i] = t[at[i]]
    BY DEF Embeds
  <1> DEFINE to == [i \in DOMAIN s |-> at[i]]
  <1> HIDE DEF a
  <1>3. to \in [DOMAIN s -> DOMAIN t]
    BY <1>1, <1>2
  <1>4. /\ \A i, k \in DOMAIN s : i < k => to[i] < to[k]
        /\ \A i \in DOMAIN s : s[i] = t[to[i]]
    BY <1>1, <1>2
  <1> HIDE DEF to
  <1> QED BY <1>3, <1>4 DEF Embeds

\* So is the second part.
LEMMA BackEmbeds ==
  ASSUME NEW S, NEW s \in Seq(S), NEW r \in Seq(S), NEW t \in Seq(S), Embeds(s \o r, t)
  PROVE  Embeds(r, t)
  <1> DEFINE a == s \o r
             n == Len(s)
  <1>1. /\ n \in Nat
        /\ \A i \in DOMAIN r : n + i \in DOMAIN a /\ a[n + i] = r[i]
    <2>1. /\ n \in Nat /\ Len(r) \in Nat /\ DOMAIN r = 1 .. Len(r)
          /\ a \in Seq(S) /\ Len(a) = n + Len(r) /\ DOMAIN a = 1 .. Len(a)
          /\ \A k \in 1 .. n + Len(r) : a[k] = IF k <= n THEN s[k] ELSE r[k - n]
      BY ConcatProperties, LenProperties
    <2> HIDE DEF a, n
    <2>2. ASSUME NEW i \in 1 .. Len(r)
          PROVE  n + i \in 1 .. n + Len(r) /\ ~(n + i <= n) /\ (n + i) - n = i
      BY <2>1
    <2> QED BY <2>1, <2>2
  <1>2. PICK at \in [DOMAIN a -> DOMAIN t] :
          /\ \A i, k \in DOMAIN a : i < k => at[i] < at[k]
          /\ \A i \in DOMAIN a : a[i] = t[at[i]]
    BY DEF Embeds
  <1> DEFINE to == [i \in DOMAIN r |-> at[n + i]]
  <1> HIDE DEF a, n
  <1>3. to \in [DOMAIN r -> DOMAIN t]
    BY <1>1, <1>2
  <1>4. \A i, k \in DOMAIN r : i < k => n + i < n + k
    <2>1. DOMAIN r = 1 .. Len(r) /\ Len(r) \in Nat
      BY LenProperties
    <2> QED BY <1>1, <2>1
  <1>5. /\ \A i, k \in DOMAIN r : i < k => to[i] < to[k]
        /\ \A i \in DOMAIN r : r[i] = t[to[i]]
    BY <1>1, <1>2, <1>4
  <1> HIDE DEF to
  <1> QED BY <1>3, <1>5 DEF Embeds

-------------------------------------------------------------------------------
(* The inductive invariant.                                                *)

Saving == {"saveRunning", "saveFinal"}

\* What a record holds, and what a thread or a cancel will write back, are
\* events of the job in the order they were appended.
RecordsInOrder ==
    /\ \A j \in Job : Embeds(jobs[j].events, log[j])
    /\ \A t \in Thread : pc[t] \in Saving => Embeds(copy[t].events, log[Current(t)])
    /\ \A c \in Canceller : cpc[c] = "save" => Embeds(ccopy[c].events, log[cjob[c]])

HandlerTypeOK ==
    /\ where \in [Client -> {"idle", "subscribe", "replay", "loop", "poll", "finished",
                             "gone", "completed", "closed"}]
    /\ watched \in [Client -> Job \cup {NoChoice}]
    /\ snapshot \in [Client -> Seq(EventKind)]
    /\ orphans \in [Client -> Nat]
    /\ delivered \in [Client -> Seq(EventKind)]
    /\ since \in [Client -> Nat]

Relaying == {"loop", "poll", "finished", "gone"}
Following == Relaying \cup {"replay"}

\* A handler has a job from its first read to its end, and a channel from
\* its registration on.
Registered(c) ==
    /\ watched[c] \in Job <=> where[c] \in Following \cup {"subscribe"}
    /\ \A j \in Job : c \in subs[j] <=> where[c] \in Following /\ watched[c] = j

\* What a handler will replay, or has sent, and then what its channel holds.
Ordered(c) ==
    /\ where[c] = "subscribe" => Embeds(snapshot[c], log[watched[c]])
    /\ where[c] = "replay" => Embeds(snapshot[c] \o channels[c], log[watched[c]])
    /\ where[c] \in Relaying => Embeds(delivered[c] \o channels[c], log[watched[c]])
    /\ where[c] \notin Relaying => delivered[c] = << >>

LogSince(c) == SubSeq(log[watched[c]], since[c] + 1, Len(log[watched[c]]))

\* An SSE handler leaves no channel.get behind, so that its channel has all
\* events since the registration.
Gapless(c) ==
    /\ orphans[c] = 0
    /\ where[c] \in Following => since[c] <= Len(log[watched[c]])
    /\ where[c] = "replay" => channels[c] = LogSince(c)
    /\ where[c] \in {"loop", "poll", "finished"} =>
          delivered[c] \o channels[c] = snapshot[c] \o LogSince(c)

ClientInv(c) == Registered(c) /\ Ordered(c) /\ (c \in SseClient => Gapless(c))

StreamInv ==
    /\ TypeInv /\ HandlerTypeOK /\ RecordsInOrder
    /\ \A c \in Client : ClientInv(c)

-------------------------------------------------------------------------------
(* What the engine does to logs and channels.                              *)

\* The store at an event: the log of the job and every channel get it.
LogGets(j, e) ==
    /\ log' = [log EXCEPT ![j] = Append(log[j], e)]
    /\ channels' = [c \in Client |-> IF c \in subs[j] THEN Append(channels[c], e)
                                                      ELSE channels[c]]

LogGrows ==
    \/ UNCHANGED <<log, channels>>
    \/ \E j \in Job, e \in EventKind : LogGets(j, e)

\* Order in a log outlives its growth.
LEMMA OrderRemains ==
  ASSUME StoreTypeOK, LogGrows, NEW i \in Job, NEW s \in Seq(EventKind), Embeds(s, log[i])
  PROVE  Embeds(s, log'[i])
  <1>1. log \in [Job -> Seq(EventKind)] /\ log[i] \in Seq(EventKind)
    BY DEF StoreTypeOK
  <1>2. CASE UNCHANGED log
    BY <1>2
  <1>3. ASSUME NEW j \in Job, NEW e \in EventKind, LogGets(j, e)
        PROVE  Embeds(s, log'[i])
    <2>1. CASE i = j
      <3>1. log'[i] = Append(log[i], e)
        BY <1>1, <1>3, <2>1 DEF LogGets
      <3> QED BY <1>1, <3>1, EmbedsInLonger
    <2>2. CASE i # j
      BY <1>1, <1>3, <2>2 DEF LogGets
    <2> QED BY <2>1, <2>2
  <1> QED BY <1>2, <1>3 DEF LogGrows

\* An event goes to the record and to the log, so that one stays in the order
\* of the other.
LEMMA AppendKeepsOrder ==
  ASSUME StoreTypeOK, NEW j \in Job, NEW e \in EventKind, AppendEvent(j, e),
         \A i \in Job : Embeds(jobs[i].events, log[i])
  PROVE  /\ LogGrows /\ UNCHANGED subs
         /\ \A i \in Job : Embeds(jobs'[i].events, log'[i])
  <1>1. LogGets(j, e) /\ UNCHANGED subs
    BY DEF AppendEvent, LogGets
  <1>2. /\ jobs \in [Job -> JobRecord] /\ log \in [Job -> Seq(EventKind)]
        /\ jobs[j].events \in Seq(EventKind)
    BY DEF StoreTypeOK, JobRecord
  <1>3. jobs' = [jobs EXCEPT ![j] = [jobs[j] EXCEPT !.events = Append(jobs[j].events, e)]]
    BY DEF AppendEvent
  <1>4. [jobs[j] EXCEPT !.events = Append(jobs[j].events, e)].events = Append(jobs[j].events, e)
    BY <1>2 DEF JobRecord
  <1>5. Embeds(jobs'[j].events, log'[j])
    <2>1. jobs'[j].events = Append(jobs[j].events, e)
      BY <1>2, <1>3, <1>4
    <2>2. log'[j] = Append(log[j], e)
      BY <1>1, <1>2 DEF LogGets
    <2> QED BY <1>2, <2>1, <2>2, EmbedsWithBothLonger
  <1>6. \A i \in Job \ {j} : jobs'[i] = jobs[i] /\ log'[i] = log[i]
    BY <1>1, <1>2, <1>3 DEF LogGets
  <1> QED BY <1>1, <1>5, <1>6 DEF LogGrows

\* Records are written back in order if the copy was in order.
LEMMA SaveKeepsOrder ==
  ASSUME StoreTypeOK, NEW j \in Job, NEW r \in JobRecord, Save(j, r), Embeds(r.events, log[j]),
         \A i \in Job : Embeds(jobs[i].events, log[i])
  PROVE  /\ LogGrows /\ UNCHANGED subs
         /\ \A i \in Job : Embeds(jobs'[i].events, log'[i])
  <1>1. UNCHANGED <<log, channels, subs>> /\ jobs' = [jobs EXCEPT ![j] = r]
    BY DEF Save
  <1>2. jobs \in [Job -> JobRecord]
    BY DEF StoreTypeOK
  <1> QED BY <1>1, <1>2 DEF LogGrows

\* A thread or a cancel that keeps its copy, or takes or makes one in order.
LEMMA StepKeepsOrder ==
  ASSUME TypeInv, TypeInv', RecordsInOrder, LogGrows,
         \A i \in Job : Embeds(jobs'[i].events, log'[i]),
         \A t \in Thread : pc'[t] \in Saving =>
             \/ pc[t] \in Saving /\ copy'[t] = copy[t] /\ Current(t)' = Current(t)
             \/ Embeds(copy'[t].events, log'[Current(t)']),
         \A c \in Canceller : cpc'[c] = "save" =>
             \/ cpc[c] = "save" /\ ccopy'[c] = ccopy[c] /\ cjob'[c] = cjob[c]
             \/ Embeds(ccopy'[c].events, log'[cjob'[c]])
  PROVE  RecordsInOrder'
  <1>1. ASSUME NEW t \in Thread, pc'[t] \in Saving
        PROVE  Embeds(copy'[t].events, log'[Current(t)'])
    <2>1. CASE pc[t] \in Saving /\ copy'[t] = copy[t] /\ Current(t)' = Current(t)
      <3>1. Current(t) \in Job /\ copy[t].events \in Seq(EventKind) /\ StoreTypeOK
        BY <2>1, CurrentType DEF TypeInv, TypeOK, ThreadTypeOK, JobRecord, Walking, Saving
      <3>2. Embeds(copy[t].events, log[Current(t)])
        BY <2>1 DEF RecordsInOrder
      <3> QED BY <2>1, <3>1, <3>2, OrderRemains
    <2> QED BY <1>1, <2>1
  <1>2. ASSUME NEW c \in Canceller, cpc'[c] = "save"
        PROVE  Embeds(ccopy'[c].events, log'[cjob'[c]])
    <2>1. CASE cpc[c] = "save" /\ ccopy'[c] = ccopy[c] /\ cjob'[c] = cjob[c]
      <3>1. cjob[c] \in Job /\ ccopy[c].events \in Seq(EventKind) /\ StoreTypeOK
        BY <2>1 DEF TypeInv, TypeOK, CancelTypeOK, JobRecord
      <3>2. Embeds(ccopy[c].events, log[cjob[c]])
        BY <2>1 DEF RecordsInOrder
      <3> QED BY <2>1, <3>1, <3>2, OrderRemains
    <2> QED BY <1>2, <2>1
  <1> QED BY <1>1, <1>2 DEF RecordsInOrder

\* Submission appends one event to a new record.
LEMMA SubmitKeepsOrder ==
  ASSUME TypeInv, RecordsInOrder, NEW j \in Job, SubmitStep(j)
  PROVE  TypeInv' /\ RecordsInOrder' /\ LogGrows /\ UNCHANGED subs
  <1>1. TypeInv' /\ StoreTypeOK /\ UNCHANGED <<threadVars, cancelVars>>
    <2>1. [Next]_vars
      BY DEF Next
    <2>2. UNCHANGED <<threadVars, cancelVars>>
      BY DEF SubmitStep, CreateJob, LogEnqueued, Put
    <2> QED BY <2>1, <2>2, NextTypeInv DEF TypeInv, TypeOK
  <1>2. /\ LogGrows /\ UNCHANGED subs
        /\ \A i \in Job : Embeds(jobs'[i].events, log'[i])
    <2>1. CASE CreateJob(j)
      <3>1. UNCHANGED <<subs, channels, log>> /\ jobs' = [jobs EXCEPT ![j] = NewRecord]
        BY <2>1 DEF CreateJob, Create
      <3>2. jobs' \in [Job -> JobRecord] /\ jobs'[j].events = << >>
        BY <1>1, <3>1, NewRecordType DEF StoreTypeOK, NewRecord
      <3>3. \A i \in Job \ {j} : jobs'[i] = jobs[i]
        BY <1>1, <3>1 DEF StoreTypeOK
      <3> QED BY <3>1, <3>2, <3>3, EmptyEmbeds DEF LogGrows, RecordsInOrder
    <2>2. CASE LogEnqueued(j)
      <3>1. AppendEvent(j, "job_enqueued") /\ "job_enqueued" \in EventKind
        BY <2>2 DEF LogEnqueued, EventKind
      <3> QED BY <1>1, <3>1, AppendKeepsOrder DEF RecordsInOrder
    <2>3. CASE Put(j)
      BY <2>3 DEF Put, storeVars, LogGrows, RecordsInOrder
    <2> QED BY <2>1, <2>2, <2>3 DEF SubmitStep
  <1>3. /\ \A t \in Thread : pc'[t] = pc[t] /\ copy'[t] = copy[t] /\ Current(t)' = Current(t)
        /\ \A c \in Canceller : /\ cpc'[c] = cpc[c] /\ ccopy'[c] = ccopy[c]
                                /\ cjob'[c] = cjob[c]
    BY <1>1 DEF threadVars, cancelVars, Current
  <1> QED BY <1>1, <1>2, <1>3, StepKeepsOrder

\* The collection touches neither records nor copies.
LEMMA CollectKeepsOrder ==
  ASSUME TypeInv, RecordsInOrder, NEW w \in Worker, CollectStep(w)
  PROVE  TypeInv' /\ RecordsInOrder' /\ LogGrows /\ UNCHANGED subs
  <1>1. TypeInv' /\ ThreadTypeOK /\ w \in Thread /\ UNCHANGED <<storeVars, cancelVars>>
    <2>1. [Next]_vars
      BY DEF Next
    <2>2. UNCHANGED <<storeVars, cancelVars>>
      BY DEF CollectStep, Take, Collect, CollectEnds, RequeueCounts, Requeue, RequeueEnds,
             Dispatch, Filter
    <2> QED BY <2>1, <2>2, NextTypeInv DEF TypeInv, TypeOK, Thread
  <1>2. pc'[w] \notin Saving
    BY <1>1
    DEF CollectStep, Take, Collect, CollectEnds, RequeueCounts, Requeue, RequeueEnds, Dispatch,
        Filter, GoTo, ThreadTypeOK, Saving
  <1>3. \A t \in Thread \ {w} :
            pc'[t] = pc[t] /\ copy'[t] = copy[t] /\ Current(t)' = Current(t)
    BY <1>1, CollectIsLocal DEF Current
  <1>4. \A c \in Canceller : cpc'[c] = cpc[c] /\ ccopy'[c] = ccopy[c] /\ cjob'[c] = cjob[c]
    BY <1>1 DEF cancelVars
  <1>5. /\ LogGrows /\ UNCHANGED subs
        /\ \A i \in Job : Embeds(jobs'[i].events, log'[i])
    BY <1>1 DEF storeVars, LogGrows, RecordsInOrder
  <1> QED BY <1>1, <1>2, <1>3, <1>4, <1>5, StepKeepsOrder

\* A thread writes back what it read, and appends to record and log.
LEMMA ExecuteKeepsOrder ==
  ASSUME TypeInv, RecordsInOrder, NEW t \in Thread, ExecuteStep(t)
  PROVE  TypeInv' /\ RecordsInOrder' /\ LogGrows /\ UNCHANGED subs
  <1>1. /\ TypeInv' /\ ThreadTypeOK /\ StoreTypeOK /\ UNCHANGED cancelVars
        /\ pc[t] \in Walking => Current(t) \in Job
        /\ copy[t] \in JobRecord
    <2>1. [Next]_vars
      BY DEF Next
    <2>2. UNCHANGED cancelVars
      BY DEF ExecuteStep, ReadJob, SaveRunning, LogStarted, Run, BuildFails, Emit, Compute,
             ReadBack, SaveFinal, LogFinal, Release
    <2> QED BY <2>1, <2>2, NextTypeInv, CurrentType DEF TypeInv, TypeOK, ThreadTypeOK
  <1>2. \A u \in Thread \ {t} :
            pc'[u] = pc[u] /\ copy'[u] = copy[u] /\ Current(u)' = Current(u)
    BY <1>1, ExecuteIsLocal DEF Current
  <1>3. \A c \in Canceller : cpc'[c] = cpc[c] /\ ccopy'[c] = ccopy[c] /\ cjob'[c] = cjob[c]
    BY <1>1 DEF cancelVars
  <1>4. /\ LogGrows /\ UNCHANGED subs
        /\ \A i \in Job : Embeds(jobs'[i].events, log'[i])
        /\ pc'[t] \in Saving => Embeds(copy'[t].events, log'[Current(t)'])
    <2>1. CASE ReadJob(t) \/ ReadBack(t)
      <3>1. UNCHANGED storeVars /\ UNCHANGED <<active, idx>> /\ Current(t)' = Current(t)
        BY <2>1 DEF ReadJob, ReadBack, Current
      <3>2. /\ Current(t) \in Job
            /\ pc'[t] = "release" \/ copy'[t] = jobs[Current(t)]
        BY <1>1, <2>1 DEF ReadJob, ReadBack, Reread, GoTo, ThreadTypeOK, Walking
      <3>3. pc'[t] \in Saving => Embeds(copy'[t].events, log'[Current(t)'])
        BY <3>1, <3>2 DEF storeVars, Saving, RecordsInOrder
      <3> QED BY <3>1, <3>3 DEF storeVars, LogGrows, RecordsInOrder
    <2>2. CASE SaveRunning(t) \/ SaveFinal(t)
      <3>1. PICK r \in JobRecord : Save(Current(t), r) /\ r.events = copy[t].events
        <4>1. /\ StartedRecord(t) \in JobRecord
              /\ StartedRecord(t).events = copy[t].events
          BY <1>1 DEF StartedRecord, JobRecord, JobState
        <4>2. /\ FinalRecord(t) \in JobRecord
              /\ FinalRecord(t).events = copy[t].events
          BY <1>1 DEF FinalRecord, JobRecord, JobState
        <4> QED BY <2>2, <4>1, <4>2 DEF SaveRunning, SaveFinal
      <3>2. /\ pc[t] \in Saving /\ pc'[t] \notin Saving
            /\ Current(t) \in Job
        BY <1>1, <2>2 DEF SaveRunning, SaveFinal, GoTo, ThreadTypeOK, Saving, Walking
      <3>3. Embeds(r.events, log[Current(t)])
        BY <3>1, <3>2 DEF RecordsInOrder
      <3> QED BY <1>1, <3>1, <3>2, <3>3, SaveKeepsOrder DEF RecordsInOrder
    <2>3. CASE LogStarted(t) \/ Emit(t) \/ LogFinal(t)
      <3>1. /\ {"job_started", "job_finished", "job_failed"} \subseteq EventKind
            /\ event[t] \in EventKind
        BY <1>1 DEF EventKind, ThreadTypeOK
      <3>2. Current(t) \in Job
        BY <1>1, <2>3 DEF LogStarted, Emit, LogFinal, Walking
      <3>3. PICK e \in EventKind : AppendEvent(Current(t), e)
        BY <2>3, <3>1 DEF LogStarted, Emit, LogFinal
      <3>4. pc'[t] \notin Saving
        BY <1>1, <2>3
        DEF LogStarted, Emit, AfterEmit, LogFinal, NextItem, GoTo, ThreadTypeOK, Saving
      <3> QED BY <1>1, <3>2, <3>3, <3>4, AppendKeepsOrder DEF RecordsInOrder
    <2>4. CASE Run(t) \/ BuildFails(t) \/ Compute(t) \/ Release(t)
      <3>1. UNCHANGED storeVars /\ pc'[t] \notin Saving
        BY <1>1, <2>4 DEF Run, BuildFails, Compute, Release, GoTo, ThreadTypeOK, Saving
      <3> QED BY <3>1 DEF storeVars, LogGrows, RecordsInOrder
    <2> QED BY <2>1, <2>2, <2>3, <2>4 DEF ExecuteStep
  <1> QED BY <1>1, <1>2, <1>3, <1>4, StepKeepsOrder

\* So does a cancel.
LEMMA CancelKeepsOrder ==
  ASSUME TypeInv, RecordsInOrder, NEW c \in Canceller,
         CancelStep(c) \/ \E j \in Job : CancelReads(c, j)
  PROVE  TypeInv' /\ RecordsInOrder' /\ LogGrows /\ UNCHANGED subs
  <1>1. /\ TypeInv' /\ CancelTypeOK /\ StoreTypeOK /\ UNCHANGED threadVars
        /\ cpc[c] # "idle" => cjob[c] \in Job
        /\ ccopy[c] \in JobRecord
    <2>1. [Next]_vars
      BY DEF Next
    <2>2. UNCHANGED threadVars
      BY DEF CancelStep, CancelSaves, CancelLogs, CancelReturns, CancelReads
    <2> QED BY <2>1, <2>2, NextTypeInv DEF TypeInv, TypeOK, CancelTypeOK
  <1>2. \A t \in Thread : pc'[t] = pc[t] /\ copy'[t] = copy[t] /\ Current(t)' = Current(t)
    BY <1>1 DEF threadVars, Current
  <1>3. \A d \in Canceller \ {c} : cpc'[d] = cpc[d] /\ ccopy'[d] = ccopy[d] /\ cjob'[d] = cjob[d]
    BY <1>1
    DEF CancelStep, CancelSaves, CancelLogs, CancelReturns, CancelReads, CancelTypeOK
  <1>4. /\ LogGrows /\ UNCHANGED subs
        /\ \A i \in Job : Embeds(jobs'[i].events, log'[i])
        /\ cpc'[c] = "save" => Embeds(ccopy'[c].events, log'[cjob'[c]])
    <2>1. ASSUME NEW j \in Job, CancelReads(c, j)
          PROVE  /\ UNCHANGED storeVars
                 /\ ccopy'[c] = jobs[j] /\ cjob'[c] = j
      BY <1>1, <2>1 DEF CancelReads, CancelTypeOK
    <2>2. CASE \E j \in Job : CancelReads(c, j)
      BY <2>1, <2>2 DEF storeVars, LogGrows, RecordsInOrder
    <2>3. CASE CancelSaves(c)
      <3> DEFINE r == [ccopy[c] EXCEPT !.state = "cancelled"]
      <3>1. r \in JobRecord /\ r.events = ccopy[c].events
        BY <1>1 DEF JobRecord, JobState
      <3>2. /\ Save(cjob[c], r) /\ cjob[c] \in Job /\ cpc'[c] # "save"
            /\ Embeds(ccopy[c].events, log[cjob[c]])
        BY <1>1, <2>3 DEF CancelSaves, CancelTypeOK, RecordsInOrder
      <3> HIDE DEF r
      <3> QED BY <1>1, <3>1, <3>2, SaveKeepsOrder DEF RecordsInOrder
    <2>4. CASE CancelLogs(c)
      <3>1. /\ AppendEvent(cjob[c], "job_cancelled") /\ cjob[c] \in Job
            /\ cpc'[c] # "save" /\ "job_cancelled" \in EventKind
        BY <1>1, <2>4 DEF CancelLogs, CancelTypeOK, EventKind
      <3> QED BY <1>1, <3>1, AppendKeepsOrder DEF RecordsInOrder
    <2>5. CASE CancelReturns(c)
      <3>1. UNCHANGED storeVars /\ cpc'[c] # "save"
        BY <1>1, <2>5 DEF CancelReturns, CancelTypeOK
      <3> QED BY <3>1 DEF storeVars, LogGrows, RecordsInOrder
    <2> QED BY <2>2, <2>3, <2>4, <2>5 DEF CancelStep
  <1> QED BY <1>1, <1>2, <1>3, <1>4, StepKeepsOrder

\* No engine step subscribes anybody or takes anything from a channel.
LEMMA EngineKeepsOrder ==
  ASSUME TypeInv, RecordsInOrder, EngineStep
  PROVE  TypeInv' /\ RecordsInOrder' /\ LogGrows /\ UNCHANGED subs
  <1>1. \A c \in Deleter : c \in Canceller
    BY DEF Deleter
  <1> QED
    BY <1>1, SubmitKeepsOrder, CollectKeepsOrder, ExecuteKeepsOrder, CancelKeepsOrder
    DEF EngineStep, Cancel
-------------------------------------------------------------------------------
(* What the engine does to a handler.                                      *)

\* An element can be appended to the second part or to the whole.
LEMMA ConcatThenAppend ==
  ASSUME NEW S, NEW s \in Seq(S), NEW t \in Seq(S), NEW e \in S
  PROVE  s \o Append(t, e) = Append(s \o t, e)
  <1>1. /\ <<e>> \in Seq(S) /\ s \o t \in Seq(S)
        /\ Append(t, e) = t \o <<e>> /\ Append(s \o t, e) = (s \o t) \o <<e>>
    BY AppendIsConcat, ConcatProperties
  <1> QED BY <1>1, ConcatAssociative

\* The first element of the second part can go to the end of the first.
LEMMA MoveHead ==
  ASSUME NEW S, NEW s \in Seq(S), NEW t \in Seq(S), t # << >>
  PROVE  Append(s, Head(t)) \o Tail(t) = s \o t
  <1>1. /\ Head(t) \in S /\ Tail(t) \in Seq(S) /\ <<Head(t)>> \in Seq(S)
        /\ Append(s, Head(t)) = s \o <<Head(t)>> /\ t = <<Head(t)>> \o Tail(t)
    BY HeadTailProperties, AppendIsConcat, HeadTailAppend
  <1> QED BY <1>1, ConcatAssociative

\* What a sequence has after its first n elements grows with it.
LEMMA RestGrows ==
  ASSUME NEW S, NEW s \in Seq(S), NEW n \in 0 .. Len(s), NEW e \in S
  PROVE  SubSeq(Append(s, e), n + 1, Len(Append(s, e)))
            = Append(SubSeq(s, n + 1, Len(s)), e)
  <1> DEFINE m == Len(s)
             a == Append(s, e)
             x == SubSeq(a, n + 1, m + 1)
             y == SubSeq(s, n + 1, m)
  <1>1. /\ m \in Nat /\ n \in 0 .. m /\ a \in Seq(S) /\ Len(a) = m + 1
        /\ \A i \in 1 .. m : a[i] = s[i] /\ s[i] \in S
        /\ a[m + 1] = e
    BY AppendProperties, LenProperties, ElementOfSeq
  <1> HIDE DEF m, a
  <1>2. \A i \in n + 1 .. m + 1 : a[i] \in S
    BY <1>1
  <1>3. /\ x \in Seq(S) /\ Len(x) = m + 1 - n
        /\ \A i \in 1 .. m + 1 - n : x[i] = a[n + i]
    <2>1. /\ n + 1 \in Int /\ m + 1 \in Int /\ n + 1 <= m + 1
          /\ (m + 1) - (n + 1) + 1 = m + 1 - n
          /\ \A i \in 1 .. m + 1 - n : (n + 1) + i - 1 = n + i
      BY <1>1
    <2> QED BY <1>2, <2>1, SubSeqProperties
  <1>4. /\ y \in Seq(S) /\ Len(y) = m - n
        /\ \A i \in 1 .. m - n : y[i] = s[n + i]
    <2>1. /\ n + 1 \in Int /\ m \in Int
          /\ m - (n + 1) + 1 = m - n /\ (~(n + 1 <= m) => m - n = 0)
          /\ \A i \in 1 .. m - n : (n + 1) + i - 1 = n + i
          /\ \A i \in n + 1 .. m : s[i] \in S
      BY <1>1
    <2> QED BY <2>1, SubSeqProperties
  <1> HIDE DEF x, y
  <1>5. /\ Append(y, e) \in Seq(S) /\ Len(Append(y, e)) = m + 1 - n
        /\ \A i \in 1 .. m - n : Append(y, e)[i] = y[i]
        /\ Append(y, e)[m - n + 1] = e
    <2>1. m + 1 - n = m - n + 1
      BY <1>1
    <2>2. /\ Append(y, e) \in Seq(S) /\ Len(Append(y, e)) = Len(y) + 1
          /\ \A i \in 1 .. Len(y) : Append(y, e)[i] = y[i]
          /\ Append(y, e)[Len(y) + 1] = e
      BY <1>4, AppendProperties
    <2> QED BY <1>4, <2>1, <2>2
  <1>6. \A i \in 1 .. m + 1 - n : x[i] = Append(y, e)[i]
    <2> SUFFICES ASSUME NEW i \in 1 .. m + 1 - n PROVE x[i] = Append(y, e)[i]
      OBVIOUS
    <2>1. CASE i = m - n + 1
      <3>1. n + i = m + 1
        BY <1>1, <2>1
      <3> QED BY <1>1, <1>3, <1>5, <2>1, <3>1
    <2>2. CASE i # m - n + 1
      <3>1. i \in 1 .. m - n /\ n + i \in 1 .. m
        BY <1>1, <2>2
      <3> QED BY <1>1, <1>3, <1>4, <1>5, <3>1
    <2> QED BY <2>1, <2>2
  <1>7. x = Append(y, e)
    BY <1>3, <1>5, <1>6, SeqEqual
  <1> QED BY <1>1, <1>7 DEF x, y, m, a

\* An event for the job of a handler comes to its channel if it has one.
LEMMA EngineKeepsClient ==
  ASSUME StreamInv, LogGrows, UNCHANGED subs, UNCHANGED streamVars, NEW c \in Client
  PROVE  ClientInv(c)'
  <1>1. /\ StoreTypeOK /\ HandlerTypeOK /\ ClientInv(c)
        /\ UNCHANGED <<where, watched, snapshot, orphans, delivered, since, subs>>
    BY DEF StreamInv, TypeInv, TypeOK, streamVars
  <1>2. CASE UNCHANGED <<log, channels>>
    BY <1>1, <1>2 DEF ClientInv, Registered, Ordered, Gapless, LogSince
  <1>3. ASSUME NEW j \in Job, NEW e \in EventKind, LogGets(j, e)
        PROVE  ClientInv(c)'
    <2> DEFINE w == watched[c]
    <2>0. /\ log \in [Job -> Seq(EventKind)] /\ channels[c] \in Seq(EventKind)
          /\ snapshot[c] \in Seq(EventKind) /\ delivered[c] \in Seq(EventKind)
          /\ since[c] \in Nat
      BY <1>1 DEF StoreTypeOK, HandlerTypeOK
    <2>1. Registered(c)'
      BY <1>1 DEF ClientInv, Registered
    <2>2. CASE w = j /\ where[c] \in Following
      <3>1. c \in subs[j]
        BY <1>1, <2>2 DEF ClientInv, Registered
      <3>2. /\ channels'[c] = Append(channels[c], e)
            /\ log'[w] = Append(log[w], e) /\ log[w] \in Seq(EventKind)
        BY <1>3, <2>0, <2>2, <3>1 DEF LogGets
      <3>3. ASSUME NEW s \in Seq(EventKind), Embeds(s \o channels[c], log[w])
            PROVE  Embeds(s \o channels'[c], log'[w])
        <4>1. /\ s \o channels[c] \in Seq(EventKind)
              /\ s \o Append(channels[c], e) = Append(s \o channels[c], e)
          BY <2>0, ConcatThenAppend, ConcatProperties, SMTT(30)
        <4> QED BY <3>2, <3>3, <4>1, EmbedsWithBothLonger
      <3>4. Ordered(c)'
        BY <1>1, <2>0, <2>2, <3>3 DEF ClientInv, Ordered, Following, Relaying
      <3>5. ASSUME c \in SseClient
            PROVE  Gapless(c)'
        <4>1. Gapless(c) /\ since[c] <= Len(log[w])
          BY <1>1, <2>2, <3>5 DEF ClientInv, Gapless
        <4>2. /\ Len(log[w]) \in Nat /\ since[c] \in 0 .. Len(log[w])
              /\ Len(log'[w]) = Len(log[w]) + 1
          BY <2>0, <3>2, <4>1, LenProperties, AppendProperties
        <4>3. LogSince(c) \in Seq(EventKind)
          <5>1. \A i \in since[c] + 1 .. Len(log[w]) : log[w][i] \in EventKind
            BY <2>0, <3>2, <4>2, ElementOfSeq
          <5>2. since[c] + 1 \in Int /\ Len(log[w]) \in Int
            BY <4>2
          <5> QED BY <5>1, <5>2, SubSeqProperties DEF LogSince
        <4>4. LogSince(c)' = Append(LogSince(c), e)
          BY <1>1, <3>2, <4>2, RestGrows DEF LogSince
        <4>5. /\ delivered[c] \o Append(channels[c], e) = Append(delivered[c] \o channels[c], e)
              /\ snapshot[c] \o Append(LogSince(c), e) = Append(snapshot[c] \o LogSince(c), e)
          <5>1. \A s, r \in Seq(EventKind) : \A x \in EventKind :
                    s \o Append(r, x) = Append(s \o r, x)
            BY ONLY ConcatThenAppend
          <5> QED BY <2>0, <4>3, <5>1
        <4>6. since[c] <= Len(log'[w])
          BY <2>0, <4>1, <4>2
        <4> HIDE DEF w
        <4>7. where[c] = "replay" => channels'[c] = LogSince(c)'
          BY <3>2, <4>1, <4>4 DEF Gapless
        <4>8. where[c] \in {"loop", "poll", "finished"} =>
                delivered[c] \o channels'[c] = snapshot[c] \o LogSince(c)'
          BY <3>2, <4>1, <4>4, <4>5 DEF Gapless
        <4> QED BY <1>1, <4>1, <4>6, <4>7, <4>8 DEF Gapless, w
      <3> QED BY <2>1, <3>4, <3>5 DEF ClientInv
    <2>3. CASE ~(w = j /\ where[c] \in Following)
      <3>1. c \notin subs[j]
        BY <1>1, <2>3 DEF ClientInv, Registered
      <3>2. channels'[c] = channels[c]
        BY <1>3, <3>1 DEF LogGets
      <3>3. where[c] \in Following => log'[w] = log[w]
        BY <1>3, <2>0, <2>3, <1>1 DEF LogGets, ClientInv, Registered
      <3>4. where[c] = "subscribe" => Embeds(snapshot[c], log'[w])
        BY <1>1, <2>0, OrderRemains DEF ClientInv, Ordered, Registered
      <3>5. Ordered(c)'
        BY <1>1, <3>2, <3>3, <3>4 DEF ClientInv, Ordered, Following, Relaying
      <3>6. c \in SseClient => Gapless(c)'
        <4>1. where[c] \in Following => LogSince(c)' = LogSince(c)
          BY <1>1, <3>3 DEF LogSince
        <4> QED BY <1>1, <3>2, <3>3, <4>1 DEF ClientInv, Gapless, Following, Relaying
      <3> QED BY <2>1, <3>5, <3>6 DEF ClientInv
    <2> QED BY <2>2, <2>3
  <1> QED BY <1>2, <1>3 DEF LogGrows
-------------------------------------------------------------------------------
(* What a handler and its client do.                                       *)

\* What one client does leaves the others alone.
Untouched(d) ==
    /\ where'[d] = where[d] /\ watched'[d] = watched[d] /\ snapshot'[d] = snapshot[d]
    /\ orphans'[d] = orphans[d] /\ delivered'[d] = delivered[d] /\ since'[d] = since[d]
    /\ channels'[d] = channels[d]
    /\ \A j \in Job : d \in subs'[j] <=> d \in subs[j]

\* So that the invariant rests on what it does to its own.
LEMMA OneClientMoves ==
  ASSUME StreamInv, NEW c \in Client, UNCHANGED log,
         TypeInv', HandlerTypeOK', RecordsInOrder', ClientInv(c)',
         \A d \in Client \ {c} : Untouched(d)
  PROVE  StreamInv'
  <1>1. ASSUME NEW d \in Client \ {c}
        PROVE  ClientInv(d)'
    <2>1. Untouched(d) /\ ClientInv(d)
      BY DEF StreamInv
    <2>2. Registered(d)'
      BY <2>1 DEF ClientInv, Registered, Untouched
    <2>3. Ordered(d)'
      BY <2>1 DEF ClientInv, Ordered, Untouched
    <2>4. d \in SseClient => Gapless(d)'
      BY <2>1 DEF ClientInv, Gapless, Untouched, LogSince
    <2> QED BY <2>2, <2>3, <2>4 DEF ClientInv
  <1> QED BY <1>1 DEF StreamInv

\* A step that changes subscribers and channels only.
LEMMA StoreStays ==
  ASSUME StreamInv, UNCHANGED <<engineVars, cancelVars, jobs, log>>,
         subs' \in [Job -> SUBSET Client], channels' \in [Client -> Seq(EventKind)]
  PROVE  TypeInv' /\ RecordsInOrder'
  <1>1. TypeInv /\ RecordsInOrder
    BY DEF StreamInv
  <1>2. UNCHANGED <<jobs, log, stage, queueVars, threadVars, cancelVars, released, runs>>
    BY DEF engineVars
  <1>3. StoreTypeOK'
    BY <1>1, <1>2 DEF TypeInv, TypeOK, StoreTypeOK
  <1>4. QueueTypeOK' /\ ThreadTypeOK' /\ CancelTypeOK'
    BY <1>1, <1>2, TypeUnchanged DEF TypeInv, TypeOK
  <1>5. IndexInRange' /\ TypeOK'
    BY <1>1, <1>2, <1>3, <1>4 DEF TypeInv, TypeOK, IndexInRange, threadVars
  <1>6. RecordsInOrder'
    BY <1>1, <1>2 DEF RecordsInOrder, Current, threadVars, cancelVars
  <1> QED BY <1>5, <1>6 DEF TypeInv

\* A step that changes no store at all.
LEMMA AllStays ==
  ASSUME StreamInv, UNCHANGED vars
  PROVE  TypeInv' /\ RecordsInOrder' /\ UNCHANGED <<log, channels, subs>>
  <1>1. UNCHANGED <<engineVars, cancelVars, jobs, log, subs, channels>>
    BY DEF vars, storeVars, engineVars
  <1>2. subs \in [Job -> SUBSET Client] /\ channels \in [Client -> Seq(EventKind)]
    BY DEF StreamInv, TypeInv, TypeOK, StoreTypeOK
  <1> QED BY <1>1, <1>2, StoreStays

\* The first read of the record.
LEMMA OpenKeeps ==
  ASSUME StreamInv, NEW c \in Client, NEW j \in Job, Open(c, j)
  PROVE  StreamInv'
  <1>1. /\ TypeInv' /\ RecordsInOrder' /\ UNCHANGED <<log, channels, subs>>
        /\ UNCHANGED <<orphans, delivered, since>>
    BY AllStays DEF Open
  <1>2. /\ HandlerTypeOK /\ StoreTypeOK /\ RecordsInOrder /\ ClientInv(c) /\ where[c] = "idle"
    BY DEF StreamInv, TypeInv, TypeOK, Open, At
  <1>3. /\ log[j] \in Seq(EventKind) /\ jobs[j].events \in Seq(EventKind)
        /\ << >> \in Seq(EventKind)
    BY <1>2 DEF StoreTypeOK, JobRecord
  <1>4. \/ snapshot' = [snapshot EXCEPT ![c] = << >>]
        \/ snapshot' = [snapshot EXCEPT ![c] = jobs[j].events]
    BY DEF Open
  <1>5. /\ where' = [where EXCEPT ![c] = "subscribe"]
        /\ watched' = [watched EXCEPT ![c] = j]
    BY DEF Open
  <1>6. HandlerTypeOK'
    BY <1>1, <1>2, <1>3, <1>4, <1>5 DEF HandlerTypeOK
  <1>7. /\ where'[c] = "subscribe" /\ watched'[c] = j
        /\ snapshot'[c] = << >> \/ snapshot'[c] = jobs[j].events
    BY <1>2, <1>4, <1>5 DEF HandlerTypeOK
  <1>8. Embeds(snapshot'[c], log[j])
    BY <1>2, <1>7, EmptyEmbeds DEF RecordsInOrder
  <1>9. ClientInv(c)'
    <2>1. Registered(c)'
      BY <1>1, <1>2, <1>7 DEF ClientInv, Registered, Following, Relaying
    <2>2. Ordered(c)'
      BY <1>1, <1>2, <1>7, <1>8 DEF ClientInv, Ordered, Relaying
    <2>3. c \in SseClient => Gapless(c)'
      BY <1>1, <1>2, <1>7 DEF ClientInv, Gapless, Following, Relaying
    <2> QED BY <2>1, <2>2, <2>3 DEF ClientInv
  <1>10. \A d \in Client \ {c} : Untouched(d)
    BY <1>1, <1>2, <1>4, <1>5 DEF Untouched, HandlerTypeOK
  <1> QED BY <1>1, <1>6, <1>9, <1>10, OneClientMoves

\* The channel begins empty, where the log is now.
LEMMA RegisterKeeps ==
  ASSUME StreamInv, NEW c \in Client, Register(c)
  PROVE  StreamInv'
  <1> DEFINE w == watched[c]
  <1>1. /\ HandlerTypeOK /\ StoreTypeOK /\ ClientInv(c) /\ where[c] = "subscribe"
    BY DEF StreamInv, TypeInv, TypeOK, Register, At
  <1>2. w \in Job /\ \A j \in Job : c \notin subs[j]
    BY <1>1 DEF ClientInv, Registered, Following, Relaying
  <1>3. /\ log[w] \in Seq(EventKind) /\ Len(log[w]) \in Nat
        /\ snapshot[c] \in Seq(EventKind) /\ delivered[c] = << >>
        /\ Embeds(snapshot[c], log[w])
    <2>1. log[w] \in Seq(EventKind) /\ snapshot[c] \in Seq(EventKind)
      BY <1>1, <1>2 DEF StoreTypeOK, HandlerTypeOK
    <2>2. delivered[c] = << >> /\ Embeds(snapshot[c], log[w])
      BY <1>1 DEF ClientInv, Ordered, Relaying
    <2> QED BY <2>1, <2>2, LenProperties
  <1>4. /\ UNCHANGED <<engineVars, cancelVars, jobs, log>>
        /\ UNCHANGED <<watched, snapshot, orphans, delivered>>
        /\ subs' = [subs EXCEPT ![w] = subs[w] \cup {c}]
        /\ channels' = [channels EXCEPT ![c] = << >>]
        /\ since' = [since EXCEPT ![c] = Len(log[w])]
        /\ where' = [where EXCEPT ![c] = "replay"]
    BY DEF Register, Subscribe
  <1>5. /\ subs' \in [Job -> SUBSET Client] /\ channels' \in [Client -> Seq(EventKind)]
        /\ HandlerTypeOK'
    <2>1. /\ subs \in [Job -> SUBSET Client] /\ channels \in [Client -> Seq(EventKind)]
          /\ << >> \in Seq(EventKind)
      BY <1>1 DEF StoreTypeOK
    <2>2. subs[w] \cup {c} \in SUBSET Client
      BY <1>2, <2>1
    <2> HIDE DEF w
    <2>3. subs' \in [Job -> SUBSET Client] /\ channels' \in [Client -> Seq(EventKind)]
      BY <1>4, <2>1, <2>2
    <2>4. HandlerTypeOK'
      BY <1>1, <1>3, <1>4 DEF HandlerTypeOK
    <2> QED BY <2>3, <2>4
  <1>6. TypeInv' /\ RecordsInOrder'
    BY <1>4, <1>5, StoreStays
  <1>7. /\ where'[c] = "replay" /\ watched'[c] = w /\ channels'[c] = << >>
        /\ since'[c] = Len(log[w])
        /\ \A j \in Job : c \in subs'[j] <=> j = w
    <2>1. where'[c] = "replay" /\ since'[c] = Len(log[w]) /\ watched'[c] = w
      BY <1>1, <1>4 DEF HandlerTypeOK
    <2>2. channels'[c] = << >> /\ \A j \in Job : c \in subs'[j] <=> j = w
      BY <1>1, <1>2, <1>4 DEF StoreTypeOK
    <2> QED BY <2>1, <2>2
  <1> HIDE DEF w
  <1>8. ClientInv(c)'
    <2>1. Registered(c)'
      BY <1>2, <1>7 DEF Registered, Following, Relaying
    <2>2. snapshot[c] \o << >> = snapshot[c]
      BY <1>3, ConcatEmptySeq
    <2>3. Ordered(c)'
      BY <1>3, <1>4, <1>7, <2>2 DEF Ordered, Relaying
    <2>4. LogSince(c)' = << >>
      <3>1. LogSince(c)' = SubSeq(log[w], Len(log[w]) + 1, Len(log[w]))
        BY <1>4, <1>7 DEF LogSince
      <3>2. Len(log[w]) + 1 \in Int /\ Len(log[w]) \in Int /\ Len(log[w]) < Len(log[w]) + 1
        BY <1>3
      <3> QED BY <3>1, <3>2, SubSeqEmpty
    <2>5. c \in SseClient => Gapless(c)'
      <3>1. c \in SseClient => orphans'[c] = 0
        BY <1>1, <1>4 DEF ClientInv, Gapless
      <3>2. since'[c] <= Len(log'[watched'[c]])
        BY <1>3, <1>4, <1>7
      <3> QED BY <1>7, <2>4, <3>1, <3>2 DEF Gapless
    <2> QED BY <2>1, <2>3, <2>5 DEF ClientInv
  <1>9. \A d \in Client \ {c} : Untouched(d)
    <2>1. \A d \in Client \ {c} : channels'[d] = channels[d]
                                  /\ \A j \in Job : d \in subs'[j] <=> d \in subs[j]
      BY <1>1, <1>2, <1>4 DEF StoreTypeOK
    <2> QED BY <1>1, <1>4, <2>1 DEF Untouched, HandlerTypeOK
  <1> QED BY <1>4, <1>6, <1>5, <1>8, <1>9, OneClientMoves

\* The replay is what the handler read first.
LEMMA ReplayKeeps ==
  ASSUME StreamInv, NEW c \in Client, Replay(c)
  PROVE  StreamInv'
  <1>1. /\ TypeInv' /\ RecordsInOrder' /\ UNCHANGED <<log, channels, subs>>
        /\ UNCHANGED <<watched, snapshot, orphans, since>>
        /\ where' = [where EXCEPT ![c] = "loop"]
        /\ delivered' = [delivered EXCEPT ![c] = snapshot[c]]
    BY AllStays DEF Replay
  <1>2. HandlerTypeOK /\ ClientInv(c) /\ where[c] = "replay"
    BY DEF StreamInv, Replay, At
  <1>3. /\ HandlerTypeOK'
        /\ where'[c] = "loop" /\ delivered'[c] = snapshot[c]
    BY <1>1, <1>2 DEF HandlerTypeOK
  <1>4. ClientInv(c)'
    <2>1. Registered(c)'
      BY <1>1, <1>2, <1>3 DEF ClientInv, Registered, Following, Relaying
    <2>2. Ordered(c)'
      BY <1>1, <1>2, <1>3 DEF ClientInv, Ordered, Relaying
    <2>3. c \in SseClient => Gapless(c)'
      BY <1>1, <1>2, <1>3 DEF ClientInv, Gapless, LogSince, Following, Relaying
    <2> QED BY <2>1, <2>2, <2>3 DEF ClientInv
  <1>5. \A d \in Client \ {c} : Untouched(d)
    BY <1>1, <1>2 DEF Untouched, HandlerTypeOK
  <1> QED BY <1>1, <1>3, <1>4, <1>5, OneClientMoves

\* An event goes from the channel to the client.
LEMMA ReceiveKeeps ==
  ASSUME StreamInv, NEW c \in Client, Receive(c)
  PROVE  StreamInv'
  <1>1. /\ HandlerTypeOK /\ StoreTypeOK /\ ClientInv(c) /\ where[c] = "loop"
        /\ channels[c] # << >>
    BY DEF StreamInv, TypeInv, TypeOK, Receive, At
  <1>2. /\ UNCHANGED <<engineVars, cancelVars, jobs, log>> /\ UNCHANGED subs
        /\ UNCHANGED <<watched, snapshot, orphans, since>>
        /\ delivered' = [delivered EXCEPT ![c] = Append(delivered[c], Head(channels[c]))]
        /\ channels' = [channels EXCEPT ![c] = Tail(channels[c])]
        /\ where' = [where EXCEPT ![c] = "poll"]
    BY DEF Receive, Rest
  <1>3. /\ channels[c] \in Seq(EventKind) /\ delivered[c] \in Seq(EventKind)
        /\ Head(channels[c]) \in EventKind /\ Tail(channels[c]) \in Seq(EventKind)
        /\ Append(delivered[c], Head(channels[c])) \in Seq(EventKind)
    <2>1. channels[c] \in Seq(EventKind) /\ delivered[c] \in Seq(EventKind)
      BY <1>1 DEF StoreTypeOK, HandlerTypeOK
    <2>2. Head(channels[c]) \in EventKind /\ Tail(channels[c]) \in Seq(EventKind)
      BY <1>1, <2>1, HeadTailProperties
    <2> QED BY <2>1, <2>2
  <1>4. /\ subs' \in [Job -> SUBSET Client] /\ channels' \in [Client -> Seq(EventKind)]
        /\ HandlerTypeOK'
    <2>1. subs' \in [Job -> SUBSET Client] /\ channels' \in [Client -> Seq(EventKind)]
      BY <1>1, <1>2, <1>3 DEF StoreTypeOK
    <2>2. HandlerTypeOK'
      BY <1>1, <1>2, <1>3 DEF HandlerTypeOK
    <2> QED BY <2>1, <2>2
  <1>5. TypeInv' /\ RecordsInOrder'
    BY <1>2, <1>4, StoreStays
  <1>6. /\ where'[c] = "poll" /\ channels'[c] = Tail(channels[c])
        /\ delivered'[c] = Append(delivered[c], Head(channels[c]))
    BY <1>1, <1>2 DEF HandlerTypeOK, StoreTypeOK
  <1>7. delivered'[c] \o channels'[c] = delivered[c] \o channels[c]
    BY <1>1, <1>3, <1>6, MoveHead
  <1>8. ClientInv(c)'
    <2>1. Registered(c)'
      BY <1>1, <1>2, <1>6 DEF ClientInv, Registered, Following, Relaying
    <2>2. Ordered(c)'
      BY <1>1, <1>2, <1>6, <1>7 DEF ClientInv, Ordered, Relaying
    <2>3. c \in SseClient => Gapless(c)'
      BY <1>1, <1>2, <1>6, <1>7 DEF ClientInv, Gapless, LogSince, Following, Relaying
    <2> QED BY <2>1, <2>2, <2>3 DEF ClientInv
  <1>9. \A d \in Client \ {c} : Untouched(d)
    BY <1>1, <1>2 DEF Untouched, HandlerTypeOK, StoreTypeOK
  <1> QED BY <1>2, <1>4, <1>5, <1>8, <1>9, OneClientMoves

\* A handler that goes on or ends with its channel as it is.
LEMMA PollKeeps ==
  ASSUME StreamInv, NEW c \in Client, Poll(c) \/ Disconnect(c)
  PROVE  StreamInv'
  <1>1. /\ TypeInv' /\ RecordsInOrder' /\ UNCHANGED <<log, channels, subs>>
        /\ UNCHANGED <<watched, snapshot, orphans, delivered, since>>
    BY AllStays DEF Poll, Disconnect
  <1>2. HandlerTypeOK /\ StoreTypeOK /\ ClientInv(c)
    BY DEF StreamInv, TypeInv, TypeOK
  <1>3. PICK label \in {"loop", "finished", "gone"} :
            /\ where' = [where EXCEPT ![c] = label]
            /\ \/ where[c] \in {"loop", "poll"}
               \/ where[c] = "replay" /\ label = "gone"
    BY DEF Poll, Disconnect, At
  <1>4. HandlerTypeOK' /\ where'[c] = label
    BY <1>1, <1>2, <1>3 DEF HandlerTypeOK
  <1>5. ClientInv(c)'
    <2>1. Registered(c)'
      BY <1>1, <1>2, <1>3, <1>4 DEF ClientInv, Registered, Following, Relaying
    <2>2. Ordered(c)'
      <3>1. CASE where[c] \in {"loop", "poll"}
        BY <1>1, <1>2, <1>4, <3>1 DEF ClientInv, Ordered, Relaying
      <3>2. CASE where[c] = "replay"
        <4>1. /\ delivered[c] = << >> /\ watched[c] \in Job
              /\ Embeds(snapshot[c] \o channels[c], log[watched[c]])
          BY <1>2, <3>2 DEF ClientInv, Ordered, Registered, Relaying, Following
        <4>2. /\ snapshot[c] \in Seq(EventKind) /\ channels[c] \in Seq(EventKind)
              /\ log[watched[c]] \in Seq(EventKind)
          BY <1>2, <4>1 DEF HandlerTypeOK, StoreTypeOK
        <4>3. Embeds(delivered[c] \o channels[c], log[watched[c]])
          <5>1. << >> \o channels[c] = channels[c]
            BY <4>2, ConcatEmptySeq
          <5>2. Embeds(channels[c], log[watched[c]])
            BY <4>1, <4>2, BackEmbeds
          <5> QED BY <4>1, <5>1, <5>2
        <4> QED BY <1>1, <1>3, <1>4, <3>2, <4>3 DEF Ordered, Relaying
      <3> QED BY <1>3, <3>1, <3>2
    <2>3. c \in SseClient => Gapless(c)'
      BY <1>1, <1>2, <1>3, <1>4 DEF ClientInv, Gapless, LogSince, Following, Relaying
    <2> QED BY <2>1, <2>2, <2>3 DEF ClientInv
  <1>6. \A d \in Client \ {c} : Untouched(d)
    BY <1>1, <1>2, <1>3 DEF Untouched, HandlerTypeOK
  <1> QED BY <1>1, <1>4, <1>5, <1>6, OneClientMoves

\* The finally clause forgets everything.
LEMMA CloseKeeps ==
  ASSUME StreamInv, NEW c \in Client, Close(c)
  PROVE  StreamInv'
  <1> DEFINE w == watched[c]
  <1>1. /\ HandlerTypeOK /\ StoreTypeOK /\ ClientInv(c) /\ where[c] \in {"finished", "gone"}
    BY DEF StreamInv, TypeInv, TypeOK, Close, At
  <1>2. w \in Job /\ \A j \in Job : c \in subs[j] <=> j = w
    BY <1>1 DEF ClientInv, Registered, Following, Relaying
  <1>3. /\ UNCHANGED <<engineVars, cancelVars, jobs, log>>
        /\ subs' = [subs EXCEPT ![w] = subs[w] \ {c}]
        /\ channels' = [channels EXCEPT ![c] = << >>]
        /\ watched' = [watched EXCEPT ![c] = NoChoice]
        /\ snapshot' = [snapshot EXCEPT ![c] = << >>]
        /\ delivered' = [delivered EXCEPT ![c] = << >>]
        /\ orphans' = [orphans EXCEPT ![c] = 0]
        /\ since' = [since EXCEPT ![c] = 0]
    BY DEF Close, Unsubscribe
  <1>4. PICK label \in {"completed", "closed"} : where' = [where EXCEPT ![c] = label]
    BY DEF Close
  <1>5. /\ subs' \in [Job -> SUBSET Client] /\ channels' \in [Client -> Seq(EventKind)]
        /\ HandlerTypeOK'
    <2>1. subs' \in [Job -> SUBSET Client] /\ channels' \in [Client -> Seq(EventKind)]
      BY <1>1, <1>2, <1>3 DEF StoreTypeOK
    <2>2. HandlerTypeOK'
      BY <1>1, <1>3, <1>4 DEF HandlerTypeOK
    <2> QED BY <2>1, <2>2
  <1>6. TypeInv' /\ RecordsInOrder'
    BY <1>3, <1>5, StoreStays
  <1>7. /\ where'[c] = label /\ watched'[c] = NoChoice /\ delivered'[c] = << >>
        /\ orphans'[c] = 0 /\ \A j \in Job : c \notin subs'[j]
    <2>1. \A j \in Job : c \notin subs'[j]
      BY <1>1, <1>2, <1>3 DEF StoreTypeOK
    <2> QED BY <1>1, <1>3, <1>4, <2>1 DEF HandlerTypeOK
  <1>8. ClientInv(c)'
    <2>1. Registered(c)'
      BY <1>7, StreamAssumption DEF Registered, Following, Relaying
    <2>2. Ordered(c)' /\ Gapless(c)'
      BY <1>7 DEF Ordered, Gapless, Following, Relaying
    <2> QED BY <2>1, <2>2 DEF ClientInv
  <1>9. \A d \in Client \ {c} : Untouched(d)
    <2>1. \A d \in Client \ {c} : channels'[d] = channels[d]
                                  /\ \A j \in Job : d \in subs'[j] <=> d \in subs[j]
      BY <1>1, <1>2, <1>3 DEF StoreTypeOK
    <2> QED BY <1>1, <1>3, <1>4, <2>1 DEF Untouched, HandlerTypeOK
  <1> QED BY <1>3, <1>5, <1>6, <1>8, <1>9, OneClientMoves

\* A client message leaves at most an abandoned get behind, and no SSE client
\* can send one.
LEMMA MessageKeeps ==
  ASSUME StreamInv, NEW c \in Client, OtherMessage(c) \/ CancelMessage(c)
  PROVE  StreamInv'
  <1>1. /\ HandlerTypeOK /\ TypeInv /\ RecordsInOrder /\ StoreTypeOK /\ ClientInv(c)
        /\ c \in Canceller /\ c \notin SseClient /\ where[c] \in {"loop", "poll"}
    BY StreamAssumption DEF StreamInv, TypeInv, TypeOK, OtherMessage, CancelMessage, At
  <1>2. watched[c] \in Job
    BY <1>1 DEF ClientInv, Registered, Following, Relaying
  <1>3. /\ TypeInv' /\ RecordsInOrder' /\ UNCHANGED <<log, channels, subs>>
    <2>1. CASE OtherMessage(c)
      BY <2>1, AllStays DEF OtherMessage
    <2>2. CASE CancelMessage(c)
      <3>1. CancelReads(c, watched[c])
        BY <2>2 DEF CancelMessage, Cancel
      <3>2. UNCHANGED <<log, channels, subs>>
        BY <3>1 DEF CancelReads, storeVars
      <3> QED BY <1>1, <1>2, <3>1, <3>2, CancelKeepsOrder
    <2> QED BY <2>1, <2>2
  <1>4. /\ UNCHANGED <<where, watched, snapshot, delivered, since>>
        /\ UNCHANGED orphans \/ orphans' = [orphans EXCEPT ![c] = orphans[c] + 1]
    BY DEF OtherMessage, CancelMessage, Orphan
  <1>5. HandlerTypeOK'
    <2>1. orphans \in [Client -> Nat] /\ orphans[c] + 1 \in Nat
      BY <1>1 DEF HandlerTypeOK
    <2>2. orphans' \in [Client -> Nat]
      BY <1>4, <2>1
    <2> QED BY <1>1, <1>4, <2>2 DEF HandlerTypeOK
  <1>6. ClientInv(c)'
    BY <1>1, <1>3, <1>4 DEF ClientInv, Registered, Ordered
  <1>7. \A d \in Client \ {c} : Untouched(d)
    BY <1>1, <1>3, <1>4 DEF Untouched, HandlerTypeOK
  <1> QED BY <1>3, <1>5, <1>6, <1>7, OneClientMoves

\* An abandoned get takes an event away, which breaks no order.
LEMMA OrphanKeeps ==
  ASSUME StreamInv, NEW c \in Client, OrphanTakes(c) \/ OrphanGivesUp(c)
  PROVE  StreamInv'
  <1>1. /\ HandlerTypeOK /\ StoreTypeOK /\ ClientInv(c) /\ orphans[c] > 0
    BY DEF StreamInv, TypeInv, TypeOK, OrphanTakes, OrphanGivesUp
  <1>2. c \notin SseClient
    <2>1. orphans[c] # 0
      BY <1>1 DEF HandlerTypeOK
    <2> QED BY <1>1, <2>1 DEF ClientInv, Gapless
  <1>3. /\ UNCHANGED <<where, watched, snapshot, delivered, since>>
        /\ orphans' = [orphans EXCEPT ![c] = orphans[c] - 1]
    BY DEF OrphanTakes, OrphanGivesUp
  <1>4. HandlerTypeOK'
    BY <1>1, <1>3 DEF HandlerTypeOK
  <1>5. CASE OrphanGivesUp(c)
    <2>1. TypeInv' /\ RecordsInOrder' /\ UNCHANGED <<log, channels, subs>>
      BY <1>5, AllStays DEF OrphanGivesUp
    <2>2. ClientInv(c)'
      BY <1>1, <1>2, <1>3, <2>1 DEF ClientInv, Registered, Ordered
    <2>3. \A d \in Client \ {c} : Untouched(d)
      BY <1>1, <1>3, <2>1 DEF Untouched, HandlerTypeOK
    <2> QED BY <1>4, <2>1, <2>2, <2>3, OneClientMoves
  <1>6. CASE OrphanTakes(c)
    <2>1. /\ UNCHANGED <<engineVars, cancelVars, jobs, log>> /\ UNCHANGED subs
          /\ channels[c] # << >>
          /\ channels' = [channels EXCEPT ![c] = Tail(channels[c])]
      BY <1>6 DEF OrphanTakes
    <2>2. /\ channels[c] \in Seq(EventKind) /\ Tail(channels[c]) \in Seq(EventKind)
          /\ snapshot[c] \in Seq(EventKind) /\ delivered[c] \in Seq(EventKind)
      <3>1. channels[c] \in Seq(EventKind)
        BY <1>1 DEF StoreTypeOK
      <3> QED BY <1>1, <2>1, <3>1, HeadTailProperties DEF HandlerTypeOK
    <2>3. subs' \in [Job -> SUBSET Client] /\ channels' \in [Client -> Seq(EventKind)]
      BY <1>1, <2>1, <2>2 DEF StoreTypeOK
    <2>4. TypeInv' /\ RecordsInOrder'
      BY <2>1, <2>3, StoreStays
    <2>5. channels'[c] = Tail(channels[c])
      BY <1>1, <2>1 DEF StoreTypeOK
    <2>6. ASSUME NEW s \in Seq(EventKind), watched[c] \in Job,
                 Embeds(s \o channels[c], log[watched[c]])
          PROVE  Embeds(s \o channels'[c], log[watched[c]])
      <3>1. log[watched[c]] \in Seq(EventKind)
        BY <1>1, <2>6 DEF StoreTypeOK
      <3> QED BY <2>1, <2>2, <2>5, <2>6, <3>1, EmbedsWithoutOne
    <2>7. Registered(c)'
      BY <1>1, <1>3, <2>1 DEF ClientInv, Registered
    <2>8. Ordered(c)'
      <3>1. where[c] \in Following => watched[c] \in Job
        BY <1>1 DEF ClientInv, Registered
      <3> QED BY <1>1, <1>3, <2>1, <2>2, <2>6, <3>1 DEF ClientInv, Ordered, Following, Relaying
    <2>9. ClientInv(c)'
      BY <1>2, <2>7, <2>8 DEF ClientInv
    <2>10. \A d \in Client \ {c} : Untouched(d)
      BY <1>1, <1>3, <2>1 DEF Untouched, HandlerTypeOK, StoreTypeOK
    <2> QED BY <1>4, <2>1, <2>4, <2>9, <2>10, OneClientMoves
  <1> QED BY <1>5, <1>6
-------------------------------------------------------------------------------
(* The theorems.                                                           *)

\* Nobody is connected at first.
LEMMA InitStream == StreamInit => StreamInv
  <1> SUFFICES ASSUME StreamInit PROVE StreamInv
    OBVIOUS
  <1>1. TypeInv /\ Init /\ StoreInit
    BY InitTypeInv DEF StreamInit, Init
  <1>2. HandlerTypeOK
    BY DEF StreamInit, HandlerTypeOK
  <1>3. RecordsInOrder
    <2>1. \A j \in Job : jobs[j].events = << >>
      BY <1>1 DEF StoreInit, NewRecord
    <2>2. /\ \A t \in Thread : pc[t] \notin Saving
          /\ \A c \in Canceller : cpc[c] # "save"
      BY <1>1 DEF Init, Saving
    <2> QED BY <2>1, <2>2, EmptyEmbeds DEF RecordsInOrder
  <1>4. ASSUME NEW c \in Client
        PROVE  ClientInv(c)
    BY <1>1, StreamAssumption
    DEF StreamInit, StoreInit, ClientInv, Registered, Ordered, Gapless, Following, Relaying
  <1> QED BY <1>1, <1>2, <1>3, <1>4 DEF StreamInv

\* Every step keeps the invariant.
LEMMA NextStream == StreamInv /\ [StreamNext]_allVars => StreamInv'
  <1> SUFFICES ASSUME StreamInv, [StreamNext]_allVars PROVE StreamInv'
    OBVIOUS
  <1>1. CASE EngineStep
    <2>1. TypeInv /\ RecordsInOrder /\ HandlerTypeOK /\ UNCHANGED streamVars
      BY <1>1 DEF StreamInv, EngineStep
    <2>2. TypeInv' /\ RecordsInOrder' /\ LogGrows /\ UNCHANGED subs
      BY <1>1, <2>1, EngineKeepsOrder
    <2>3. HandlerTypeOK'
      BY <2>1 DEF HandlerTypeOK, streamVars
    <2>4. \A c \in Client : ClientInv(c)'
      BY <2>1, <2>2, EngineKeepsClient
    <2> QED BY <2>2, <2>3, <2>4 DEF StreamInv
  <1>2. ASSUME NEW c \in Client, HandlerStep(c) \/ ClientStep(c)
        PROVE  StreamInv'
    BY <1>2, OpenKeeps, RegisterKeeps, ReplayKeeps, ReceiveKeeps, PollKeeps, CloseKeeps,
       MessageKeeps, OrphanKeeps
    DEF HandlerStep, ClientStep
  <1>3. CASE UNCHANGED allVars
    <2>1. UNCHANGED vars /\ UNCHANGED streamVars /\ HandlerTypeOK
      BY <1>3 DEF allVars, StreamInv
    <2>2. TypeInv' /\ RecordsInOrder' /\ UNCHANGED <<log, channels, subs>>
      BY <2>1, AllStays
    <2>3. HandlerTypeOK'
      BY <2>1 DEF HandlerTypeOK, streamVars
    <2>4. \A c \in Client : ClientInv(c)'
      BY <2>1, <2>2, EngineKeepsClient DEF LogGrows
    <2> QED BY <2>2, <2>3, <2>4 DEF StreamInv
  <1> QED BY <1>1, <1>2, <1>3 DEF StreamNext

\* In every state, for every client: what it was sent is in order.
LEMMA OrderFollows == StreamInv => InOrderDelivery
  <1> SUFFICES ASSUME StreamInv, NEW c \in Client, watched[c] \in Job
               PROVE  Embeds(delivered[c], log[watched[c]])
    BY DEF InOrderDelivery
  <1>1. ClientInv(c) /\ HandlerTypeOK /\ StoreTypeOK
    BY DEF StreamInv, TypeInv, TypeOK
  <1>2. /\ delivered[c] \in Seq(EventKind) /\ channels[c] \in Seq(EventKind)
        /\ log[watched[c]] \in Seq(EventKind)
    BY <1>1 DEF HandlerTypeOK, StoreTypeOK
  <1>3. CASE where[c] \in Relaying
    <2>1. Embeds(delivered[c] \o channels[c], log[watched[c]])
      BY <1>1, <1>3 DEF ClientInv, Ordered
    <2> QED BY <1>2, <2>1, FrontEmbeds
  <1>4. CASE where[c] \notin Relaying
    BY <1>1, <1>4, EmptyEmbeds DEF ClientInv, Ordered
  <1> QED BY <1>3, <1>4

\* No client gets an event twice or out of order, whatever is lost: replay and
\* channel together stay in the order of the log, through stale saves, orphaned
\* gets and reconnecting readers (the routes' replay and relay loops).
THEOREM DeliveredInOrder == StreamSpec => []InOrderDelivery
  <1> QED BY InitStream, NextStream, OrderFollows, PTL DEF StreamSpec

\* An SSE client that is connected has missed no event since its channel was
\* registered: what it got and what is on the channel continue the replay.
THEOREM NoEventMissed == StreamSpec => []NothingMissedSince
  <1>1. StreamInv => NothingMissedSince
    <2>1. SseClient \subseteq Client
      BY StreamAssumption
    <2> QED BY <2>1 DEF StreamInv, ClientInv, Gapless, LogSince, NothingMissedSince
  <1> QED BY <1>1, InitStream, NextStream, PTL DEF StreamSpec

===============================================================================
