---------------------------- MODULE FlashTalkWorker ----------------------------
(***************************************************************************)
(* Rank 0 of the distributed FlashTalk resident worker                     *)
(* (src/omnirt/models/flashtalk/resident_worker.py), as the command        *)
(* resident-flashtalk-worker runs it: gRPC handler threads queue requests, *)
(* a coordinator thread broadcasts and runs them, and the main thread      *)
(* shuts the worker down when serve_forever ends.                          *)
(*                                                                         *)
(* No lock protects the worker: start, submit, the coordinator and         *)
(* shutdown read and write its fields one by one.  submit starts a worker  *)
(* that is not started, also one that was just shut down; the handle's     *)
(* lock does not help, since the command shuts down the worker itself.     *)
(*                                                                         *)
(* The broadcast and the run on the devices are one long step ("run"); it  *)
(* is the only one that outlasts the join of shutdown.  The peers, the     *)
(* metrics and the _inflight counter are left out.                         *)
(***************************************************************************)
EXTENDS Naturals, Sequences, FiniteSets

CONSTANTS
    Request,      \* requests, each in a gRPC handler thread of its own
    Coordinator,  \* the coordinator threads there can be
    NoItem,       \* nothing in hand, no thread
    Sentinel,     \* the None that shutdown queues
    Main          \* the main thread

ASSUME FlashTalkAssumption ==
    /\ Coordinator # {} /\ Main \notin Coordinator
    /\ NoItem \notin Request \cup Coordinator
    /\ Sentinel \notin Request \cup {NoItem}

VARIABLES
    started,      \* _started
    loaded,       \* whether _pipeline is set
    dist,         \* whether _dist is set
    flag,         \* _shutdown_requested
    thread,       \* _coordinator_thread
    queue,        \* _request_queue
    coordinator,  \* where each coordinator is and the item it has
    main,         \* where the main thread is and the item it drains
    call,         \* where the submit of each request is
    reply,        \* its _QueuedRequest: done is set unless "none"
    early,        \* history: requests queued before the drain was over
    failed,       \* history: a broadcast raised
    runs          \* history: how often each request was run

fields == <<started, loaded, dist, flag, thread>>
vars == <<fields, queue, coordinator, main, call, reply, early, failed, runs>>

First == CHOOSE k \in Coordinator : TRUE

Off == [at |-> "unborn", item |-> NoItem]

\* The worker is started before the server accepts requests.
FlashTalkInit ==
    /\ started = TRUE /\ loaded = TRUE /\ dist = TRUE /\ flag = FALSE
    /\ thread = First
    /\ queue = << >>
    /\ coordinator = [k \in Coordinator |-> IF k = First THEN [Off EXCEPT !.at = "loop"] ELSE Off]
    /\ main = [at |-> "serving", item |-> NoItem]
    /\ call = [r \in Request |-> "idle"]
    /\ reply = [r \in Request |-> "none"]
    /\ early = {} /\ failed = FALSE
    /\ runs = [r \in Request |-> 0]

Go(r, label) == call' = [call EXCEPT ![r] = label]
-------------------------------------------------------------------------------
(* submit                                                                  *)

\* RunSync: the server takes requests until it is stopped.
Submit(r) ==
    /\ call[r] = "idle" /\ main.at = "serving"
    /\ Go(r, "start")
    /\ UNCHANGED <<fields, queue, coordinator, main, reply, early, failed, runs>>

Start(r) ==
    /\ call[r] = "start"
    /\ Go(r, IF started THEN "ready" ELSE "loading")
    /\ UNCHANGED <<fields, queue, coordinator, main, reply, early, failed, runs>>

\* The models are loaded; a new coordinator thread starts.
Load(r, k) ==
    /\ call[r] = "loading" /\ coordinator[k].at = "unborn"
    /\ started' = TRUE /\ loaded' = TRUE /\ dist' = TRUE /\ flag' = FALSE
    /\ thread' = k
    /\ coordinator' = [coordinator EXCEPT ![k].at = "loop"]
    /\ Go(r, "ready")
    /\ UNCHANGED <<queue, main, reply, early, failed, runs>>

\* It fails before or after the pipeline is set.
LoadFails(r) ==
    /\ call[r] = "loading"
    /\ loaded' \in {loaded, TRUE}
    /\ Go(r, "returned")
    /\ UNCHANGED <<started, dist, flag, thread, queue, coordinator, main, reply, early, failed, runs>>

Ready(r) ==
    /\ call[r] = "ready"
    /\ Go(r, IF started /\ loaded THEN "route" ELSE "returned")
    /\ UNCHANGED <<fields, queue, coordinator, main, reply, early, failed, runs>>

\* Without _dist the request is run inline, whatever comes of it.
Route(r) ==
    /\ call[r] = "route"
    /\ Go(r, IF dist THEN "put" ELSE "returned")
    /\ UNCHANGED <<fields, queue, coordinator, main, reply, early, failed, runs>>

Put(r) ==
    /\ call[r] = "put"
    /\ queue' = Append(queue, r)
    /\ early' = IF main.at \in {"serving", "sentinel", "join", "drain", "fail"}
                THEN early \cup {r} ELSE early
    /\ Go(r, "wait")
    /\ UNCHANGED <<fields, coordinator, main, reply, failed, runs>>

\* done.wait() has no time-out.
Return(r) ==
    /\ call[r] = "wait" /\ reply[r] # "none"
    /\ Go(r, "returned")
    /\ UNCHANGED <<fields, queue, coordinator, main, reply, early, failed, runs>>
-------------------------------------------------------------------------------
(* _coordinator_loop                                                       *)

Become(k, label, item) == coordinator' = [coordinator EXCEPT ![k] = [at |-> label, item |-> item]]

LookAtFlag(k) ==
    /\ coordinator[k].at = "loop"
    /\ Become(k, IF flag THEN "dead" ELSE "get", NoItem)
    /\ UNCHANGED <<fields, queue, main, call, reply, early, failed, runs>>

\* The item is looked at and stays in the queue.
Get_Leaves(k) ==
    /\ coordinator[k].at = "get" /\ queue # << >>
    /\ queue' = IF Head(queue) = Sentinel THEN Tail(queue) ELSE queue
    /\ IF Head(queue) = Sentinel THEN Become(k, "dead", NoItem)
                                 ELSE Become(k, "begin", Head(queue))
    /\ UNCHANGED <<fields, main, call, reply, early, failed, runs>>

\* The sentinel ends the thread, whether the farewell to the peers succeeds or not.
Get(k) ==
    /\ coordinator[k].at = "get" /\ queue # << >>
    /\ queue' = Tail(queue)
    /\ IF Head(queue) = Sentinel THEN Become(k, "dead", NoItem)
                                 ELSE Become(k, "begin", Head(queue))
    /\ UNCHANGED <<fields, main, call, reply, early, failed, runs>>

GetTimesOut(k) ==
    /\ coordinator[k].at = "get" /\ queue = << >>
    /\ Become(k, "loop", NoItem)
    /\ UNCHANGED <<fields, queue, main, call, reply, early, failed, runs>>

\* _run_broadcast_step asserts _dist before its try.
Begin(k) ==
    /\ coordinator[k].at = "begin"
    /\ IF dist
       THEN /\ coordinator' = [coordinator EXCEPT ![k].at = "run"]
            /\ runs' = [runs EXCEPT ![coordinator[k].item] = @ + 1]
       ELSE /\ Become(k, "dead", NoItem)
            /\ UNCHANGED runs
    /\ UNCHANGED <<fields, queue, main, call, reply, early, failed>>

Answer(k) ==
    \E answer \in {"result", "error"} :
        reply' = [reply EXCEPT ![coordinator[k].item] = answer]

RunEnds(k) ==
    /\ coordinator[k].at = "run"
    /\ Answer(k)
    /\ Become(k, "loop", NoItem)
    /\ UNCHANGED <<fields, queue, main, call, early, failed, runs>>

\* The broadcast is outside the try: the thread ends, its request is not done.
BroadcastFails(k) ==
    /\ coordinator[k].at = "run"
    /\ Become(k, "dead", NoItem)
    /\ failed' = TRUE
    /\ UNCHANGED <<fields, queue, main, call, reply, early, runs>>
-------------------------------------------------------------------------------
(* shutdown, by the main thread                                            *)

Proceed(label) == main' = [at |-> label, item |-> NoItem]

\* An interrupt, or a dead coordinator, ends serve_forever and stops the server.
Shutdown ==
    /\ main.at = "serving"
    /\ flag' = TRUE
    /\ Proceed("sentinel")
    /\ UNCHANGED <<started, loaded, dist, thread, queue, coordinator, call, reply, early,
                   failed, runs>>

PutSentinel ==
    /\ main.at = "sentinel"
    /\ queue' = Append(queue, Sentinel)
    /\ Proceed("join")
    /\ UNCHANGED <<fields, coordinator, call, reply, early, failed, runs>>

\* The thread has ended, or it is in a run and the join times out.
Join ==
    /\ main.at = "join" /\ coordinator[thread].at \in {"dead", "run"}
    /\ thread' = NoItem
    /\ Proceed("drain")
    /\ UNCHANGED <<started, loaded, dist, flag, queue, coordinator, call, reply, early,
                   failed, runs>>

\* _drain_queue
DrainTakes ==
    /\ main.at = "drain" /\ queue # << >>
    /\ queue' = Tail(queue)
    /\ main' = IF Head(queue) = Sentinel THEN main ELSE [at |-> "fail", item |-> Head(queue)]
    /\ UNCHANGED <<fields, coordinator, call, reply, early, failed, runs>>

\* One request is failed, not all.
DrainFails_Once ==
    /\ main.at = "fail"
    /\ reply' = [reply EXCEPT ![main.item] = "error"]
    /\ Proceed("dist")
    /\ UNCHANGED <<fields, queue, coordinator, call, early, failed, runs>>

DrainFails ==
    /\ main.at = "fail"
    /\ reply' = [reply EXCEPT ![main.item] = "error"]
    /\ Proceed("drain")
    /\ UNCHANGED <<fields, queue, coordinator, call, early, failed, runs>>

\* The queue is found empty and the flag is cleared.
DrainEnds ==
    /\ main.at = "drain" /\ queue = << >>
    /\ flag' = FALSE
    /\ Proceed("dist")
    /\ UNCHANGED <<started, loaded, dist, thread, queue, coordinator, call, reply, early,
                   failed, runs>>

\* The remaining fields are cleared one after the other.
Clear ==
    /\ \/ main.at = "dist" /\ dist' = FALSE /\ Proceed("loaded") /\ UNCHANGED <<started, loaded>>
       \/ main.at = "loaded" /\ loaded' = FALSE /\ Proceed("started") /\ UNCHANGED <<started, dist>>
       \/ main.at = "started" /\ started' = FALSE /\ Proceed("over") /\ UNCHANGED <<loaded, dist>>
    /\ UNCHANGED <<flag, thread, queue, coordinator, call, reply, early, failed, runs>>
-------------------------------------------------------------------------------
HandlerStep(r) ==
    \/ Start(r) \/ LoadFails(r) \/ Ready(r) \/ Route(r) \/ Put(r) \/ Return(r)
    \/ \E k \in Coordinator : Load(r, k)

CoordinatorStep(k) ==
    \/ LookAtFlag(k) \/ Get(k) \/ GetTimesOut(k) \/ Begin(k) \/ RunEnds(k) \/ BroadcastFails(k)

ShutdownStep == PutSentinel \/ Join \/ DrainTakes \/ DrainFails \/ DrainEnds \/ Clear

FlashTalkNext ==
    \/ \E r \in Request : Submit(r) \/ HandlerStep(r)
    \/ \E k \in Coordinator : CoordinatorStep(k)
    \/ Shutdown \/ ShutdownStep

FlashTalkSpec == FlashTalkInit /\ [][FlashTalkNext]_vars

\* The threads run and a run on the devices ends.  Nobody has to submit or to
\* interrupt the worker.
FairFlashTalkSpec ==
    /\ FlashTalkSpec
    /\ \A r \in Request : WF_vars(HandlerStep(r))
    /\ \A k \in Coordinator : WF_vars(CoordinatorStep(k))
    /\ WF_vars(ShutdownStep)
-------------------------------------------------------------------------------
FlashTalkTypeOK ==
    /\ {started, loaded, dist, flag, failed} \subseteq BOOLEAN
    /\ thread \in Coordinator \cup {NoItem}
    /\ queue \in Seq(Request \cup {Sentinel})
    /\ coordinator \in [Coordinator -> [at : {"unborn", "loop", "get", "begin", "run", "dead"},
                                        item : Request \cup {NoItem}]]
    /\ main \in [at : {"serving", "sentinel", "join", "drain", "fail", "dist", "loaded",
                       "started", "over"}, item : Request \cup {NoItem}]
    /\ call \in [Request -> {"idle", "start", "loading", "ready", "route", "put", "wait",
                             "returned"}]
    /\ reply \in [Request -> {"none", "result", "error"}]
    /\ early \subseteq Request
    /\ runs \in [Request -> {0, 1}]

Queued == {queue[i] : i \in DOMAIN queue}

\* No thread is named like a place of the abstract work pool.
ASSUME PlaceAssumption == (Coordinator \cup {Main}) \cap {"absent", "waiting", "done"} = {}

\* Where a request is, for the abstract work pool: its agents are the
\* coordinators and the main thread, which takes what it drains.
PlaceOf(r) ==
    IF r \in Queued THEN "waiting"
    ELSE IF \E k \in Coordinator : coordinator[k].item = r
    THEN CHOOSE k \in Coordinator : coordinator[k].item = r
    ELSE IF main.item = r THEN Main
    ELSE IF call[r] = "wait" \/ reply[r] # "none" THEN "done"
    ELSE "absent"

Pool == INSTANCE WorkPool WITH
    Item <- Request, Agent <- Coordinator \cup {Main},
    place <- [r \in Request |-> PlaceOf(r)], runs <- runs

\* Handlers, coordinators old and new, and the drain are a work pool: a
\* request is taken by one of them, run at most once and done only then.
ServesWorkPool == Pool!WorkPoolSpec

\* A request queued before the drain of shutdown is over gets its answer: from
\* the coordinator, also one that outlives the join, or from the drain.
EarlySubmitsReturn ==
    \A r \in Request : r \in early ~> (call[r] = "returned" \/ failed)
-------------------------------------------------------------------------------
(* What the documents and comments say, and the code does not do           *)

\* The submitting thread blocks until the coordinator answers.
EverySubmitReturns == \A r \in Request : call[r] = "wait" ~> call[r] = "returned"
===============================================================================
