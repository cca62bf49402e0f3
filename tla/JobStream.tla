------------------------------- MODULE JobStream -------------------------------
(***************************************************************************)
(* The three ways to follow a job while the engine works on it: the SSE    *)
(* route and the WebSocket route of src/omnirt/server/routes/jobs.py, and  *)
(* /v1/realtime of src/omnirt/server/routes/openai.py.                     *)
(*                                                                         *)
(* A handler reads the record, registers a channel, replays the events of  *)
(* the record and then relays the channel until it finds the job in a      *)
(* terminal state.  /v1/realtime registers after submit and replays        *)
(* nothing.  The WebSocket handlers wait for an event and for a client     *)
(* message at once; the loser is cancelled, but a channel.get that runs in *)
(* another thread cannot be: it stays as an orphan for its time-out and    *)
(* takes an event if one comes.                                            *)
(*                                                                         *)
(* Time-outs on an empty channel send a keep-alive and change nothing.     *)
(* The None that unsubscribe puts on a channel only meets an abandoned     *)
(* reader.                                                                 *)
(***************************************************************************)
EXTENDS JobEngine

CONSTANTS
    SseClient, SocketClient, RealtimeClient,
    NoChoice,      \* the job of a handler that serves none
    MaxHandlers,   \* bound on the handlers ever opened
    MaxOrphans,    \* bound on the abandoned channel.get calls per client
    MaxCancels     \* bound on the cancel calls under way at a time

ASSUME StreamAssumption ==
    /\ Client = SseClient \cup SocketClient \cup RealtimeClient
    /\ SseClient \cap Canceller = {} /\ SocketClient \cap RealtimeClient = {}
    /\ SocketClient \cup RealtimeClient \subseteq Canceller
    /\ NoChoice \notin Job
    /\ {MaxHandlers, MaxOrphans, MaxCancels} \subseteq Nat

VARIABLES
    where,      \* where each handler is
    watched,    \* job_id
    snapshot,   \* the events of the record the handler read
    orphans,    \* channel.get calls whose task was cancelled
    delivered,  \* history: events sent to the client
    since       \* history: length of the job's log when the channel was registered

streamVars == <<where, watched, snapshot, orphans, delivered, since>>
engineVars == <<stage, queueVars, threadVars, released, runs>>
allVars == <<vars, streamVars>>

StreamInit ==
    /\ Init
    /\ where = [c \in Client |-> "idle"]
    /\ watched = [c \in Client |-> NoChoice]
    /\ snapshot = [c \in Client |-> << >>]
    /\ orphans = [c \in Client |-> 0]
    /\ delivered = [c \in Client |-> << >>]
    /\ since = [c \in Client |-> 0]

InCall(c) == c \in Canceller /\ cpc[c] # "idle"

Cancel(c, j) ==
    /\ Cardinality({d \in Canceller : cpc[d] # "idle"}) < MaxCancels
    /\ CancelReads(c, j)

\* Cancellers that are no stream handlers: DELETE /v1/jobs/{job_id}.
Deleter == Canceller \ Client

At(c, label) == where[c] = label /\ ~InCall(c)

\* get_job for a client that has the id; for /v1/realtime the end of submit.
Open(c, j) ==
    /\ At(c, "idle") /\ stage[j] = "submitted"
    /\ Cardinality({d \in Client : where[d] # "idle"}) < MaxHandlers
    /\ watched' = [watched EXCEPT ![c] = j]
    /\ snapshot' = [snapshot EXCEPT ![c] = IF c \in RealtimeClient THEN << >>
                                           ELSE jobs[j].events]
    /\ where' = [where EXCEPT ![c] = "subscribe"]
    /\ UNCHANGED <<vars, orphans, delivered, since>>

Register(c) ==
    /\ At(c, "subscribe")
    /\ Subscribe(c, watched[c])
    /\ since' = [since EXCEPT ![c] = Len(log[watched[c]])]
    /\ where' = [where EXCEPT ![c] = "replay"]
    /\ UNCHANGED <<engineVars, cancelVars, watched, snapshot, orphans, delivered>>

\* The record is read again before the replay.
Replay_Rereads(c) ==
    /\ At(c, "replay")
    /\ delivered' = [delivered EXCEPT ![c] = jobs[watched[c]].events]
    /\ where' = [where EXCEPT ![c] = "loop"]
    /\ UNCHANGED <<vars, watched, snapshot, orphans, since>>

Replay(c) ==
    /\ At(c, "replay")
    /\ delivered' = [delivered EXCEPT ![c] = snapshot[c]]
    /\ where' = [where EXCEPT ![c] = "loop"]
    /\ UNCHANGED <<vars, watched, snapshot, orphans, since>>

\* What else is on the channel is thrown away.
Rest_Drains(c) == << >>

Rest(c) == Tail(channels[c])

\* channel.get returns an event, which goes to the client.
Receive(c) ==
    /\ At(c, "loop") /\ channels[c] # << >>
    /\ delivered' = [delivered EXCEPT ![c] = Append(@, Head(channels[c]))]
    /\ channels' = [channels EXCEPT ![c] = Rest(c)]
    /\ where' = [where EXCEPT ![c] = "poll"]
    /\ UNCHANGED <<engineVars, cancelVars, jobs, subs, log,
                   watched, snapshot, orphans, since>>

\* A cancelled job is not seen as finished.
Finished_NotCancelled(j) == jobs[j].state \in {"succeeded", "failed"}

Finished(j) == jobs[j].state \in TerminalState

\* get_job after each event: a terminal job ends the stream.
Poll(c) ==
    /\ At(c, "poll")
    /\ where' = [where EXCEPT ![c] = IF Finished(watched[c]) THEN "finished" ELSE "loop"]
    /\ UNCHANGED <<vars, watched, snapshot, orphans, delivered, since>>

\* The client goes away; the handler notices when it waits or sends.
Disconnect(c) ==
    /\ At(c, "loop") \/ At(c, "poll") \/ (c \in SocketClient /\ At(c, "replay"))
    /\ where' = [where EXCEPT ![c] = "gone"]
    /\ UNCHANGED <<vars, watched, snapshot, orphans, delivered, since>>

\* The finally clause: the handler and its channel are gone.  One that
\* finished told its client so.
Close(c) ==
    /\ At(c, "finished") \/ At(c, "gone")
    /\ Unsubscribe(c, watched[c])
    /\ where' = [where EXCEPT ![c] = IF @ = "finished" THEN "completed" ELSE "closed"]
    /\ watched' = [watched EXCEPT ![c] = NoChoice]
    /\ snapshot' = [snapshot EXCEPT ![c] = << >>]
    /\ delivered' = [delivered EXCEPT ![c] = << >>]
    /\ orphans' = [orphans EXCEPT ![c] = 0]
    /\ since' = [since EXCEPT ![c] = 0]
    /\ UNCHANGED <<engineVars, cancelVars>>

\* A client message while the event task is still waiting: the task is
\* cancelled, its thread stays.
Orphan(c) ==
    /\ orphans[c] < MaxOrphans
    /\ orphans' = [orphans EXCEPT ![c] = @ + 1]

\* A message that changes no job: not a cancel, or the job is not queued.
OtherMessage(c) ==
    /\ c \in Canceller /\ At(c, "loop") /\ Orphan(c)
    /\ UNCHANGED <<vars, where, watched, snapshot, delivered, since>>

\* A cancel message for a queued job: alone, or together with an event that
\* was just received and is relayed after it.
CancelMessage(c) ==
    /\ c \in Canceller
    /\ \/ At(c, "loop") /\ Orphan(c)
       \/ At(c, "poll") /\ UNCHANGED orphans
    /\ Cancel(c, watched[c])
    /\ UNCHANGED <<where, watched, snapshot, delivered, since>>

\* The abandoned get takes the next element, or gives up on an empty channel.
OrphanTakes(c) ==
    /\ orphans[c] > 0 /\ channels[c] # << >>
    /\ channels' = [channels EXCEPT ![c] = Tail(@)]
    /\ orphans' = [orphans EXCEPT ![c] = @ - 1]
    /\ UNCHANGED <<engineVars, cancelVars, jobs, subs, log,
                   where, watched, snapshot, delivered, since>>

OrphanGivesUp(c) ==
    /\ orphans[c] > 0 /\ channels[c] = << >>
    /\ orphans' = [orphans EXCEPT ![c] = @ - 1]
    /\ UNCHANGED <<vars, where, watched, snapshot, delivered, since>>

HandlerStep(c) == Register(c) \/ Replay(c) \/ Receive(c) \/ Poll(c) \/ Close(c)

ClientStep(c) ==
    \/ \E j \in Job : Open(c, j)
    \/ Disconnect(c) \/ OtherMessage(c) \/ CancelMessage(c)
    \/ OrphanTakes(c) \/ OrphanGivesUp(c)

EngineStep ==
    /\ \/ \E j \in Job : SubmitStep(j)
       \/ \E w \in Worker : CollectStep(w)
       \/ \E t \in Thread : ExecuteStep(t)
       \/ \E c \in Canceller : CancelStep(c)
       \/ \E c \in Deleter, j \in Job : Cancel(c, j)
    /\ UNCHANGED streamVars

StreamNext == EngineStep \/ \E c \in Client : HandlerStep(c) \/ ClientStep(c)

StreamSpec == StreamInit /\ [][StreamNext]_allVars

\* The engine's fairness, and handlers that are scheduled.  Nobody has to
\* connect, send a message or go away.
StreamFairness ==
    /\ \A j \in Job : WF_allVars(stage[j] # "new" /\ SubmitStep(j) /\ UNCHANGED streamVars)
    /\ \A w \in Worker : WF_allVars(CollectStep(w) /\ UNCHANGED streamVars)
    /\ \A t \in Thread : WF_allVars(ExecuteStep(t) /\ UNCHANGED streamVars)
    /\ \A c \in Canceller : WF_allVars(CancelStep(c) /\ UNCHANGED streamVars)
    /\ \A c \in Client : WF_allVars(HandlerStep(c)) /\ WF_allVars(OrphanGivesUp(c))

FairStreamSpec == StreamSpec /\ StreamFairness
-------------------------------------------------------------------------------
StreamTypeOK ==
    /\ TypeOK
    /\ where \in [Client -> {"idle", "subscribe", "replay", "loop", "poll", "finished",
                             "gone", "completed", "closed"}]
    /\ watched \in [Client -> Job \cup {NoChoice}]
    /\ snapshot \in [Client -> Seq(EventKind)]
    /\ orphans \in [Client -> 0 .. MaxOrphans]
    /\ delivered \in [Client -> Seq(EventKind)]
    /\ since \in [Client -> Nat]

\* The elements of seq are found in other, in order.
Embeds(seq, other) ==
    \E at \in [DOMAIN seq -> DOMAIN other] :
        /\ \A i, k \in DOMAIN seq : i < k => at[i] < at[k]
        /\ \A i \in DOMAIN seq : seq[i] = other[at[i]]

\* Replay and channel overlap in time with a worker that appends events, a
\* stale save that drops some and orphans that steal some.  Whatever is lost,
\* no client gets an event twice or out of order.
InOrderDelivery ==
    \A c \in Client : watched[c] \in Job => Embeds(delivered[c], log[watched[c]])

\* An SSE client that is connected has missed no event since its channel was
\* registered: what it got and what is on the channel continue the replay.
NothingMissedSince ==
    \A c \in SseClient : where[c] \in {"loop", "poll", "finished"} =>
        delivered[c] \o channels[c] =
            snapshot[c] \o SubSeq(log[watched[c]], since[c] + 1, Len(log[watched[c]]))

\* An SSE stream that waits while its job is not settled yet comes to its
\* end, unless the client leaves: the last event wakes it and the state it
\* then reads is terminal, whoever cancels in between.
StreamsEnd ==
    \A c \in SseClient :
        (where[c] = "loop" /\ jobs[watched[c]].state \notin TerminalState)
            ~> where[c] \in {"completed", "closed"}
-------------------------------------------------------------------------------
(* What the documents and tests say, and the code does not do              *)

\* A realtime client that stays connected is told of the completion.
RealtimeCompletes ==
    \A c \in RealtimeClient : where[c] = "loop" ~> where[c] \in {"completed", "closed"}
===============================================================================
