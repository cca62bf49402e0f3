---------------------------- MODULE FlashTalkServer ----------------------------
(***************************************************************************)
(* The multi-rank FlashTalk WebSocket server                               *)
(* (src/model_backends/flashtalk/flashtalk_ws_server.py).  Rank 0 serves   *)
(* the connections; the other ranks poll a command file and then join the  *)
(* collectives of the command.                                             *)
(*                                                                         *)
(* serve of websockets.sync runs the handler of each connection in a       *)
(* thread of its own, and all handlers share one session: no lock keeps    *)
(* them apart.  The history variable crossed tells whether one took up a   *)
(* message, or the main thread was interrupted, while another was busy.    *)
(*                                                                         *)
(* The sequence number of the command file is compared with the last one   *)
(* seen; here the file carries the set of ranks that have not seen it.  A  *)
(* collective is one joint step of rank 0 and all other ranks, and a rank  *)
(* that the others never join waits for ever.  Warm-up and preloading at   *)
(* start-up come before the first connection and are left out.             *)
(***************************************************************************)
EXTENDS Naturals, FiniteSets

CONSTANTS
    Conn,         \* connections
    Worker,       \* the ranks other than 0
    Image,        \* the temporary reference images that can be written
    NoImage,
    WarmupOnInit  \* FLASHTALK_WARMUP_ON_INIT

ASSUME FlashTalkServerAssumption ==
    /\ Worker # {} /\ NoImage \notin Image
    /\ WarmupOnInit \in BOOLEAN

VARIABLES
    shared,    \* the session all handlers share, with the embedding shape rank 0 cached
    files,     \* the temporary images on disk that can be decoded
    used,      \* the images written so far
    command,   \* the command file and the ranks that have not seen it
    conn,      \* where the handler of each connection is
    worker,    \* where each other rank is, its image and its cached shape
    server,    \* where the main thread is
    crossed,   \* history: a handler took up a message while another was busy
    left       \* history: rank 0 gave up a command that other ranks are in

serverVars == <<shared, files, used, command, conn, worker, server, crossed, left>>

\* No image is kept, no shape cached.
EmptySession == [active |-> FALSE, image |-> NoImage, shape |-> FALSE]

ServerInit ==
    /\ shared = EmptySession
    /\ files = {} /\ used = {}
    /\ command = [cmd |-> "none", unseen |-> {}]
    /\ conn = [c \in Conn |-> "closed"]
    /\ worker = [w \in Worker |-> [at |-> "poll", image |-> NoImage, shape |-> FALSE]]
    /\ server = "serving"
    /\ crossed = FALSE /\ left = FALSE

Idle == {"closed", "ready"}

Turn(c, label) == conn' = [conn EXCEPT ![c] = label]

\* A handler takes up its next message: nothing makes it wait for the others,
\* nor the shutdown for the handlers.
Answering(c) ==
    /\ conn[c] = "ready"
    /\ crossed' = (crossed \/ server # "serving" \/ \E d \in Conn : conn[d] \notin Idle)
    /\ UNCHANGED left

AllWorkers(label) == \A w \in Worker : worker[w].at = label

\* The sequence number is not increased when the command is the same.
WriteCommand_SameNumber(cmd) ==
    command' = [cmd |-> cmd, unseen |-> IF cmd = command.cmd THEN command.unseen ELSE Worker]

\* _write_command
WriteCommand(cmd) == command' = [cmd |-> cmd, unseen |-> Worker]
-------------------------------------------------------------------------------
(* Connections, and the messages that need no other rank                   *)

Open(c) ==
    /\ conn[c] = "closed" /\ server = "serving"
    /\ Turn(c, "ready")
    /\ UNCHANGED <<shared, files, used, command, worker, server, crossed, left>>

\* The finally clause ends the session, also when another connection started it.
Disconnect(c) ==
    /\ Answering(c)
    /\ Turn(c, "closed")
    /\ IF shared.active
       THEN /\ shared' = EmptySession
            /\ files' = files \ {shared.image}
       ELSE UNCHANGED <<shared, files>>
    /\ UNCHANGED <<used, command, worker, server>>

Close(c) ==
    /\ Answering(c)
    /\ shared' = EmptySession
    /\ files' = files \ {shared.image}
    /\ UNCHANGED <<used, command, conn, worker, server>>

\* An init replaces an active session, also when its own image is missing.
InitRejected(c) ==
    /\ Answering(c) /\ shared.active
    /\ shared' = EmptySession
    /\ files' = files \ {shared.image}
    /\ UNCHANGED <<used, command, conn, worker, server>>
-------------------------------------------------------------------------------
(* init                                                                    *)

\* What is written need not be an image.
InitMessage(c) ==
    /\ Answering(c)
    /\ \E i \in Image \ used : \E written \in {{}, {i}} :
          /\ shared' = [(IF shared.active THEN EmptySession ELSE shared) EXCEPT !.image = i]
          /\ files' = (IF shared.active THEN files \ {shared.image} ELSE files) \cup written
          /\ used' = used \cup {i}
    /\ Turn(c, "init")
    /\ UNCHANGED <<command, worker, server>>

PublishInit(c) ==
    /\ conn[c] = "init"
    /\ WriteCommand("init")
    /\ Turn(c, "sendInit")
    /\ UNCHANGED <<shared, files, used, worker, server, crossed, left>>

\* The path of the image, the prompt and the seed are broadcast.
BroadcastInit(c) ==
    /\ conn[c] = "sendInit" /\ shared.image # NoImage /\ AllWorkers("recvInit")
    /\ worker' = [w \in Worker |-> [worker[w] EXCEPT !.at = "base", !.image = shared.image]]
    /\ Turn(c, "prepare")
    /\ UNCHANGED <<shared, files, used, command, server, crossed, left>>

\* Rank 0 reports an error; that of an init takes its image away.
ReportError(c) ==
    /\ Turn(c, "ready")
    /\ IF conn[c] \in {"chunk", "runChunk"}
       THEN UNCHANGED <<shared, files>>
       ELSE /\ files' = files \ {shared.image}
            /\ shared' = [shared EXCEPT !.image = NoImage]
    /\ UNCHANGED <<used, command, server, crossed>>

\* A prompt that is no string, or a seed out of range, is found when the path
\* has gone out: the other ranks wait for the rest of the init.  A path that
\* another handler has cleared is found before anything is sent.
BroadcastInitFails(c) ==
    /\ conn[c] = "sendInit" /\ ReportError(c)
    /\ \/ shared.image = NoImage /\ UNCHANGED worker
       \/ /\ shared.image # NoImage /\ AllWorkers("recvInit")
          /\ worker' = [w \in Worker |->
                            [worker[w] EXCEPT !.at = "recvRest", !.image = shared.image]]
    /\ left' = TRUE

\* The path of a later init is what they get for it.  They go on with the image
\* of the one given up, and rank 0 waits for them with what it has still to send.
BroadcastInitMismatched(c) ==
    /\ conn[c] = "sendInit" /\ shared.image # NoImage /\ AllWorkers("recvRest")
    /\ worker' = [w \in Worker |-> [worker[w] EXCEPT !.at = "base"]]
    /\ Turn(c, "sendRest")
    /\ UNCHANGED <<shared, files, used, command, server, crossed, left>>

PrepareFails(c) == conn[c] = "prepare" /\ ReportError(c) /\ UNCHANGED <<worker, left>>

\* _load_reference_frame, _prepare_pipeline_state
Prepare(c) ==
    /\ conn[c] = "prepare" /\ shared.image \in files
    /\ shared' = [shared EXCEPT !.shape = FALSE]
    /\ Turn(c, IF WarmupOnInit THEN "warm" ELSE "activate")
    /\ UNCHANGED <<files, used, command, worker, server, crossed, left>>

Activate(c) ==
    /\ conn[c] = "activate"
    /\ shared' = [shared EXCEPT !.active = TRUE]
    /\ Turn(c, "ready")
    /\ UNCHANGED <<files, used, command, worker, server, crossed, left>>
-------------------------------------------------------------------------------
(* One chunk on all ranks                                                  *)

\* A chunk that is answered from the idle bank, or refused, changes nothing here.
Audio(c) ==
    /\ Answering(c) /\ shared.active
    /\ Turn(c, "chunk")
    /\ UNCHANGED <<shared, files, used, command, worker, server>>

\* get_audio_embedding fails before the other ranks hear of the chunk.
EmbeddingFails(c) ==
    /\ conn[c] \in {"warm", "chunk"}
    /\ ReportError(c) /\ UNCHANGED <<worker, left>>

\* The warm-up of an init renders a chunk too; "warm" and "chunk" differ in
\* where the handler goes on.
Publish(c) ==
    /\ conn[c] \in {"warm", "chunk"}
    /\ WriteCommand("generate")
    /\ Turn(c, IF conn[c] = "warm" THEN "sendWarm" ELSE "sendChunk")
    /\ UNCHANGED <<shared, files, used, worker, server, crossed, left>>

\* broadcast_audio_embedding sends the shape first unless it is cached: ranks
\* that do not agree on that wait for different collectives.
BroadcastEmbedding(c) ==
    /\ conn[c] \in {"sendWarm", "sendChunk"} /\ AllWorkers("recvChunk")
    /\ \A w \in Worker : worker[w].shape = shared.shape
    /\ worker' = [w \in Worker |-> [worker[w] EXCEPT !.at = "run", !.shape = TRUE]]
    /\ shared' = [shared EXCEPT !.shape = TRUE]
    /\ Turn(c, IF conn[c] = "sendWarm" THEN "runWarm" ELSE "runChunk")
    /\ UNCHANGED <<files, used, command, server, crossed, left>>

\* run_pipeline ends on all ranks.
RunReturns(c) ==
    /\ conn[c] \in {"runWarm", "runChunk"} /\ AllWorkers("run")
    /\ worker' = [w \in Worker |-> [worker[w] EXCEPT !.at = "poll"]]

Rendered(c) ==
    /\ RunReturns(c)
    /\ Turn(c, IF conn[c] = "runWarm" THEN "activate" ELSE "ready")
    /\ UNCHANGED <<shared, files, used, command, server, crossed, left>>

\* What rank 0 does with the frames fails.
ResultFails(c) == RunReturns(c) /\ ReportError(c) /\ UNCHANGED left

\* run_pipeline fails on rank 0 and on some of the others, where nothing in
\* worker_loop catches it; those where it does not fail wait for rank 0 in it.
RenderFails(c) ==
    /\ conn[c] \in {"runWarm", "runChunk"} /\ ReportError(c)
    /\ \E failed \in SUBSET Worker :
          worker' = [w \in Worker |-> IF w \in failed THEN [worker[w] EXCEPT !.at = "dead"]
                                      ELSE worker[w]]
    /\ left' = (left \/ \E w \in Worker : worker'[w].at = "run")
-------------------------------------------------------------------------------
(* worker_loop                                                             *)

NextStop(cmd) ==
    IF cmd = "init" THEN "recvInit" ELSE IF cmd = "generate" THEN "recvChunk" ELSE "barrier"

\* _wait_for_command
Poll(w) ==
    /\ worker[w].at = "poll" /\ w \in command.unseen
    /\ command' = [command EXCEPT !.unseen = @ \ {w}]
    /\ worker' = [worker EXCEPT ![w].at = NextStop(command.cmd)]
    /\ UNCHANGED <<shared, files, used, conn, server, crossed, left>>

\* The cached shape survives the init of a new session.
BaseData_KeepsShape(w) ==
    /\ worker[w].at = "base"
    /\ worker' = IF worker[w].image \in files
                 THEN [worker EXCEPT ![w].at = "poll"]
                 ELSE [worker EXCEPT ![w].at = "dead"]
    /\ UNCHANGED <<shared, files, used, command, conn, server, crossed, left>>

\* get_base_data opens the image; nothing catches its error.
BaseData(w) ==
    /\ worker[w].at = "base"
    /\ worker' = IF worker[w].image \in files
                 THEN [worker EXCEPT ![w].at = "poll", ![w].shape = FALSE]
                 ELSE [worker EXCEPT ![w].at = "dead"]
    /\ UNCHANGED <<shared, files, used, command, conn, server, crossed, left>>

\* run_pipeline fails on this rank only.
RunDies(w) ==
    /\ worker[w].at = "run"
    /\ worker' = [worker EXCEPT ![w].at = "dead"]
    /\ UNCHANGED <<shared, files, used, command, conn, server, crossed, left>>
-------------------------------------------------------------------------------
(* The main thread                                                         *)

Interrupt ==
    /\ server = "serving"
    /\ server' = "shutdown"
    /\ crossed' = (crossed \/ \E c \in Conn : conn[c] \notin Idle)
    /\ UNCHANGED <<shared, files, used, command, conn, worker, left>>

PublishShutdown ==
    /\ server = "shutdown"
    /\ WriteCommand("shutdown")
    /\ server' = "barrier"
    /\ UNCHANGED <<shared, files, used, conn, worker, crossed, left>>

Barrier ==
    /\ server = "barrier" /\ AllWorkers("barrier")
    /\ worker' = [w \in Worker |-> [worker[w] EXCEPT !.at = "exit"]]
    /\ server' = "exit"
    /\ UNCHANGED <<shared, files, used, command, conn, crossed, left>>
-------------------------------------------------------------------------------
MessageStep(c) ==
    \/ PublishInit(c) \/ BroadcastInit(c) \/ BroadcastInitFails(c) \/ BroadcastInitMismatched(c)
    \/ PrepareFails(c) \/ Prepare(c) \/ Activate(c)
    \/ EmbeddingFails(c) \/ Publish(c) \/ BroadcastEmbedding(c)
    \/ Rendered(c) \/ ResultFails(c) \/ RenderFails(c)

WorkerStep(w) == Poll(w) \/ BaseData(w)

MainStep == PublishShutdown \/ Barrier

ServerNext ==
    \/ \E c \in Conn : \/ Open(c) \/ Disconnect(c) \/ Close(c)
                       \/ InitRejected(c) \/ InitMessage(c) \/ Audio(c)
                       \/ MessageStep(c)
    \/ \E w \in Worker : WorkerStep(w) \/ RunDies(w)
    \/ Interrupt \/ MainStep

ServerSpec == ServerInit /\ [][ServerNext]_serverVars

\* The ranks run and a run on the devices ends.
FairServerSpec ==
    /\ ServerSpec
    /\ \A c \in Conn : WF_serverVars(MessageStep(c))
    /\ \A w \in Worker : WF_serverVars(WorkerStep(w))
    /\ WF_serverVars(MainStep)
-------------------------------------------------------------------------------
ServerTypeOK ==
    /\ shared \in [active : BOOLEAN, image : Image \cup {NoImage}, shape : BOOLEAN]
    /\ files \subseteq used /\ used \subseteq Image
    /\ command \in [cmd : {"none", "init", "generate", "shutdown"}, unseen : SUBSET Worker]
    /\ conn \in [Conn -> {"closed", "ready", "init", "sendInit", "prepare", "warm", "chunk",
                          "sendWarm", "sendChunk", "runWarm", "runChunk", "activate",
                          "sendRest"}]
    /\ worker \in [Worker -> [at : {"poll", "recvInit", "recvRest", "base", "recvChunk", "run",
                                    "barrier", "exit", "dead"},
                              image : Image \cup {NoImage}, shape : BOOLEAN]]
    /\ server \in {"serving", "shutdown", "barrier", "exit"}
    /\ {crossed, left} \subseteq BOOLEAN

In(labels) == \E c \in Conn : conn[c] \in labels

\* The ranks are in step as long as no message was taken up while another was
\* under way.  One that waits in a collective of a command finds rank 0 in it, and
\* they agree on whether the shape is sent first; rank 0 renders with all others,
\* and for the image it has, whatever inits failed, were rejected or replaced a
\* session, and whoever disconnected.  If rank 0 gave up a command that others are
\* in, none of them ever gets to another command: nothing is rendered out of step.
RanksInStep ==
    crossed \/
    /\ \A w \in Worker :
          /\ worker[w].at = "recvInit" => In({"sendInit"})
          /\ worker[w].at = "recvChunk" => /\ In({"sendWarm", "sendChunk"})
                                           /\ worker[w].shape = shared.shape
          /\ worker[w].at = "run" => left \/ In({"runWarm", "runChunk"})
          /\ worker[w].at = "barrier" => server = "barrier"
          /\ In({"runWarm", "runChunk"}) =>
                \/ worker[w].at = "run" /\ worker[w].image = shared.image
                \/ worker[w].at = "dead"
    /\ left => \A w \in Worker : worker[w].at \in {"recvRest", "base", "run", "dead"}

\* A message is answered and a shutdown ends, unless a rank died, rank 0 gave up
\* a command that others are in, or messages overlapped.
Answerable == ~crossed /\ ~left /\ \A w \in Worker : worker[w].at # "dead"

MessagesAnswered ==
    /\ \A c \in Conn : conn[c] \notin Idle ~> (conn[c] \in Idle \/ ~Answerable)
    /\ server = "shutdown" ~> (server = "exit" \/ ~Answerable)
===============================================================================
