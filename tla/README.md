# A TLA+ verification project for OmniRT

OmniRT serves generation requests (images, video, audio-driven avatars) through
one engine: jobs are recorded in a store, queued, merged into batches, executed
by worker threads, followed over HTTP streams, and partly delegated to resident
worker processes under supervision.  Beside the engine it has a realtime avatar
service with runtimes of its own, streaming speech, three model servers, and an
installer for the programs it drives.
This directory holds the TLA+ model of the parts where several threads,
processes, ranks and clients meet, the TLC runs that check the model on small
instances, and TLAPS proofs that hold for every instance.  All source paths
below are relative to `src/src/omnirt/` unless they start with `src/`.

To check a run: `tlc -workers 2 -config MCJobEngine_cancel.cfg MCJobEngine.tla`
(every run is listed in `PROJECT.json` and in section 3).  To check the proofs:
`tlapm M.tla` for `M` in `JobEngineProofs`, `JobEngineOutcomeProofs`,
`JobStreamProofs`, `ManagedWorkerProofs`, `AvatarProofs`, `FlashTalkProofs`,
`ServiceProofs` and `RunProofs`.

## 1. The system

### Components, their state and their operations

| Component | State | Operations | Module |
|---|---|---|---|
| In-memory job store (`engine/store.py`, `engine/job.py`) | the records, the subscribed channels | `create`, `get`, `save`, `append_event`, `subscribe`, `unsubscribe`, each under one lock, on deep copies | `JobStore` |
| `OmniEngine` (`engine/engine.py`) | the local record copies of its calls | `submit`, `run_sync`, `cancel`, `_execute`, `_execute_batch` | `JobEngine` |
| Dispatch (`dispatch/queue.py`, `worker.py`) | a FIFO queue with an `unfinished_tasks` counter, daemon threads | `put`, `get`, `collect_matching`, `task_done`, `Worker.run` | `JobEngine`, abstractly `WorkPool` |
| Request batcher (`dispatch/batcher.py`) | none (configuration) | `matches`, `_batch_signature`, `combine_requests` | `RequestBatcher` |
| Job streams (`server/routes/jobs.py`, `openai.py`) | one handler per connection, its channel, `channel.get` calls in other threads | the SSE, WebSocket and realtime handlers, `DELETE` of a job | `JobStream` |
| Managed resident worker (`workers/managed.py`, `remote.py`, `resident.py`) | process, client, locks, restart timestamps, circuit breaker | `start`, `submit`, `shutdown`, `ensure_ready`, `_record_failure_and_restart` | `ManagedWorker` |
| Pipeline cache, worker pool (`engine/pipeline_cache.py`, `worker_pool.py`, `executors/persistent_worker.py`) | two LRU maps of executors and handles, a lock per executor | `get_or_create`, eviction, `load`, `run`, `release` | `ExecutorCaches` |
| Redis store (`engine/redis_store.py`) | a local copy per process and the record in Redis, one pump per channel | `create`, `get`, `save`, `append_event`, publish, subscribe | `RedisJobStore` |
| FlashTalk resident worker (`models/flashtalk/resident_worker.py`) | request queue, coordinator thread, peers behind a broadcast | `start`, `submit`, `shutdown`, the coordinator loop | `FlashTalkWorker` |
| Realtime avatar service and routes (`server/realtime_avatar.py`, `routes/avatar.py`) | sessions, the FIFO runtime lock, the id of each connection's session | create, preload, push, configure, cancel, close, from five endpoints | `AvatarSessions` |
| Wav2Lip, QuickTalk, FasterLivePortrait runtimes (`models/*/runtime*.py`) | state per session, an LRU of QuickTalk workers, one portrait pipeline, the audio heard so far | `preload`, `render_chunk`, `close_session`, `cancel_session` | `AvatarSessions`, `AudioStreams` |
| IndexTTS streaming (`models/indextts/runtime.py`, `routes/tts_audio.py`) | a token queue per segment, an output queue, the window being collected | generate, collect, decode, read | `TokenStream` |
| FlashTalk WebSocket server (`src/model_backends/flashtalk/flashtalk_ws_server.py`) | one session for all connections, a command file polled by the other ranks, idle banks in memory and on disk, a circular audio buffer | `init`, audio, `close`, preload, `worker_loop`, shutdown | `FlashTalkServer`, `IdlePreload`, `FlashTalkAudio`, `AudioRing` |
| MuseTalk and Wav2Lip model servers (`src/model_backends/{musetalk,wav2lip}/`) | a session per connection, the working directory of the process | `init`, audio, `close` | `ChunkServers`, `AudioStreams` |
| Diffusers pipelines (`core/base_pipeline.py`, `executors/legacy_call.py`, `modular.py`, `models/*/pipeline.py`), result cache (`engine/result_cache.py`) | one pipeline object per executor with its last seed and what it was built with, an LRU of prompt embeddings, the files of the output directory | the stages of a run, `get_embeddings`, `save_embeddings`, export | `PipelineTable`, `PipelineRun` |
| Programs outside (`models/{flashtalk,flashhead,liveact,longcat_video_avatar,cosyvoice,vllm_omni_speech,soulx_podcast,sensevoice}/pipeline.py`, `executors/subprocess_exec.py`, `launcher/`) | files of requests, outputs, logs and text contexts, the stream of a service | find the checkout, write the request, launch, read what was made, export | `ExternalRun` |
| Runtime installer (`runtime/installer.py`, `manifest.py`, `state.py`) | checkouts, patches, a virtualenv, weights, the state file | `install` with `--no-update` and `--recreate-venv` | `RuntimeInstall` |
| Controller, gRPC transport, telemetry, HTTP app and schemas, presets, backends, schedulers, middleware, CLI, bench | tables, conversions, counters, tensors | | not modelled (section 8) |

### How they interact

`submit` creates a record in the store, appends `job_enqueued` and puts an item
on the queue; `run_sync` does the same and then executes the job in the calling
thread.  A worker thread takes the head of the queue.  If batching is enabled it
collects, for a window of time, other items whose request has the same
signature; the rest it sets aside and puts back at the tail.  It then runs
`_execute` for one item, or `_execute_batch` for several.  Either reads a record,
changes the copy, saves it, looks an executor up in the pipeline cache, takes the
executor's lock and runs it (through a managed worker of the worker pool if the
model is resident), relays the executor's events to `append_event`, and in the
end reads, changes and saves again.  `append_event` also feeds the channels of
the subscribed stream handlers.  `cancel` reads, changes and saves a record from
yet another thread.  With the Redis store the same calls go to a local copy and
to Redis, where gateways read them.

The avatar service is separate: WebSocket handlers on one event loop create a
session in `RealtimeAvatarService`, and push audio chunks through a thread to the
runtime of the session's model, one at a time under `avatar_runtime_lock`.
Closing and cancelling a session is called on the event loop without that lock.
The runtimes are in-process, or proxies to the model servers.  Of these the
FlashTalk server runs on several ranks: rank 0 has the connections, writes a
command file that the others poll, and then all of them enter the collectives of
the command.  The speech endpoint of IndexTTS runs a generate thread per text
segment, one worker thread that decodes, and a coroutine that sends.

### What is hard

* **Read, change, save.**  The store locks each operation, not the sequence.
  `cancel`, the workers and `run_sync` overwrite each other's records, the events
  list included.  The Redis store does the same between processes, and a `get`
  replaces the local copy of the process that executes.
* **Looking too early.**  `_execute_batch` looks for cancelled items once, and
  reads the records again later without looking.
* **Items in motion.**  `collect_matching` of several workers takes items out of
  the queue and puts them back while others take, and an exception may end a
  worker thread.
* **Evicted while in use.**  The two caches evict under their own locks; a thread
  may wait for or run an executor that is being released, or own a handle whose
  worker was shut down.
* **Subscribing late.**  Stream handlers read the record and register a channel
  in two steps; the terminal state is saved before the terminal event is
  appended; a cancelled `asyncio` task does not stop its thread.
* **Restarting.**  Several threads see the same dead process, one of them
  restarts it, the late failures of the others arrive afterwards; a restart that
  fails inside a submit is followed by another; the restart budget, the window and
  the cool-down have boundaries.
* **Shutting down while in use.**  The FlashTalk worker has no lock: handlers
  queue requests, a coordinator runs them, and `shutdown` drains the queue,
  gives up on a coordinator that is busy, and clears one field after the other,
  after which a late handler may start the worker again.
* **Sessions that share.**  One portrait pipeline and a bounded set of QuickTalk
  workers serve all sessions; sessions end by message, disconnect, failure and
  cancel, while threads render or make state for others; `close_session`
  blocks the event loop on a lock a thread may hold for a whole model load.
* **Ranks that decide for themselves.**  Each rank of the FlashTalk server looks
  for its idle bank and remembers the shape of the embedding on its own; if two
  of them disagree they wait in different collectives for ever.  Inits fail, also
  between two broadcasts of one command, are rejected, or replace a running session.
* **Streams with a remainder.**  Windows, overlaps, look-ahead, stop tokens,
  length limits, bounded queues, a circular buffer, a failed call in between: no
  sound may be cut, doubled or shifted.
* **One working directory.**  The model servers change the directory of the
  process from threads.
* **Names that say too little.**  Files are named after the model and the seed, the
  millisecond, an id of the client or the stems of the inputs; embeddings and text
  contexts are kept under keys that leave out part of what they were made from.
* **Left by somebody who was killed.**  An install, a script or a server that is
  stopped leaves half a directory, which the next one finds and takes for whole.

`PROJECT.json` lists 40 such hazards at their lines, each with the properties
that would notice it going wrong or with the reason why there is none.

### What makes each component correct

* Store and engine: a record's outcome is consistent whoever writes last, a
  running job has a thread that runs it, no event is lost unless a cancel met the
  job, a cancel in time is final, every job settles.
* Dispatch: an item is in one place, none is lost, none runs twice, the
  unfinished counter is exact.
* Executor caches: a request loses its executor only to as many other keys as the
  cache has room for.
* Pipelines: a job is rendered from its own request, also when it shares a batch,
  a pipeline object or cached embeddings with others; the file in its result shows
  its seed, or, with a program outside, its request.
* Installer: what the state file names is there, and the virtualenv and its
  packages are whole whatever earlier installs left.
* Redis store: what other processes read only grows, an event is in the record
  before it is sent, a channel misses nothing from its subscription on.
* Streams: in order, nothing twice, nothing missed after registration, an end
  for each stream.
* Managed worker: a bounded number of restarts per window or cool-down, the breaker
  opens only for so many, silence during the cool-down, every submit returns.
* FlashTalk worker: no request lost or run twice between old and new coordinators
  and the drain, every submit answered.
* Avatar sessions: runtimes keep state for open sessions only, every session has
  somebody who will close it, what is rendered is the session's own image and
  settings, a cancelled session stays silent, every message is answered.
* Audio and speech: everything the client sent counts once and in order, through
  failures; every token is sounded once; streams end.
* Model servers: the ranks stay in step, start up together and answer; a session
  shows its own avatar only and the whole idle bank; the working directory is the
  repository exactly while a call is.

## 2. Modules

### The engine

* **`JobStore`** - the record (`JobRecord`: state, result, error, worker,
  events), and the store's operations as conjuncts that each take one step of
  the caller (`Create`, `Save`, `AppendEvent`, `Subscribe`, `Unsubscribe`;
  `get` is reading `jobs[j]`).  `log` is a history of every event appended,
  which `save` cannot rewrite.
* **`RequestBatcher`** - pure operators.  A request is the record of the
  conditions `_batch_signature` looks at; `shape` stands for the JSON payload
  that becomes the signature.
* **`JobEngine`** - extends both.  One action per store or queue operation of
  each thread: `CreateJob`, `LogEnqueued`, `Put`, `RunSync` (the callers);
  `Take`, `Collect`, `CollectEnds`, `RequeueCounts`, `Requeue`, `RequeueEnds`,
  `Dispatch`, `Filter` (`Worker.run`, `collect_matching`, `_handle_work_items`);
  `ReadJob`, `SaveRunning`, `LogStarted`, `Run`, `BuildFails`, `Emit`, `Compute`,
  `ReadBack`, `SaveFinal`, `LogFinal`, `Release` (`_execute` and
  `_execute_batch`, which are the same walk over `active` items); `CancelReads`,
  `CancelSaves`, `CancelLogs`, `CancelReturns`.  `pc[t]` is where a thread is,
  `held`, `deferred`, `active` and `copy` are its local variables.
* **`WorkPool`** - the abstract specification of dispatch: items wait, an agent
  takes them, may put back what it did not run, runs the others at most once and
  finishes everything it has.  No queue, batch, order or failure.  `JobEngine`
  implements it under the mapping `PlaceOf` (property `ImplementsWorkPool`), and
  so does `FlashTalkWorker` (`ServesWorkPool`).
* **`JobStream`** - extends `JobEngine`: handlers `Open`, `Register`, `Replay`,
  `Receive`, `Poll`, `Close`; clients that disconnect or send messages;
  abandoned `channel.get` calls (`OrphanTakes`, `OrphanGivesUp`).
* **`ExecutorCaches`** - threads that look an executor up (`LookUp`), build it
  under the cache lock with a worker from the pool (`Load`, `LoadFails`,
  `Insert`), release what was evicted (`Release`), wait for the executor's lock
  and run it (`Lock`, `Run`).
* **`PipelineTable`** - the pipeline classes of Diffusers models, one record each:
  the variants they register, the inputs they require, the files they open, whether
  they look for cached embeddings, what they write and what the pipeline they keep
  is compared by.
* **`PipelineRun`** - two jobs of one model through the stages of
  `BasePipeline.run` or the modular executor: merged or not (`Combine`), with the
  lock of their executor (`Acquire`), the embeddings of the result cache, the call,
  the export.  Through the engine or by a caller that runs the class itself.
* **`ExternalRun`** - two jobs of one of eight programs: take the inputs, find the
  checkout among the settings, launch a script or call a service, encode a text
  context before (LiveAct), receive a stream of sound (CosyVoice), export.
* **`RedisJobStore`** - one job.  The executing process goes through the calls
  the engine makes (`GetOwn`, `SaveState`, `AppendEvent`, `Persist`,
  `PublishEvent`); readers of this and of other processes `Fetch` the record, and
  those of this process `Overwrite` the local copy with it; subscribers come and
  go.

### Resident workers

* **`ManagedWorker`** - the handle, the proxy and its supervisor: `Submit`,
  `Enter` (`ResidentWorkerHandle.submit`), `Start`, `EnsureReady`,
  `RecordFailure` (`OpenBreaker`, `GoDown`), `BackoffEnds`, `BootSucceeds`,
  `BootFails`, `Send`, `Succeed`, `Fail`, `FailClosed`, `Recover`, `Retry`,
  `Shutdown`; the process (`ProcessStep`) and the clock (`Tick`).  `restarts` is a
  history of the restarts that were counted; a *probe* is the first after a cool-down.
  A submit whose own start of the process fails goes the way of one whose call
  failed: with a dead process it restarts it and calls once more.
* **`FlashTalkWorker`** - rank 0 of the distributed worker, as the command
  `resident-flashtalk-worker` runs it.  Handlers: `Submit`, `Start`, `Load`,
  `LoadFails`, `Ready`, `Route`, `Put`, `Return`; coordinators: `LookAtFlag`,
  `Get`, `GetTimesOut`, `Begin`, `RunEnds`, `BroadcastFails`; the main thread:
  `Shutdown`, `PutSentinel`, `Join`, `DrainTakes`, `DrainFails`, `DrainEnds`,
  `Clear`.  One step per read or write of a field that another thread uses.

### Avatars and speech

* **`AvatarSessions`** - the handlers of five endpoints on one event loop
  (`LoopStep`, `Message`), the calls they make in threads while they hold the
  FIFO lock (`ThreadStep`), and what the runtimes keep: state per session, the
  QuickTalk workers with their lock, the image and the settings of the one
  portrait pipeline.  What a handler does between two awaits is one step.
* **`AudioStreams`** - what the Wav2Lip, QuickTalk, FasterLivePortrait and
  MuseTalk code remembers of one session's audio, chunk by chunk, when calls fail
  before or after the change of state; QuickTalk's warm-up included.
* **`TokenStream`** - the token-window mode of IndexTTS: generate threads with a
  bounded queue (`Generate`), the worker thread (`StartSegment`, `NextToken`,
  `NextCodes`, `EndSegment`, `EndStream`, the decoding in `Decode`), the
  coroutine (`Read`, `Leave`); with and without a context, with and without
  streamed tokens.

### Model servers

* **`FlashTalkServer`** - connections, each with a thread of its own, the command
  file, the collectives and `worker_loop`; failed, rejected and replacing inits, inits
  that fail between two broadcasts and what the next init then meets
  (`BroadcastInitFails`, `BroadcastInitMismatched`), chunks that fail on some of the
  ranks; shutdown.  Two history variables say when the ranks can no longer be in
  step: `crossed`, a message was taken up while another was under way; `left`, rank 0
  gave up a command that others are in.
* **`IdlePreload`** - start-up: every rank decides for each image whether to load
  its idle bank or to render it with the others, and removes damaged files.
* **`FlashTalkAudio`** - one session's audio: live renders, replies from the bank
  with ping-pong cursor and holds, refreshes, failures, restarts of the session.
* **`AudioRing`** - the circular buffer, as operators on functions.
* **`ChunkServers`** - the MuseTalk and Wav2Lip servers: `init`, audio and
  `close` of each connection, the call in the thread pool and the working
  directory it reads (`ReadDirectory`), changes (`EnterRepo`) and restores
  (`LeaveRepo`), nested in MuseTalk's case, overlapping with the calls of others.

### Installing

* **`RuntimeInstall`** - one install after another of a runtime, one action per
  command: `Clone`, `Update`, `KeepAsIs` (of checkout and weights), `ApplyPatch`,
  `PatchImports`, `RemoveVenv`, `CreateVenv`, `BootstrapPip`, `InstallPackages`,
  `Download`, `WriteState`.  Each may fail, run into the time-out or be killed
  (`Breaks`), and then leaves something or nothing behind.

### Checking and proving

* **`MCJobEngine`**, **`MCJobStream`**, **`MCAvatarSessions`** - request mixes
  and symmetry sets.
* **`MCServices`**, **`MCFlashTalk`** - nine components, and the three parts of
  FlashTalk without connections, that share no state: `part` says which one a
  behaviour follows, the others stand still.
* **`Maps`** - the assignment to a dict, as `PipelineRun` and `ExternalRun` use it.
* **`JobEngineProofs`** (types, items, nothing lost, refinement) and
  **`JobEngineOutcomeProofs`** (records) of the engine, **`JobStreamProofs`**,
  **`ManagedWorkerProofs`** (cool-down, budget, openings), **`AvatarProofs`**
  (sessions and their audio), **`FlashTalkProofs`** (ranks, preload, window and bank of
  the server; the worker's refinement), **`ServiceProofs`** (working directory,
  installer, Redis, executor caches, speech) and **`RunProofs`** (Diffusers jobs,
  programs outside) - theorems and proofs.

An operator whose name has an underscore (`TasksDone_FirstOnly`) is the operator after
it with a plausible bug.  The specifications use none of them; each is
substituted for its original to see that a property notices.

### Abstractions

* A job id, thread, client or request payload is a model value; an event is its
  kind; the result and the error are present or absent.
* One `stage_start` and one `stage_end` stand for all events of an executor, a
  closing `stage_error` included.  `Compute` may also end without an event, as
  the modular executor does when it raises.
* In `JobEngine` executor calls with the same cache key may overlap, although
  `entry.lock` excludes it: this allows more behaviours.  The lock itself is in
  `ExecutorCaches`.
* The batch window may elapse at any time (`CollectEnds`); so may the back-off
  and the start-up time-out of the managed worker.
* Metrics, traces, logging and reads whose value is not used are left out.  So is
  the delegation of `run_sync` to a remote worker that a controller picks, and an
  exception of the metadata hydration after a successful executor call.
* `JobStream`: a second request on a connection, the other OpenAI routes (calls
  of `run_sync`), and keep-alives (they change nothing).
* `ManagedWorker`: the health probe answers when the process is up and fails
  when it is booting, hung or dead; terminating the process succeeds; the first
  load of a model is the `start` that the first submit through the handle makes.
  A cool-down of zero, which switches the breaker off, is excluded by
  `ManagedAssumption`.
* `FlashTalkWorker`: the broadcast and the run on the devices are one long step,
  `"run"`, and only that step outlasts the join of `shutdown`.  Loading the model
  is one step of the handler.  The peers, the non-distributed mode, the metrics
  and the inflight counter are left out; each request has a thread of its own,
  and the worker is shut down once, by the command.
* `RedisJobStore`: one job, which one process executes; Redis keeps what it is
  given and delivers in order; a pump is the channel it feeds.  The calls are those of
  a job that succeeds: those of a failed one (engine.py:176-198) and of a cancel have
  the same shape and are left out.
* `AvatarSessions`: what is rendered is left out, so are the loading of weights,
  the proxies (which keep no state) and the parsing of requests.  Session ids are
  used again once nobody refers to them, which keeps the model finite.
* `TokenStream`: tokens are counted, the sound of a token is its segment and its
  place; the segment mode and the prompt caches are left out.  Conditioning and
  tokenisation (indextts/runtime.py:691-754, 931-945) do not fail, and a queue gets
  one end mark after a stop token where the code puts two, of which the reader takes
  the first.
* `AudioStreams`: a chunk is its number; contexts and windows (`span`) are whole
  chunks.  A length of 0 means what it means in the code: MuseTalk and QuickTalk keep
  everything, the portrait keeps the chunk itself.
* `ExecutorCaches`: that a worker which the pool has evicted is started again by a
  cached executor (`Run`) is in the model, but no property is about it.
* `FlashTalkServer`: the sequence number of the command file is the set of ranks
  that have not seen it; a collective is one joint step of all ranks.
* `IdlePreload`: images are the cache keys of their frames; the configured images
  have different keys.
* `FlashTalkAudio`: a sample is silent or not, a frame is the set of avatars
  blended into it; the idle bank has one frame per chunk.
* `ChunkServers`: a reference image is a model value, or does not decode.
* `PipelineRun`: the second request differs from the first in one thing at most, and
  each from the defaults in one value of the configuration.  A modular pipeline is
  built without looking at the scheduler of the request (`BuiltFor`), as
  `ModularExecutor.load` does.  Adapters are left out;
  what is rendered is what it was rendered from.
* `ExternalRun`: a script is what it reads, whose request it works on and where it
  writes; its other arguments are left out.  The first request is the usual one, the
  second differs in one thing at most.  The millisecond in a file name may be the
  same for both.
* `RuntimeInstall`: a directory is absent, given by the user, unusable, partial or
  whole; the packages are one command that is tried three times.  `OMNIRT_HOME` is
  one installer's alone.

## 3. Runs

| Run | Instance | Shows |
|---|---|---|
| `cancel` | 2 jobs, 2 workers, a `run_sync` caller, a canceller, batches of 2 | `TypeOK`; `RunningIsOwned`: a record that says running names a thread that works on it; `OutcomeMatchesState`: result and error belong to the state; `EventsKept`: a job that no cancel met keeps every event in order; `CancelLatches`: a cancel saved before every worker's last look is final and the job never runs |
| `dispatch` | 4 jobs of 3 kinds, 2 workers, batches of 2 | `NoItemLost`; `ReleasedIsSettled`: a returned item has a settled job, with the named exception; `ImplementsWorkPool`, in which no item is run twice |
| `live` | 2 jobs, 1 worker, a `run_sync` caller, a canceller, fairness | `EveryJobSettles`: every submitted job becomes terminal and stays so |
| `stream` | 1 job, 1 worker, an SSE and a WebSocket client, a `DELETE` caller, fairness | `InOrderDelivery`, `NothingMissedSince`, `StreamsEnd` |
| `managed` | 2 threads, 2 restarts per window of 2, cool-down 1, clock to 3, 3 submits, fairness | `RestartBudget`: so many restarts per window or cool-down; `OpensForCause`: the breaker opens only for so many; `CooldownRests`: no process is started while it is open; `SubmitsReturn` |
| `flashtalk` | worker: 3 requests, 3 coordinator threads, one shutdown; start-up: 3 ranks, 2 images; audio: a buffer of 5, chunks of 2, banks of 3 and 0; fairness | *worker*: `ServesWorkPool`: handlers, coordinators and the drain implement the work pool; `EarlySubmitsReturn`: a request queued before the drain ends is answered, unless a broadcast raised; *start-up of the ranks*: `SameRender`, `RanksStart`; *audio*: `WindowIsRecent`, `OwnAvatarOnly`, `EverySlotShown` |
| `avatar` | 2 connections, 2 session ids, 4 endpoints, 1 cached QuickTalk worker for 2 templates, fairness | `RuntimeStateIsLive`: no state outlives its session; `SessionsAreOwned`: no session is forgotten (the video-clone handler excepted); `RendersOwn`: image, settings and worker are the session's own; `CancelledStaysSilent`; `EveryMessageAnswered` |
| `services` | nine components side by side, fairness | *caches*: `LostToOthersOnly`; *Redis*: `RecordGrows`; *Diffusers jobs*: `RenderIsOwn`, `ArtifactsAreOwn`; *programs outside*: `OutputIsOwn`; *installer*: `InstallRecorded`; *speech*: `EverythingSpoken`, `StreamEnds`; *audio of a session*: `AudioKept`; *MuseTalk and Wav2Lip servers*: `RepoWhileNeeded`; *FlashTalk connections*: `RanksInStep`, `MessagesAnswered` |
| `ack` | as `cancel` | `AckedCancelSticks` is violated (section 6) |
| `realtime` | 1 job, 1 realtime client, fairness | `RealtimeCompletes` is violated |
| `flashtalk_stranded` | 2 requests, 2 coordinator threads, fairness | `EverySubmitReturns` is violated |
| `redis` | 1 job, a reader in and one outside the process, a subscriber | `SettledStays` is violated |

### Bounds, and why they are enough

* *Jobs and threads.*  The races over a record are between one `cancel` and one
  thread that executes; two workers and a `run_sync` caller give the batch walk
  a neighbour that runs concurrently, and two jobs make a batch.  For dispatch,
  two workers that collect at once need an anchor each, an item both want and an
  item both set aside: four jobs, of the kinds *batchable* (twice), *without a
  signature*, and *without signature and prompt*, which takes its worker down.
  Beyond these numbers the theorems of section 5 take over.
* *Cancels.*  The canceller of `cancel` and `live` may call any number of times,
  for any job.  In `stream` one cancel is under way at a time (`MaxCancels`),
  one handler is opened (`MaxHandlers`), and one abandoned `channel.get` per
  client (`MaxOrphans`): enough for an event to be stolen while the next one is
  relayed.
* *Managed worker.*  With two restarts per window the budget boundary is reached by
  the third failure, and a new budget after a cool-down differs from one probe; the
  clock (`MaxTime`) passes the window and a cool-down once; three submits
  (`MaxCalls`) of two threads, each of which may restart before and after its call,
  allow a late failure of one after the restart by the other.
* *FlashTalk worker.*  Three requests: one in a run that outlives the join, one
  drained or queued late, one that starts the worker again.  Three coordinators:
  the first and two new ones, which two handlers that both find the worker not
  started create; `Load` needs a thread that has not run, which is the bound.
* *Avatars.*  Two connections meet in the lock, in the pipeline and in the worker
  cache; a cache of one worker with two templates makes every second session
  evict.  Each endpoint appears on either side; `native` stands for FlashTalk and
  Wav2Lip, whose handlers differ in nothing the model keeps.
* *Caches.*  Three threads, three keys and room for two (`CacheSize`): a thread
  that waits for an executor while two others evict it; four requests
  (`MaxRequests`) let one come back.
* *Redis.*  Two calls of each reader (`MaxLooks`), so that one can come before and
  one after any write, or both in one call of the executor.
* *Speech.*  Two segments of up to four tokens (`MaxTokens`); a first batch of
  two, hop and overlap of one: full, partial and empty last windows all occur,
  with the stop token in any of them.  The queue of two can be full.
* *Audio of a session.*  Five chunks (`MaxChunks`) pass the context, the window
  and the incomplete end of the mel spectrogram (`MelTail`) more than once; a context
  of two chunks, and one of 0 (`Spans`).
* *MuseTalk and Wav2Lip servers.*  Two connections and an image that decodes or
  not; their calls nest, and overlap with either one leaving first.
* *Diffusers jobs.*  Two jobs of a model of every pipeline class, every request
  like the usual one but for one thing on one side; a result cache with room for one
  bundle (`MaxBundles`), so that the second evicts the first.
* *Programs outside.*  Two jobs of each of the eight, which share their executor or
  not; two pieces of sound (`StreamLength`) let one arrive after the other is heard.
* *Installer.*  Two installs (`Installs`): the second meets everything the first can
  leave; a third meets nothing new, except after two that failed at different
  places.  Every manifest kind, every directory the user may have put there.
* *Start-up.*  Three ranks, two images, every combination of missing, good and
  damaged files, the second image being warmed up: rank 0 can save while one rank
  is behind and another ahead.
* *Connections.*  Two clients, two other ranks, two images, each of which may not
  decode: a good init and one that fails, is given up between two broadcasts, or
  replaces; the init after one that was given up.
* *Ring and bank.*  A buffer of five and chunks of two have no common divisor, so
  every alignment of write position and end occurs.  One avatar has a bank of
  three (both turning points and a middle), the other none; holds of one and two,
  a refresh every second chunk, so that refreshes meet turning points.
* *Symmetry.*  `j1` and `j2` have equal requests and the workers are alike;
  `PairSymmetry` is used in the safety runs only.
* *Deadlock.*  The instances with bounded calls stop when all are used up, and a
  server may be left by all its clients, so `CHECK_DEADLOCK` is off; waiting for
  ever is what the liveness properties exclude.

### Fairness

* `FairSpec`: weak fairness for a submit that has begun, for the dispatch steps
  and the execution steps of each thread, and for a cancel under way.  These are
  Python threads that the operating system schedules; the waits in them have
  time-outs (`queue.get`, the batch window), and executor calls are assumed to
  return.  Nobody has to submit or to cancel.
* `FairStreamSpec`: the same, and handlers and abandoned reads (which have a
  time-out) are scheduled.  No client has to connect, send or leave.
* `FairManagedSpec`: weak fairness for each calling thread: the RPC has a
  deadline, the start-up a time-out.  The process need not come up, the clock
  need not advance.  That a lock is granted in the end follows from the bound on
  the calls; starvation by an endless stream of other callers is outside the
  model.
* `FairFlashTalkSpec`: weak fairness for each handler after `Submit`, each
  coordinator and the main thread once it shuts down.  `queue.get` and the join
  have time-outs, a run on the devices is assumed to end; `done.wait()` has no
  time-out and is fair only once it is set.
* `AvatarSpec`: weak fairness for the threads and strong fairness for the steps
  of each handler on the event loop, which are enabled only while the loop is not
  in another handler.  `asyncio` runs ready tasks in turn and its lock is FIFO,
  so none is passed over for ever.  No client has to send or leave.
* `MCServices`: the fairness of each module's own specification for the part that
  is followed: weak fairness for the generate threads, the worker thread and the
  reader of the speech stream, the ranks at start-up
  and their collectives (a render ends, or raises), message handlers, ranks and
  main thread of the FlashTalk server.  No client has to send anything.
* `EverySlotShown` assumes in its premise `SilentForever` that the client goes on
  sending and stays silent; the specification does not.

`EveryJobSettles` is checked for requests that cannot take a worker down; for
the others `ReleasedIsSettled` says what remains.

## 4. How state and actions correspond to the code

`map` in `PROJECT.json` names the lines of each definition.  The main points:

* **Engine.**  `stage[j]` is how far `submit` or `run_sync` got; a job id can be
  cancelled or watched only after `submit` returned it.  `FoundCancelled`:
  `_execute` looks at the state in the read it saves from (engine.py:148),
  `_execute_batch` only in `Filter` (engine.py:234); this is the one guard in
  which the two differ.  `Dispatch` contains the exception path of
  `create_group`: the `finally` clause of `Worker.run` counts the items as done
  and the thread ends (`"dead"`).  `ReadBack` is a step of its own: the
  executor's events have been appended to the stored record, not to the thread's
  copy.
* **Streams.**  `Close` is the `finally` clause of a handler, `Disconnect` an exit
  at one of the places where the handler awaits or sends.
* **Managed worker.**  `Start`, `EnsureReady` and `Recover` take the supervisor
  lock, decide, and either release it in the same step or keep it over
  `"backoff"` and `"boot"`; only calls in flight, the process and the clock move
  meanwhile.  `Lost` ends the calls in flight when the client is closed or the
  process gone.  `Start` with the breaker open and a failed `boot` for the goal
  `"rpc"` are inside the `try` of managed.py:113: the error is a `RuntimeError`, which
  line 276 takes for a reason to restart when the process has exited, so the thread
  goes on to `"recover"`.
* **FlashTalk worker.**  `Ready` and `Route` are the two looks of `submit` before
  the request is queued; `Begin` is the assertion on `_dist` outside the `try`,
  which ends a coordinator that outlived the shutdown.
* **Executor caches.**  The factory runs under the cache's lock: `building` is the
  thread that holds it, and nobody else can look anything up.  `Release` comes
  after that lock is returned and without the executor's own (pipeline_cache.py:36);
  `Run` with a handle that is gone raises, with a worker that was shut down it
  starts it again.
* **Redis store.**  `Calls` is the sequence of store calls the engine makes for a
  job.  Within a call `local`, `remote` and the channels change one after the
  other.  `raced` records that a `get` put an older record in place of a local
  one that had changed; the properties say what holds until then and what holds
  in spite of it.
* **Avatar sessions.**  `queue` is `avatar_runtime_lock` with those who wait for
  it; `job`, `fresh` and `good` are the locals of a handler over an await.  `loop`
  is the handler the event loop is blocked in while `close_session` waits for the
  lock of the QuickTalk workers.  Ids become free when neither a table nor a
  handler has them.
* **Token stream.**  `batch` is what `NextToken` has collected, `Decode` what one
  call of the decoder returns with overlap and look-ahead, `EndSegment` and
  `EndStream` the last window and the sentinel.  A decode that fails leaves the
  generator through its `finally` clause.
* **Audio of a session.**  The order inside a call decides what a failure leaves
  behind: Wav2Lip and the portrait store the chunk before the step that may fail,
  QuickTalk computes the features first and changes its state afterwards, and
  frames may still fail after that.
* **FlashTalk server.**  `files` are the temporary images, `command` the command
  file with the ranks that have not seen it, the cached shape of the embedding is
  part of each rank's state.  An error that `worker_loop` does not catch ends the
  rank, one that rank 0 catches (line 1241 for an init) leaves the others where they
  are.  A handler takes up a message whatever the others do (`Answering`); `crossed`
  remembers that it was not alone.  `IdlePreload` has the decision of each rank per image, `FlashTalkAudio`
  what `close`, a disconnect and a new init clear (`Cleared`), and the cursor in
  the idle bank.
* **Pipelines.**  `holder` is the lock of the cache entry, `leader` the job that runs
  for a batch; `built` and `lastSeed` are what a pipeline object keeps between two
  runs, `saved` what the files show by name.  `Reusable` is the comparison of the kept
  pipeline with the request (`pipeline_cache_key`), `EmbeddingKey` the key of the
  result cache.
* **Programs outside.**  `outbox` is what lies in the output directories by name,
  `orders` what the files of requests say, `contexts` the text contexts in the
  temporary directory.  `Uses` says for each program how it names its output, what
  its executor keeps and how it fails.
* **Installer.**  `pieces` is what is on the disk, `broken` what a command has left
  unfinished and no later one has made anew.  The guards are the looks at the disk
  that the code makes, and they see the same for `partial` as for `whole`.
* **Model servers.**  `previous` is the stack of directories a call has to restore,
  two deep when MuseTalk's `_temporary_cwd` is entered while already in it.  Reading
  the directory and changing it are two steps, between which another call may change
  it.  `overtaken` records that the launch directory was given back while another call
  had still to restore one; it ends when that directory is given back with no call left.

## 5. What is proved

Everything below holds for every value of the constants that satisfies the named
assumptions: `StoreAssumption` (workers and `run_sync` callers are different
threads), `BatcherAssumption` (the kinds of request), `EngineAssumption` (sizes,
kinds of caller), `PlaceAssumption` (a thread is not called `"absent"`,
`"waiting"` or `"done"`; `FlashTalkWorker` has one of the same name for its
coordinators), `ManagedAssumption` (timings are positive, limits are numbers),
`BufLenAssumption` and `AudioAssumption` (lengths are positive),
`FlashTalkServerAssumption`, `PreloadAssumption`, `CacheAssumption` (there is room
for an executor), `InstallAssumption`, `StreamAssumption` of `JobStream` (a client uses
one route, and an SSE client is not one of the callers of cancel), `StreamAssumption`
of `AudioStreams` (lengths are numbers, 0 included), `TokenAssumption` (lengths and
windows; the token queue holds two at least, where the code has eight,
indextts/runtime.py:949), `AvatarAssumption` (the
endpoints are those of the code, a worker cache has room for one),
`PipelineAssumption`, `RegistryAssumption` (one pipeline class for a model and a task)
and `ExternalAssumption` (the programs are registered ones).  TLC evaluates each of them on the instances of section 3.  So the jobs,
threads, clients and cancellers may be any sets, the requests any mix, batches,
buffers and windows of any size.  Two modules fix a number by definition:
`PipelineRun` and `ExternalRun` have two jobs, and their theorems are about every pair
of requests.

**Types** (`JobEngineProofs`: `TypeCorrect`, `TypeSafety`).  `TypeOK` is not
inductive: a step of a walk writes the record of `active[t][idx[t]]`, which is a
job only while the index is in range.  `TypeInv` adds `IndexInRange`.  Each of
the four groups of actions has a lemma, which splits into one step per action;
`TypeUnchanged` disposes of what an action leaves alone and `NextItemInRange` is
the argument about the loop counter.

**Items** (`JobEngineProofs`: `ItemsCorrect`, `ItemsAreExclusive`,
`NoSecondRun`).  The inductive invariant `ItemInv` is
* `TypeInv`,
* `ExclusiveItems`: queue, batches, set-aside lists and returned items are
  disjoint and free of duplicates,
* `PlacedIsSubmitted`: only a job past `Put` or `RunSync` is in any of them, so
  that a new item is new,
* `ActiveIsHeld`: what is executed is held, so that two threads never execute
  the same item,
* `RunIsRemembered`: a job that ran is still held by the thread past its run or
  was returned, so that whoever is about to run it has not run it.

`Rearranged` covers the steps that move items within one thread, the queue and
the returned items, `NotMoved` those that move none.  `AtMostOneRun` follows from
`RunIsRemembered`.

**Records** (`JobEngineOutcomeProofs`).  Threads overwrite
each other's records with copies, so an invariant about a record has to speak of
the copies too, and of where their owners are.
* `RunningHasOwner` (`RunningIsOwned`), from `OwnerInv`: a record that says
  running is being worked on by the thread it names, and the walk over a batch
  starts at its first item.
* `OutcomesNeverMix` (`OutcomeMatchesState`), from `OutcomeInv`: result and error
  appear only in records that are settled or about to be, the copy of a thread
  that will still save is free of them, and the items of a walk are different, so
  that one step of it cannot spoil another.
* `EventsSurvive` (`EventsKept`), from `EventsInv`: of a job no cancel met, the
  copy of each thread that will save it has every event there is
  (`CopiesAreCurrent`), and a cancel leaves a trace before it can make a copy old.
* `CancelInTimeHolds` (`CancelLatches`): the action property, from `EventsInv`.
* `GivenBackIsSettled` (`ReleasedIsSettled`), from `ReleasedInv`: what a thread
  holds is settled, or the thread is still in front of it; for a batch this needs
  that all its items have one signature, so that it is executed as a whole or not
  at all.

**Dispatch** (`JobEngineProofs`).
* `NothingIsLost` (`NoItemLost`), from `PoolInv`: every submitted item has a place,
  a thread has items only where its control says so, and the counter of
  unfinished tasks is the number of items not given back, less one for each worker
  that has counted a set-aside item as done and not yet put it back.
* `PoolIsImplemented` (`ImplementsWorkPool`): the engine implements `WorkPool`.
  `ExclusiveItems` makes `PlaceOf` well defined; `PlaceIs`, `PlaceIsNext` and
  `PlaceStays` compute it before and after a step.  `Put` is `Submit`, `RunSync`
  is `Bring`, `Take` and `Collect` are `TakeItem`, `Requeue` is `PutBack`, `Run` is
  `RunItems`, `Release` and a `Dispatch` that fails are `FinishAll`; all other
  steps stutter.

**Managed worker** (`ManagedWorkerProofs`), with the restarts of submits whose own
start failed.
* `CooldownIsKept` (`CooldownRests`), from `SupervisorInv`: the thread in `"backoff"` or
  `"boot"` is the owner of the lock, and the breaker was closed when it began to wait.
* `BudgetIsKept` (`RestartBudget`), from `BudgetInv`: the property speaks of all
  restarts there ever were, the code has the stamps of the latest ones.  Restarts are
  in the order of the clock (`Ordered`); the stamps are the end of them
  (`StampsAreLast`); what has no stamp any more is out of the window or has a cool-down
  behind it, and stays so as the clock goes on (`DroppedIsOld`, `Divided`); only the
  oldest stamp can be the probe of a cool-down (`FirstIsProbe`), which was waited for
  (`OpenedAfter`, `ProbeIsLate`).  Together they give `Spaced`: a restart and the one
  `MaxRestarts` later are a window or a cool-down apart.
* `OpeningIsEarned` (`OpensForCause`), from the same invariant: when the breaker opens,
  the stamps are `MaxRestarts` different restarts inside the window with no probe after
  the first.  It also says what the code does not do: a failed probe does not open it.

The model says what is in the window by the place where the stamps are cut (`Recent`),
which is the same as the filter of the code because stamps are in order; `CutExists`
proves that there is such a place.

**FlashTalk worker** (`FlashTalkProofs`): `WorkerIsPool` (`ServesWorkPool`): the
handlers, however many coordinators, and the shutdown implement `WorkPool`.  The
inductive invariant `WorkerInv` says that a request is in the queue once, or with one
coordinator, or with the drain (`Apart`), that whoever is held waits for an answer
(`HeldWaits`), that it has not run unless its coordinator is in the run (`NotRunYet`),
and that a request that is not yet queued is untouched (`Fresh`).  `HandlerIsPool`,
`CoordinatorIsPool` and `ShutdownIsPool` map the steps: `Put` is `Submit`, `Get` and
`DrainTakes` are `TakeItem`, `Begin` is `RunItems`, and every step that lets go of a
request (`RunEnds`, `BroadcastFails`, a `Begin` without `_dist`, `DrainFails`) is
`FinishAll`; all other steps stutter.

**FlashTalk server** (`FlashTalkProofs`).
* `AppendShiftsWindow`: a write into the circular buffer followed by reading it out
  shifts the window by the chunk, for every position, also when it wraps, fits
  exactly or is longer than the buffer.  `WindowSafety` (`WindowIsRecent`) uses it
  in each step: what a render sees is what the client sent last, through failed
  renders, replies from the bank and refreshes.
* `OwnAvatarSafety` (`OwnAvatarOnly`), from `FramesInv`: the cursor stays inside
  the bank, so that what is shown, blended or put back into the bank was made from
  the avatars the session was opened with.
* `RanksInStepSafety` (`RanksInStep`), from `StepInv`: for each place where rank 0 can
  be, what the command file says, which ranks have not seen it, where those ranks are
  and what shape they have cached; and, once rank 0 has given up a command the others
  are in, that each of them is dead, waits in that command for ever, or reads its image
  once more (`GiveUpInStep`).  `crossed` is part of the property: the moment two
  messages are under way at once, two threads may be in the same collective or write
  the command file one over the other, and nothing about the ranks is true any more
  (section 6).  Until then, with any number of clients that come, go, send nonsense and
  time out, the ranks are in step.
* `SameRenderSafety` (`SameRender`), under the hypothesis `Different` (no two
  configured images share a key), from `PreloadInv`: an image that one rank is past
  and another has not decided about is on the disk; an image that a rank renders is
  not on the disk and nobody is past it.  Section 6 says what happens
  without the hypothesis.

**Services** (`ServiceProofs`).
* `LostOnlyWhenCrowded` (`LostToOthersOnly`), from `CacheInv`: the only thread that
  builds holds the cache lock, so that no key is in the cache twice (`OneEach`); an
  executor in the cache, or about to be, is loaded and is nobody's to release
  (`StillLoaded`); the entry of a waiting request is in the cache with only keys
  behind it that were looked up since, or as many of these were as there is room for
  (`LostInTurn`).  When the entry is evicted, all other places have been taken by
  different keys since: an injection from the places into those keys.
* `RecordNeverGoesBack` (`RecordGrows`), from `RedisInv`: before a race the record in
  Redis is the local one, or the one before the last change of a call that is
  under way (`InStep`); what a reader saw is a prefix of it (`SeesEarlier`), what a
  channel has is the end of what was sent (`ChannelsFollow`).
* `RepoIsGivenBack` (`RepoWhileNeeded`), from `ChunkInv`, for calls that overlap in any
  way: as long as none was overtaken, the process is in the repository with a call there
  that came from the launch directory (`Holds`), or it is in the launch directory and
  whoever is about to change has read that one (`Sound`); only the outermost entry of a
  call can be the launch directory (`InnerIsRepo`).  Who leaves with the repository to
  restore leaves the holder behind, who leaves with the launch directory ends the
  matter or sets `overtaken`.
* `InstallsRecordWhatIsThere` (`InstallRecorded`), from `InstallInv`: for each step
  which pieces are behind it, and that these are usable or known as broken; the
  virtualenv and the packages are made anew by every install that gets past them.

* `SpeechIsWhole` (`EverythingSpoken`), from `TokenInv`.  `Line` is what the client
  heard followed by what is on its way to it.  `LineInv` says that the line is in order
  (`Ascending`), that it has only sounds up to the edge the worker has come to, an error
  or the end (`LineHolds`), and all sounds up to that edge, and of all segments before
  it (`LineCovers`).  So that nothing is left behind the edge when a segment ends,
  `WorkerInv` counts the tokens: those that were said and not decoded are the first in
  the queue of the segment, with the marks of the end behind them (`QueueInv`), no
  segment says more once the worker has left it (`Behind`).  `StartSegment`,
  `NextToken` and `NextCodes` extend the line by what `Decode` sounds (`Sounding`);
  `Safe` never goes back behind what was sounded (`SafeBetween`).

**Job streams** (`JobStreamProofs`), for all three routes, any number of clients and
the whole engine beside them.  The invariant is `StreamInv`.
* `DeliveredInOrder` (`InOrderDelivery`).  Saves of old copies drop events from records
  and orphaned gets take events from channels, so what a client gets is no prefix and
  no interval of the log; it is embedded in it (`Embeds`: a strictly increasing map of
  the places).  Records, and the copies of whoever will save one, are embedded in the
  log (`RecordsInOrder`), and so is, for each handler, what it replayed or will replay
  followed by its channel (`Ordered`).  An event that is appended comes last
  in the log and in each channel; whatever removes elements keeps an embedding.
* `NoEventMissed` (`NothingMissedSince`), from `Gapless`: an SSE handler leaves no get
  behind, so its channel is exactly what came since the registration.

**Avatar service** (`AvatarProofs`).  `AvatarInv` says who may change what: the FIFO
lock holds each connection once, and only its first is in a thread (`LockInv`); only one
handler is between two awaits of the event loop and only one thread builds a QuickTalk
worker (`LoopInv`); a session has one owner, a connection or a preload, and each place
in a handler says whether that session exists and of which model it is (`OwnInv`).  From
it, together with the properties themselves, which are inductive then:
* `StateEndsWithSession` (`RuntimeStateIsLive`),
* `NoSessionForgotten` (`SessionsAreOwned`, but for the failed preload of the
  video-clone endpoint, which section 6 describes),
* `RendersWithItsOwn` (`RendersOwn`): between the set-up of the shared pipeline and the
  end of the render no other thread gets into the runtime, and an eviction does not hit
  the worker in use because it was moved to the end of the LRU first.

`CancelledStaysSilent` is a conjunct of the invariant, which the others need, and no
theorem of its own: one connection has a session, and it reads a cancel only between two
calls of that session.

`AudioIsKept` (`AudioKept` of `AudioStreams`), from `AudioInv`: Wav2Lip's history is
everything that was sent (`CatchesUp`), a QuickTalk chunk waits until the next one is
there and what was shown lies before it (`LooksAhead`), and the buffers of portrait and
MuseTalk are an end of what was sent, as long as `Kept` says after a call that went
well, and all of it when MuseTalk's context is 0 (`Latest`).

**Results** (`RunProofs`).  The tables of classes and programs are not expanded: what
is proved does not depend on which class asks for what.
* `RendersAreOwn` (`RenderIsOwn`) and `FilesAreOwn` (`ArtifactsAreOwn`), from
  `PipelineInv`: a batch goes through its stages together (`BatchesTogether`); who runs
  holds the lock of its executor (`LocksHeld`), hence the pipeline kept in it and its
  last seed are those this job has set (`PipelinesFit`: for a modular pipeline all but
  the scheduler, `BuiltFor`); what the embedding cache
  gives under a key was made by a job with the same key (in `PipelineTypeInv`: `Bundle`),
  and the key tells prompts and weights apart, but not guidance: the property names the
  pair of requests for which that matters (`OtherTwin`).
* `OutputsAreOwn` (`OutputIsOwn`), from `ExternalInv`: the name of an output is chosen at
  the launch and kept (`NamedOnce`); a request file holds the request of a job of that
  name (`OrdersNamed`); every file shows a job of its name, or for LiveAct of its stem
  (`FilesNamed`); and of a stream, what is kept and what is still to be heard make all
  that was uttered, with the last message last (`AllHeard`).

The invariants `TokenInv` and `BudgetInv` were checked by TLC on the instances of
`services` and `managed` before they were proved.

**Only model-checked.**  Every safety property of the passing runs is a theorem, or,
for `CancelledStaysSilent`, a conjunct of a proved invariant.  What
is left to TLC is liveness, which is out of the prover's reach: `EveryJobSettles`,
`StreamsEnd`, `SubmitsReturn`, `EarlySubmitsReturn`, `EveryMessageAnswered`, `StreamEnds`,
`RanksStart`, `MessagesAnswered` and `EverySlotShown`.

## 6. Where the code does something else than it says

Four have a run that shows them, and an entry in `findings`:

1. *An acknowledged cancel may not hold* (`ack`).  A worker that read the job as
   queued saves its own copy over the cancelled record (engine.py:94 and 148),
   and runs the job.
2. *A realtime client may wait for ever* (`realtime`).  `/v1/realtime` registers
   after `submit` and replays nothing (openai.py:332).
3. *A submit to the FlashTalk worker may wait for ever* (`flashtalk_stranded`).
   The request is queued after the drain of `shutdown`, by a handler that found
   the worker ready before (resident_worker.py:287); an exception of the broadcast
   (line 395) has the same effect.
4. *A settled job may be running again in Redis* (`redis`).  `get` in the executing
   process puts what it read before the last save in place of the local record
   (redis_store.py:38), the next `append_event` writes that back.

Others were met while modelling.  The models contain them, no run is spent on
them:

* Requests that cannot be batched are merged: `matches` compares signatures, and
  `None` equals `None` (batcher.py:38), against
  src/docs/user_guide/features/dispatch_queue.en.md:50.
* After a cool-down there is not one probe, whose failure opens the breaker at once,
  but a whole restart budget, and a success does not reset the counter (managed.py:217
  against its docstring at 23-24 and its comment at 213-215).  `OpensForCause` states
  the former as what the code does.  A worker that is healthy but whose client was
  taken down is restarted too (line 145).
* An error of the application arrives as a gRPC error and restarts the worker
  (managed.py:272 against the comment at 265-266).
* The FlashTalk server says that it is fully synchronous and that all distributed
  operations are in the main thread (flashtalk_ws_server.py:1105, 1108, 1214), but
  `websockets.sync` calls each handler in a thread of its own, and no lock keeps them
  apart.  Once two are under way at once (`crossed`) the ranks may get out of step.
* An init of the FlashTalk server may fail between two broadcasts, for a prompt that is
  no string or a seed out of range (lines 1217-1218).  Rank 0 reports the error and
  serves on (line 1241), the other ranks wait for the rest of the command.  The next init
  gives them its path for it, goes on sending, and is never answered.  `left` records it; `RanksInStep` says that nothing is rendered out of step then.
* The SDXL pipelines declare a scheduler (models/sdxl/pipeline.py:34, 46-47), but the
  modular executor, through which the engine runs them, never looks at it
  (executors/modular.py:47-102, 219-250): a job gets the default one.  `RenderIsOwn`
  says so of every modular pipeline.
* The key of the cached embeddings does not contain the guidance (result_cache.py:38):
  of two jobs that differ in it the second is rendered with the text of the first.
  `RenderIsOwn` names exactly these pairs (`OtherTwin`).
* Calls of the MuseTalk server that overlap in the thread pool restore each other's
  directory (musetalk_ws_server.py:177).  If the one that came from the launch directory
  leaves first, it takes the repository from the other, which leaves the process in it
  at its end.  `RepoWhileNeeded` says that nothing else disturbs the directory.
* `OMNIRT_MUSETALK_AUDIO_CONTEXT_SAMPLES=0` does not switch the context off: the slice
  `[-0:]` keeps the whole audio, which grows with the session
  (musetalk_ws_server.py:401, 537), and so does a QuickTalk context of 0
  (quicktalk/runtime_worker.py:627-633).
* The video-clone handler does not close its session when the connection ends at
  certain awaits (avatar.py:667); `SessionsAreOwned` excepts it.
* After a decode failure the generate thread of IndexTTS may stay blocked on its
  full queue (indextts/runtime.py:239).
* An `init` of the Wav2Lip server that fails over an active session leaves the new
  base frame with the old face data (wav2lip_ws_server.py:515-568).
* Two configured images with the same frame have one idle key; rank 0 can save
  the bank of the first while another rank has passed its look at the second.
  `IdlePreload` assumes different keys in its instance.
* The settings of FlashTalk are said to come from `configs/*.yaml` before
  `~/.omnirt/*.yaml` (models/flashtalk/components.py:3-8), but `_yaml_settings`
  (lines 71-78) lets the file of the user win.
* A LiveAct job whose script stops after the text context, or that shares the file
  names of image and audio with another, is given the file of that run; half a text
  context left in the temporary directory is used by the next job.
* FlashHead names its files by the seed but does not pass it to its script.
* `PipelineResidentWorker.submit` calls the pipeline without a lock, where the other
  executors have that of the cache entry.
* A clone, pull or download that was interrupted is recorded as installed by the next
  install (installer.py:405 and 431-446); after a `--recreate-venv` that failed the
  old state file names a virtualenv that was removed (line 377).  `InstallRecorded`
  names both.
* The IndexTTS pipeline always raises.

## 7. Plan

Done: all modules of section 2, with the theorems of section 5.

What would come next, in this order:

1. **Proofs** - `PipelineRun` and `ExternalRun` for any number of jobs.
2. **`TokenStream`** - the segment mode, which decodes whole segments.
3. **`FlashTalkServer`** - what should be true with overlapping handlers, once the
   code decides how they are to be kept apart.

## 8. What is not modelled, and why

Most of the repository's lines that are left are tensor code, command lines,
configuration and HTTP schemas.  They have no state that outlives a call and no
second actor, so a model checker has nothing to explore there and a model would be
a transcription.

* *Controller*: a filter by model and tags and a round-robin counter; each call is
  one step under one lock, and nothing else depends on it.
* *gRPC transport*: message conversion and wiring; what it does to errors is part
  of `ManagedWorker`.
* *Telemetry*: counters and traces under a lock, read by people only.
* *HTTP app, schemas, authentication; presets*: checks and conversions of single
  requests.  Of registry and validation `PipelineTable`, `PipelineRun` and
  `ExternalRun` have what decides which requests reach a pipeline; that validation
  takes the empty prompt of the qwen-image-layered example for a missing one, and
  that FLUX.2 drops a negative prompt, is not in a property.
* *CLI and bench*: parsing, printing, loops of single requests.
* *Adapters*: they are loaded into the pipeline; the keys of `PipelineRun` do not
  tell requests with different adapters apart.
* *Backends, middleware, schedulers and the tensor work of pipelines, runtimes and
  model servers*: what is rendered, blended, detected or synthesised is represented
  by what it is made from.
* *Two installers at once*: they share the checkouts, and nothing keeps them apart.
