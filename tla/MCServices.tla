------------------------------- MODULE MCServices ------------------------------
(***************************************************************************)
(* Components that share no state of the model, each followed on its own:  *)
(* the executor caches, the Redis job store, an IndexTTS stream, the audio *)
(* of a realtime session, the MuseTalk and Wav2Lip servers, the            *)
(* connections of the FlashTalk server, the jobs of the Diffusers          *)
(* pipelines and of external programs, and the installer.                  *)
(***************************************************************************)
EXTENDS ExecutorCaches, RedisJobStore, TokenStream, AudioStreams, ChunkServers,
        FlashTalkServer, PipelineRun, ExternalRun, RuntimeInstall, TLC

VARIABLE part

\* A model of every pipeline class.
MCModels ==
    {"sd15", "sdxl-base-1.0", "sd3-medium", "svd", "animate-diff-sdxl", "chronoedit",
     "qwen-image", "qwen-image-edit", "mochi", "helios-i2v", "flux-dev", "flux-kontext",
     "flux-fill", "flux-depth", "flux2-dev", "wan2.2-t2v-14b", "wan2.2-i2v-14b"}
MCPrograms == DOMAIN Programs
MCRuntimes == DOMAIN Manifests

jobVars == <<pipelineVars, externalVars>>
engineVars == <<cacheVars, redisVars, jobVars, installVars>>
streamingVars == <<tokenVars, streamVars, chunkVars, serverVars>>

\* A part that is not followed has one initial state.
Init ==
    /\ part \in {"caches", "redis", "pipelines", "programs", "install", "tokens", "streams",
                 "chunks", "connections"}
    /\ PipelineInit
    /\ part # "pipelines" => asked = "svd" /\ engine /\ requests[1] = requests[2]
    /\ \/ part = "programs"
       \/ part # "programs" /\ program = "sensevoice" /\ demands = <<UsualDemand, UsualDemand>>
          /\ sources = [s \in Source |-> IF s = "project" THEN "there" ELSE "unset"]
    /\ ExternalInit
    /\ \/ part = "install"
       \/ part # "install" /\ manifest = "musetalk" /\ pieces = [p \in Piece |-> "absent"]
    /\ InstallInit
    /\ CacheInit /\ RedisInit /\ TokenInit /\ StreamInit /\ ChunkInit /\ ServerInit
    /\ part # "tokens" => context /\ streamed
    /\ part # "chunks" => model = "musetalk"
    /\ part # "streams" => runtime = "wav2lip" /\ span = 0 /\ live

EngineNext ==
    /\ UNCHANGED streamingVars
    /\ \/ part = "caches" /\ CacheNext /\ UNCHANGED <<redisVars, jobVars, installVars>>
       \/ part = "redis" /\ RedisNext /\ UNCHANGED <<cacheVars, jobVars, installVars>>
       \/ part = "pipelines" /\ PipelineNext
          /\ UNCHANGED <<cacheVars, redisVars, externalVars, installVars>>
       \/ part = "programs" /\ ExternalNext
          /\ UNCHANGED <<cacheVars, redisVars, pipelineVars, installVars>>
       \/ part = "install" /\ InstallNext /\ UNCHANGED <<cacheVars, redisVars, jobVars>>

StreamingNext ==
    /\ UNCHANGED engineVars
    /\ \/ part = "tokens" /\ TokenNext /\ UNCHANGED <<streamVars, chunkVars, serverVars>>
       \/ part = "streams" /\ StreamNext /\ UNCHANGED <<tokenVars, chunkVars, serverVars>>
       \/ part = "chunks" /\ ChunkNext /\ UNCHANGED <<tokenVars, streamVars, serverVars>>
       \/ part = "connections" /\ ServerNext
          /\ UNCHANGED <<tokenVars, streamVars, chunkVars>>

Next == UNCHANGED part /\ (EngineNext \/ StreamingNext)

\* The fairness of each module's own specification, for the part followed.
Fairness ==
    /\ \A s \in Segment : WF_tokenVars(part = "tokens" /\ Generate(s))
    /\ WF_tokenVars(part = "tokens" /\ WorkerNext) /\ WF_tokenVars(part = "tokens" /\ Read)
    /\ \A c \in Conn : WF_serverVars(part = "connections" /\ MessageStep(c))
    /\ \A w \in Worker : WF_serverVars(part = "connections" /\ WorkerStep(w))
    /\ WF_serverVars(part = "connections" /\ MainStep)

Spec == Init /\ [][Next]_<<part, engineVars, streamingVars>> /\ Fairness
===============================================================================
