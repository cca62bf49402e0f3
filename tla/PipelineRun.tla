------------------------------ MODULE PipelineRun ------------------------------
(***************************************************************************)
(* Jobs that run Diffusers pipelines: the stages of BasePipeline.run with  *)
(* the legacy executor, the modular executor with its batches, the result  *)
(* cache of prompt embeddings that all executors share, and the files the  *)
(* runs leave under names that hold the model and the seed only.           *)
(***************************************************************************)
EXTENDS PipelineTable, Maps, Naturals, Sequences, FiniteSets, SequencesExt

CONSTANTS
    FollowedModels, \* the models whose variants the instance runs
    MaxBundles,     \* max_items of the result cache
    NoSeed, NoText  \* no seed, no negative prompt in a request

ASSUME PipelineAssumption == MaxBundles \in Nat \ {0} /\ FollowedModels # {}

\* The registry has one class for a model and a task.
ASSUME RegistryAssumption ==
    \A c, d \in ClassName :
        /\ PipelineClass[c].task = PipelineClass[d].task
        /\ PipelineClass[c].models \intersect PipelineClass[d].models # {}
        => c = d

VARIABLES
    asked,        \* the model asked for
    engine,       \* the jobs go through the engine; else a caller runs the class itself
    requests,     \* job -> its request
    leader,       \* job -> the job that runs for it, itself or the first of its batch; 0 before
    stage,        \* job -> where its run is
    holder,       \* executor -> the job that holds its lock, 0 for none
    built,        \* executor -> the setting its pipeline was built with
    lastSeed,     \* executor -> _last_seed of its pipeline object
    bundles,      \* ResultCache._items, oldest first: key and bundle
    conditioning, \* job -> the text the library was called with
    rendered,     \* job -> the settings and the seed it was rendered with
    saved,        \* name -> what the file shows
    artifacts     \* job -> the name of the file in its result

outputs == <<saved, artifacts>>
pipelineVars == <<asked, engine, requests, leader, stage, holder, built, lastSeed, bundles,
                  conditioning, rendered, outputs>>

Task == {1, 2}

\* A request departs from the defaults in at most one config value.
Setting == {"default", "source", "dtype", "scheduler", "motion_adapter", "offload"}

Request(c) ==
    [class: {c}, prompt: {1, 2}, negative: {NoText, 1}, guided: BOOLEAN, seed: {NoSeed, 1, 2},
     setting: Setting, given: {PipelineClass[c].requires, {"image"}}]

UsualRequest(c) ==
    [class |-> c, prompt |-> 1, negative |-> 1, guided |-> TRUE, seed |-> 1,
     setting |-> "default", given |-> PipelineClass[c].requires]

\* Requests like r but for one thing.
Nearby(r) == {q \in Request(r.class) : Cardinality({f \in DOMAIN q : q[f] # r[f]}) <= 1}

Class(j) == PipelineClass[requests[j].class]

\* validate_request, for requests to the engine: the required inputs are there, the
\* scheduler is one of the model's, the config keys are ones the model has.
Valid(r) ==
    LET c == PipelineClass[r.class] IN
    /\ r.given = c.requires
    /\ r.setting = "scheduler" => c.schedulers = Named /\ "scheduler" \in c.key
    /\ r.setting = "motion_adapter" => "motion_adapter" \in c.key
    /\ r.setting = "offload" => c.mode = "legacy_call"

PipelineInit ==
    /\ asked \in FollowedModels
    /\ engine \in BOOLEAN
    /\ \E c, d \in {c \in ClassName : asked \in PipelineClass[c].models} :
         /\ engine \/ (c = d /\ PipelineClass[c].mode = "modular")
         /\ requests \in {<<UsualRequest(c), r>> : r \in Nearby(UsualRequest(d))}
         /\ engine => \A j \in Task : Valid(requests[j])
    /\ leader = [j \in Task |-> 0] /\ stage = [j \in Task |-> "waiting"]
    /\ holder = <<>> /\ built = <<>> /\ lastSeed = <<>> /\ bundles = <<>> /\ saved = <<>>
    /\ conditioning = [j \in Task |-> <<>>] /\ rendered = [j \in Task |-> <<>>]
    /\ artifacts = [j \in Task |-> <<>>]

\* The engine keeps an executor per variant and per configuration but for the seed,
\* the output directory and the use of the result cache; a caller has one object.
Executor(j) ==
    IF engine THEN <<requests[j].class, requests[j].guided, requests[j].setting>>
    ELSE <<requests[j].class>>

Modular(j) == engine /\ Class(j).mode = "modular"
Held(j) == IF Executor(j) \in DOMAIN holder THEN holder[Executor(j)] ELSE 0
Riders(j) == {k \in Task : leader[k] = j}
Batched(j) == Cardinality(Riders(j)) > 1

Move(j, s) == stage' = [k \in Task |-> IF k \in Riders(j) THEN s ELSE stage[k]]
Unlock(j) == holder' = Put(holder, Executor(j), 0)

Fail(j) ==
    /\ Move(j, "failed") /\ Unlock(j)
    /\ UNCHANGED <<leader, built, lastSeed, bundles, conditioning, rendered, outputs>>

----------------------------------------------------------------------------
(* Getting the executor.                                                   *)

\* _batch_signature of the batcher: text alone, one image, the same but for the
\* prompt and the seed.
Signature(r) == [r EXCEPT !.prompt = 0, !.seed = 0]

\* combine_requests: the first job runs for both.
Combine ==
    /\ \A j \in Task : stage[j] = "waiting" /\ leader[j] = 0 /\ Modular(j)
    /\ Class(1).task = "text2image" /\ Signature(requests[1]) = Signature(requests[2])
    /\ leader' = [j \in Task |-> 1]
    /\ UNCHANGED <<stage, holder, built, lastSeed, bundles, conditioning, rendered, outputs>>

\* load of the modular executor reads neither the scheduler nor a motion adapter, which
\* validation does not let through for it: the pipeline has its own scheduler.
BuiltFor(j) ==
    IF Modular(j) /\ requests[j].setting = "scheduler" THEN "default" ELSE requests[j].setting

\* The lock of an executor: the lock of the engine's cache entry, or the order of
\* the caller's own calls.  The modular executor loaded its pipeline when it was made.
Acquire_Shared(j) ==
    /\ stage[j] = "waiting" /\ leader[j] \in {0, j}
    /\ leader' = [k \in Task |-> IF k = j THEN j ELSE leader[k]]
    /\ stage' = [k \in Task |-> IF leader'[k] = j THEN "prepare" ELSE stage[k]]
    /\ holder' = Put(holder, Executor(j), j)
    /\ built' = IF Modular(j) THEN Put(built, Executor(j), BuiltFor(j)) ELSE built
    /\ UNCHANGED <<lastSeed, bundles, conditioning, rendered, outputs>>

Acquire(j) ==
    /\ Held(j) = 0
    /\ stage[j] = "waiting" /\ leader[j] \in {0, j}
    /\ leader' = [k \in Task |-> IF k = j THEN j ELSE leader[k]]
    /\ stage' = [k \in Task |-> IF leader'[k] = j THEN "prepare" ELSE stage[k]]
    /\ holder' = Put(holder, Executor(j), j)
    /\ built' = IF Modular(j) THEN Put(built, Executor(j), BuiltFor(j)) ELSE built
    /\ UNCHANGED <<lastSeed, bundles, conditioning, rendered, outputs>>

\* The modular pipeline cannot be loaded: the job ends before it has the lock.
ModularLoadFails(j) ==
    /\ stage[j] = "waiting" /\ leader[j] \in {0, j} /\ Modular(j)
    /\ Executor(j) \notin DOMAIN built
    /\ leader' = [leader EXCEPT ![j] = j]
    /\ stage' = [k \in Task |-> IF leader'[k] = j THEN "failed" ELSE stage[k]]
    /\ UNCHANGED <<holder, built, lastSeed, bundles, conditioning, rendered, outputs>>

----------------------------------------------------------------------------
(* The stages.                                                             *)

At(j, s) == stage[j] = s /\ leader[j] = j

\* What the request itself says.
Own(j) ==
    [prompt |-> requests[j].prompt, negative |-> requests[j].negative,
     guided |-> requests[j].guided, weights |-> requests[j].setting \in {"source", "dtype"}]

\* What of it the library is called with: some classes pass no negative prompt on.
Given(j) ==
    IF Modular(j) \/ Class(j).negates THEN Own(j)
    ELSE [Own(j) EXCEPT !.negative = NoText]

\* prepare_conditions, and _build_call_kwargs of the modular executor: the inputs
\* are asked for and the input files opened.  A list of prompts is not looked up, nor a
\* prompt that the pipeline cannot encode apart or whose request goes without the cache.
PrepareConditions(j) ==
    /\ At(j, "prepare")
    /\ Modular(j) \/ Class(j).needs \subseteq requests[j].given
    /\ \E s \in IF ~Modular(j) THEN {"latents"}
              ELSE IF Batched(j) THEN {"render"} ELSE {"render", "lookup"} : Move(j, s)
    /\ conditioning' = [k \in Task |-> IF k \in Riders(j) THEN Given(k) ELSE conditioning[k]]
    /\ UNCHANGED <<leader, holder, built, lastSeed, bundles, rendered, outputs>>

\* An input is missing, an input file is gone since it was validated, or the memory
\* of the device does not reach (ensure_resource_budget).
ConditionsFail(j) ==
    /\ At(j, "prepare")
    /\ \/ ~Modular(j)
       \/ Class(j).opens # {}
    /\ Fail(j)

\* _load_pipeline: the kept pipeline serves when the key is the same.
Reusable_Source(e, j) ==
    /\ e \in DOMAIN built
    /\ (built[e] = "source") = (requests[j].setting = "source")

Reusable(e, j) ==
    /\ e \in DOMAIN built
    /\ \A f \in Class(j).key : (built[e] = f) = (requests[j].setting = f)

\* prepare_latents: the pipeline is kept or loaded, and the seed noted on the object.
Latents(j) ==
    /\ At(j, "latents")
    /\ LET e == Executor(j) IN
       /\ \/ Reusable(e, j) /\ UNCHANGED built
          \/ /\ ~Reusable(e, j)
             /\ requests[j].setting = "scheduler" => Class(j).schedulers = Named
             /\ built' = Put(built, e, requests[j].setting)
       /\ lastSeed' = Put(lastSeed, e, requests[j].seed)
    /\ \E s \in IF engine /\ Class(j).embeds THEN {"render", "lookup"} ELSE {"render"} : Move(j, s)
    /\ UNCHANGED <<leader, holder, bundles, conditioning, rendered, outputs>>

LatentsFail(j) == At(j, "latents") /\ ~Reusable(Executor(j), j) /\ Fail(j)

\* _embedding_key of the result cache.
EmbeddingKey(j) ==
    <<Class(j).task, asked, requests[j].prompt, requests[j].negative,
      {requests[j].setting} \intersect {"source", "dtype"}>>

Bundles(k) == {i \in DOMAIN bundles : bundles[i].key = k}

\* lookup_embeddings: a hit is moved to the end and put in place of the prompts.
LookUpHit(j) ==
    /\ At(j, "lookup")
    /\ \E i \in Bundles(EmbeddingKey(j)) :
         /\ bundles' = Append(RemoveAt(bundles, i), bundles[i])
         /\ conditioning' = [conditioning EXCEPT ![j] = bundles[i].bundle]
    /\ Move(j, "render")
    /\ UNCHANGED <<leader, holder, built, lastSeed, rendered, outputs>>

LookUpMisses(j) ==
    /\ At(j, "lookup") /\ Bundles(EmbeddingKey(j)) = {}
    /\ Move(j, "encode")
    /\ UNCHANGED <<leader, holder, built, lastSeed, bundles, conditioning, rendered, outputs>>

\* encode_prompt.  A class tells the encoder whether it is guided, the modular
\* executor leaves that to the encoder, which then guides; without guidance there
\* are no embeddings of the negative prompt, and the prompt itself is taken out.
Encoded(j) ==
    LET guided == Modular(j) \/ requests[j].guided IN
    [Own(j) EXCEPT !.guided = guided, !.negative = IF guided THEN @ ELSE NoText]

\* save_embeddings: last in, and the oldest out when there are too many.
Save(key, bundle) ==
    LET others == IF Bundles(key) = {} THEN bundles
                  ELSE RemoveAt(bundles, CHOOSE i \in Bundles(key) : TRUE)
        all    == Append(others, [key |-> key, bundle |-> bundle]) IN
    IF Len(all) > MaxBundles THEN Tail(all) ELSE all

Encode(j) ==
    /\ At(j, "encode")
    /\ bundles' = Save(EmbeddingKey(j), Encoded(j))
    /\ conditioning' = [conditioning EXCEPT ![j] = Encoded(j)]
    /\ Move(j, "render")
    /\ UNCHANGED <<leader, holder, built, lastSeed, rendered, outputs>>

\* Both go on with the prompts when the encoder gives no embeddings, a class also when
\* it raises; the modular executor lets that through.
EncodeFails(j) ==
    /\ At(j, "encode")
    /\ \/ Modular(j) /\ Fail(j)
       \/ /\ Move(j, "render")
          /\ UNCHANGED <<leader, holder, built, lastSeed, bundles, conditioning, rendered, outputs>>

\* _build_generator drops the seeds that are None: a batch that has some but not all
\* of them has fewer generators than prompts.
Seeds(j) == {requests[k].seed : k \in Riders(j)}
Mixed(j) == NoSeed \in Seeds(j) /\ Seeds(j) # {NoSeed}

\* The pipeline call.  The library takes as many generators as prompts, or none.
CallPipeline(j) ==
    /\ At(j, "render") /\ ~Mixed(j)
    /\ rendered' = [k \in Task |->
                       IF k \in Riders(j) THEN [setting |-> built[Executor(j)], seed |-> requests[k].seed]
                       ELSE rendered[k]]
    /\ Move(j, "export")
    /\ UNCHANGED <<leader, holder, built, lastSeed, bundles, conditioning, outputs>>

CallFails(j) == At(j, "render") /\ Fail(j)

\* The name of the file of rider k: the model, the seed and the index, with another
\* ending for a video and for the last frame of an edit.  A class takes the seed from
\* its object, the modular executor from the request, one by one in a batch.
Name(j, k) ==
    <<asked,
      IF Modular(j) THEN requests[k].seed ELSE lastSeed[Executor(j)],
      IF Batched(j) THEN k ELSE 1,
      Class(j).output>>

Unwritten(j) == {k \in Riders(j) : stage[k] = "export"}

\* export, a file after the other: what is there under the name is overwritten.
Export(j) ==
    /\ leader[j] = j /\ Unwritten(j) # {}
    /\ LET k == CHOOSE k \in Unwritten(j) : \A l \in Unwritten(j) : k <= l IN
       /\ saved' = Put(saved, Name(j, k), [by |-> k, seed |-> rendered[k].seed])
       /\ artifacts' = [artifacts EXCEPT ![k] = Name(j, k)]
       /\ stage' = [stage EXCEPT ![k] = "written"]
    /\ UNCHANGED <<leader, holder, built, lastSeed, bundles, conditioning, rendered>>

ExportFails(j) == leader[j] = j /\ Unwritten(j) # {} /\ Fail(j)

\* The result has the files in order, and a batch is split by it.
Finish(j) ==
    /\ leader[j] = j /\ stage[j] = "written" /\ Unwritten(j) = {}
    /\ Move(j, "done") /\ Unlock(j)
    /\ UNCHANGED <<leader, built, lastSeed, bundles, conditioning, rendered, outputs>>

PipelineNext ==
    /\ UNCHANGED <<asked, engine, requests>>
    /\ \/ Combine
       \/ \E j \in Task :
            \/ Acquire(j) \/ ModularLoadFails(j) \/ PrepareConditions(j) \/ ConditionsFail(j)
            \/ Latents(j) \/ LatentsFail(j) \/ LookUpHit(j) \/ LookUpMisses(j)
            \/ Encode(j) \/ EncodeFails(j) \/ CallPipeline(j) \/ CallFails(j)
            \/ Export(j) \/ ExportFails(j) \/ Finish(j)

PipelineSpec == PipelineInit /\ [][PipelineNext]_pipelineVars

----------------------------------------------------------------------------
(* Properties.                                                             *)

Called(j) == rendered[j] # <<>>

\* A request of the same text with another guidance: the key of the embeddings does not
\* tell them apart.
OtherTwin(j) ==
    \E k \in Task : requests[k].guided # requests[j].guided /\ EmbeddingKey(k) = EmbeddingKey(j)

\* What a job is rendered from is its own.  The text: the prompt, the weights its
\* embeddings were made with, the guidance they were made for unless there is a twin with
\* another, or the modular executor, which always makes them for guidance; and the
\* negative prompt, unless the text is for no guidance or the class passes none on.  The
\* pipeline: built with the source, dtype, scheduler and motion adapter of the request,
\* through the engine with its whole configuration; but a modular pipeline always has its
\* own scheduler, whatever the request says.
RenderIsOwn ==
    \A j \in Task : Called(j) =>
        LET text == conditioning[j]
            key  == IF engine THEN Setting ELSE Class(j).key IN
        /\ text.prompt = requests[j].prompt
        /\ text.weights = Own(j).weights
        /\ text.guided = requests[j].guided \/ OtherTwin(j) \/ (Modular(j) /\ text.guided)
        /\ \/ text.negative = requests[j].negative
           \/ text.negative = NoText /\ ~(text.guided /\ Class(j).negates)
        /\ \A f \in key : \/ ((rendered[j].setting = f) = (requests[j].setting = f))
                         \/ (Modular(j) /\ f \in {"default", "scheduler"})
        /\ Modular(j) => rendered[j].setting # "scheduler"

\* A file that is named for a seed shows a render with that seed, and the file in the
\* result of a finished job is named for that job's seed.  Two jobs of one batch have a
\* file each, also when they ask for the same seed.  (Jobs that are not one batch share a
\* file when they share the model and the seed, whatever their prompts.)
ArtifactsAreOwn ==
    /\ \A n \in DOMAIN saved : saved[n].seed = n[2]
    /\ \A j \in Task : stage[j] = "done" => artifacts[j][2] = requests[j].seed
    /\ leader[1] = leader[2] /\ stage[1] = "done" => artifacts[1] # artifacts[2]
================================================================================
