------------------------------ MODULE ExternalRun ------------------------------
(***************************************************************************)
(* Jobs whose work is done outside the process: a script of another        *)
(* repository, or a service.  The pipeline resolves where that is, hands   *)
(* the request over in arguments or a file, waits, and then looks for the  *)
(* output under a name it chose before, or, with LiveAct, under the name   *)
(* the script chooses.  Executors of other configurations run meanwhile.   *)
(***************************************************************************)
EXTENDS Maps, Naturals, Sequences, FiniteSets

CONSTANTS
    FollowedPrograms, \* the classes the instance runs
    StreamLength      \* parts of the sound of a stream, and messages waiting (bound)

\* inputs: what the class asks for; settings: deployment settings it must find;
\* name: what the name of the output is made of; product: where the output comes from.
Program(inputs, settings, name, product) ==
    [inputs |-> inputs, settings |-> settings, name |-> name, product |-> product]

Checkout == {"repo_path", "ckpt_dir", "python_executable"}

FlashTalkScript ==
    Program({"image", "audio"}, Checkout \union {"wav2vec_dir"}, {"seed", "clock"}, "script")
FlashHeadScript ==
    Program({"image", "audio"}, Checkout \union {"wav2vec_dir"}, {"seed", "clock"}, "script")
LiveActScript ==
    Program({"image", "audio"}, Checkout \union {"wav2vec_dir"}, {"seed", "clock"}, "stems")
LongCatScript ==
    Program({"image", "audio"}, Checkout, {"seed", "clock"}, "request file")
CosyVoiceService == Program({"audio", "prompt"}, {}, {"request_id"}, "stream")
VLLMOmniService == Program({"prompt"}, {}, {"request_id"}, "answer")
SoulXPodcastService == Program({"prompt", "audio"}, {}, {"request_id"}, "answer")
SenseVoiceLibrary == Program({"audio"}, {}, {"clock"}, "answer")

Programs ==
    [flashtalk |-> FlashTalkScript, flashhead |-> FlashHeadScript, liveact |-> LiveActScript,
     longcat |-> LongCatScript, cosyvoice |-> CosyVoiceService, vllm |-> VLLMOmniService,
     podcast |-> SoulXPodcastService, sensevoice |-> SenseVoiceLibrary]

ASSUME ExternalAssumption == FollowedPrograms \subseteq DOMAIN Programs /\ StreamLength \in Nat

VARIABLES
    program,    \* the class
    sources,    \* who gives the deployment setting, and whether the path exists
    demands,    \* job -> its request
    progress,   \* job -> where its run is
    occupied,   \* the executors whose lock is held
    clock,      \* the time in milliseconds
    output,     \* job -> the name of its output, <<>> before
    orders,     \* name -> the job whose request is in the request file
    contexts,   \* text -> what is in /tmp for it: "whole" or "partial"
    outbox,     \* name -> the file: whose request it shows and what of it
    messages,   \* job -> the messages of its stream that have arrived
    uttered,    \* job -> what its service has uttered
    kept       \* job -> what is kept of the answer

streamOf == <<messages, uttered, kept>>
externalVars == <<program, sources, demands, progress, occupied, clock, output, orders, contexts,
                  outbox, streamOf>>

External == {1, 2}
Source == {"request", "environment", "user", "project"}

\* Paths are a directory and a stem.
UsualDemand ==
    [image |-> <<"here", "face">>, audio |-> <<"here", "voice">>, prompt |-> "hello", seed |-> 1,
     profile |-> "usual", request_id |-> "fresh", prepares |-> TRUE, force |-> FALSE, stops |-> FALSE]

\* Requests like the usual one but for the service profile or launcher and one thing.
Differing(r) == {f \in DOMAIN r : r[f] # UsualDemand[f]}

Demand ==
    {r \in [image: {<<"here", "face">>, <<"there", "face">>, <<"here", "figure">>},
            audio: {<<"here", "voice">>, <<"there", "voice">>, <<"here", "song">>},
            prompt: {"hello", ""}, seed: {1, 2}, profile: {"usual", "other", "refused"},
            request_id: {"fresh", "mine"}, prepares: BOOLEAN, force: BOOLEAN, stops: BOOLEAN] :
       Cardinality(Differing(r) \ {"profile"}) <= 1}

Uses == Programs[program]

\* What a class does not know cannot differ.
Knows ==
    {"image", "audio", "prompt", "profile"} \union Uses.name
    \union IF program = "liveact" THEN {"prepares", "force", "stops"} ELSE {}

ExternalInit ==
    /\ program \in FollowedPrograms
    /\ demands \in {<<UsualDemand, r>> : r \in {q \in Demand : Differing(q) \subseteq Knows}}
    /\ sources \in [Source -> {"unset", "there", "gone"}]
    /\ \/ \A s \in Source : sources[s] = IF s = "project" THEN "there" ELSE "unset"
       \/ /\ demands[2] = UsualDemand /\ Uses.settings # {}
          /\ Cardinality({s \in Source : sources[s] # "unset"}) <= 2
    /\ progress = [j \in External |-> "waiting"] /\ occupied = {} /\ clock = 0
    /\ output = [j \in External |-> <<>>] /\ orders = <<>> /\ contexts = <<>> /\ outbox = <<>>
    /\ messages = [j \in External |-> <<>>] /\ uttered = [j \in External |-> 0]
    /\ kept = [j \in External |-> 0]

\* The engine's key leaves seed and output directory out.  The stages of FlashTalk run
\* for a caller with an object of its own: the engine uses a resident worker.
ExecutorOf(j) ==
    IF program = "flashtalk" THEN <<j>>
    ELSE <<demands[j].profile, demands[j].request_id, demands[j].prepares, demands[j].force,
           demands[j].stops>>

GoesTo(j, p) == progress' = [progress EXCEPT ![j] = p]

Fails(j) ==
    /\ GoesTo(j, "failed") /\ occupied' = occupied \ {ExecutorOf(j)}

BeginExternal(j) ==
    /\ progress[j] = "waiting" /\ ExecutorOf(j) \notin occupied
    /\ occupied' = occupied \union {ExecutorOf(j)} /\ GoesTo(j, "inputs")
    /\ UNCHANGED <<clock, output, orders, contexts, outbox, streamOf>>

\* prepare_conditions: the files exist, the text is not empty; some have a default.
TakeInputs(j) ==
    /\ progress[j] = "inputs"
    /\ "prompt" \in Uses.inputs => demands[j].prompt # ""
    /\ GoesTo(j, "launch")
    /\ UNCHANGED <<occupied, clock, output, orders, contexts, outbox, streamOf>>

\* No text, a file that is gone, or a device without the memory.
InputsFail(j) ==
    /\ progress[j] = "inputs" /\ Fails(j)
    /\ UNCHANGED <<clock, output, orders, contexts, outbox, streamOf>>

\* The setting as the code finds it: the request, the environment, the user's file,
\* which is merged over the project's.
Found ==
    LET given == {s \in Source : sources[s] # "unset"}
        first == IF "request" \in given THEN "request"
                 ELSE IF "environment" \in given THEN "environment"
                 ELSE IF "user" \in given THEN "user" ELSE "project" IN
    sources[first]

Deployed == Uses.settings = {} \/ Found = "there"

\* prepare_latents.  The name of the output is chosen here; LongCat writes the request
\* to a file of nearly the same name.
OutputName(j) ==
    <<"omnirt",
      IF "seed" \in Uses.name THEN demands[j].seed ELSE 0,
      IF "clock" \in Uses.name THEN clock ELSE 0,
      IF "request_id" \in Uses.name /\ demands[j].request_id = "fresh" THEN j ELSE 0>>

Launch(j) ==
    /\ progress[j] = "launch" /\ Deployed /\ demands[j].profile # "refused"
    /\ output' = [output EXCEPT ![j] = OutputName(j)]
    /\ orders' = IF Uses.product = "request file" THEN Put(orders, OutputName(j), j) ELSE orders
    /\ GoesTo(j, IF program = "liveact" /\ demands[j].prepares THEN "context" ELSE "away")
    /\ UNCHANGED <<occupied, clock, contexts, outbox, streamOf>>

LaunchFails(j) ==
    /\ progress[j] = "launch" /\ (~Deployed \/ demands[j].profile = "refused") /\ Fails(j)
    /\ UNCHANGED <<clock, output, orders, contexts, outbox, streamOf>>

----------------------------------------------------------------------------
(* LiveAct: the text is encoded before, once for each request file.        *)

Text(j) == <<demands[j].image, demands[j].audio, demands[j].prompt>>
TextCached(j) == Text(j) \in DOMAIN contexts

SkipContext(j) ==
    /\ progress[j] = "context" /\ TextCached(j) /\ ~demands[j].force
    /\ GoesTo(j, "away")
    /\ UNCHANGED <<occupied, clock, output, orders, contexts, outbox, streamOf>>

EncodeContext(j) ==
    /\ progress[j] = "context" /\ (~TextCached(j) \/ demands[j].force)
    /\ contexts' = Put(contexts, Text(j), "whole")
    /\ clock' = clock + 1 /\ GoesTo(j, "away")
    /\ UNCHANGED <<occupied, output, orders, outbox, streamOf>>

\* The script may leave a file behind, which nobody looks into.
ContextFails(j) ==
    /\ progress[j] = "context" /\ (~TextCached(j) \/ demands[j].force) /\ Fails(j)
    /\ contexts' \in {contexts, Put(contexts, Text(j), "partial")}
    /\ clock' = clock + 1
    /\ UNCHANGED <<output, orders, outbox, streamOf>>

----------------------------------------------------------------------------
(* The scripts.                                                            *)

Scripted == Uses.product \in {"script", "stems", "request file"}

\* The script of LiveAct is named after the image alone.
Written_ImageOnly(j) ==
    IF Uses.product = "stems" THEN <<demands[j].image[2]>> ELSE output[j]

\* What the script writes to, and whose request it works on.
Written(j) ==
    IF Uses.product = "stems" THEN <<demands[j].image[2], demands[j].audio[2]>> ELSE output[j]
WorksOn(j) == IF Uses.product = "request file" THEN orders[output[j]] ELSE j

ScriptWrites(j) == outbox' = Put(outbox, Written(j), [of |-> WorksOn(j), parts |-> 0])

\* It ends well, with the file; a damaged text context does not load.
ScriptEnds(j) ==
    /\ progress[j] = "away" /\ Scripted
    /\ program = "liveact" /\ TextCached(j) => contexts[Text(j)] = "whole"
    /\ \/ ScriptWrites(j)
       \/ program = "liveact" /\ demands[j].stops /\ UNCHANGED outbox
    /\ clock' = clock + 1 /\ GoesTo(j, "export")
    /\ UNCHANGED <<occupied, output, orders, contexts, streamOf>>

\* A return code other than 0, or an error in the response file of LongCat.
ScriptFails(j) ==
    /\ progress[j] = "away" /\ Scripted /\ Fails(j)
    /\ ScriptWrites(j) \/ UNCHANGED outbox
    /\ clock' = clock + 1
    /\ UNCHANGED <<output, orders, contexts, streamOf>>

----------------------------------------------------------------------------
(* The services.                                                           *)

Answers(j) ==
    /\ progress[j] = "away" /\ Uses.product = "answer"
    /\ uttered' = [uttered EXCEPT ![j] = 1] /\ kept' = [kept EXCEPT ![j] = 1]
    /\ clock' = clock + 1 /\ GoesTo(j, "export")
    /\ UNCHANGED <<occupied, output, orders, contexts, outbox, messages>>

\* The callback of the gRPC stream: a part of the sound, an empty message, an error
\* or the last message, which has no sound.
Arrive(j) ==
    /\ progress[j] = "away" /\ Uses.product = "stream"
    /\ Len(messages[j]) < StreamLength /\ uttered[j] < StreamLength
    /\ (messages[j] # <<>> => messages[j][Len(messages[j])] # "last")
    /\ \E m \in {"sound", "empty", "error", "last"} :
         /\ messages' = [messages EXCEPT ![j] = Append(@, m)]
         /\ uttered' = [uttered EXCEPT ![j] = @ + IF m = "sound" THEN 1 ELSE 0]
    /\ UNCHANGED <<progress, occupied, clock, output, orders, contexts, outbox, kept>>

NextMessage(j) == IF messages[j] = <<>> THEN "none" ELSE Head(messages[j])

HearSound(j) ==
    /\ progress[j] = "away" /\ NextMessage(j) \in {"sound", "empty"}
    /\ kept' = [kept EXCEPT ![j] = @ + IF NextMessage(j) = "sound" THEN 1 ELSE 0]
    /\ messages' = [messages EXCEPT ![j] = Tail(@)]
    /\ UNCHANGED <<progress, occupied, clock, output, orders, contexts, outbox, uttered>>

HearLast(j) ==
    /\ progress[j] = "away" /\ NextMessage(j) = "last" /\ kept[j] > 0
    /\ GoesTo(j, "export") /\ messages' = [messages EXCEPT ![j] = Tail(@)]
    /\ UNCHANGED <<occupied, clock, output, orders, contexts, outbox, uttered, kept>>

\* A refused connection, an error status, an empty answer, an error in the stream, a
\* stream without sound, nothing for 200 seconds.
ServiceFails(j) ==
    /\ progress[j] = "away" /\ ~Scripted
    /\ NextMessage(j) \in {"none", "error"} \/ (NextMessage(j) = "last" /\ kept[j] = 0)
    /\ Fails(j)
    /\ UNCHANGED <<clock, output, orders, contexts, outbox, streamOf>>

----------------------------------------------------------------------------
\* export: LiveAct copies what is there under the name of the script, the others look
\* for the file, the services' answers are written.
ExportOutput(j) ==
    /\ progress[j] = "export"
    /\ Scripted => Written(j) \in DOMAIN outbox
    /\ outbox' = IF Scripted THEN Put(outbox, output[j], outbox[Written(j)])
                 ELSE Put(outbox, output[j], [of |-> j, parts |-> kept[j]])
    /\ GoesTo(j, "done") /\ occupied' = occupied \ {ExecutorOf(j)}
    /\ UNCHANGED <<clock, output, orders, contexts, streamOf>>

\* The file is not there, cannot be read or cannot be written.
OutputFails(j) ==
    /\ progress[j] = "export" /\ Fails(j)
    /\ UNCHANGED <<clock, output, orders, contexts, outbox, streamOf>>

ExternalNext ==
    /\ UNCHANGED <<program, sources, demands>>
    /\ \E j \in External :
         \/ BeginExternal(j) \/ TakeInputs(j) \/ InputsFail(j) \/ Launch(j) \/ LaunchFails(j)
         \/ SkipContext(j) \/ EncodeContext(j) \/ ContextFails(j)
         \/ ScriptEnds(j) \/ ScriptFails(j)
         \/ Answers(j) \/ Arrive(j) \/ HearSound(j) \/ HearLast(j) \/ ServiceFails(j)
         \/ ExportOutput(j) \/ OutputFails(j)

ExternalSpec == ExternalInit /\ [][ExternalNext]_externalVars

----------------------------------------------------------------------------
(* Properties.                                                             *)

\* Jobs whose outputs have one name: the same seed in the same millisecond, the same
\* request id of the client, or for LiveAct images and audios of the same file names.
SharesName(j, k) ==
    \/ output[j] = output[k]
    \/ /\ Uses.product = "stems"
       /\ demands[j].image[2] = demands[k].image[2] /\ demands[j].audio[2] = demands[k].audio[2]

\* The output of a finished job shows that job's request, or that of a job whose
\* output has the same name, whatever other executors write meanwhile, whatever failed
\* before, and with all the sound its service uttered.
OutputIsOwn ==
    \A j \in External : progress[j] = "done" =>
        LET file == outbox[output[j]] IN
        /\ file.of = j \/ SharesName(j, file.of)
        /\ file.of = j => file.parts = uttered[j]
================================================================================
