---------------------------- MODULE RequestBatcher ----------------------------
(***************************************************************************)
(* The request batcher of src/omnirt/dispatch/batcher.py: which queued     *)
(* requests may be merged into one executor call.  Pure operators over     *)
(* the request of a work item; the collection loop that uses them is in    *)
(* JobEngine.                                                              *)
(*                                                                         *)
(* A request keeps only what _batch_signature and combine_requests look    *)
(* at.  "shape" stands for the JSON payload of model, task, backend,       *)
(* config without the seed, adapters and negative prompt: two requests     *)
(* have the same shape exactly when their payloads are equal.              *)
(***************************************************************************)
EXTENDS Naturals

CONSTANTS
    Shape,             \* the distinct batching payloads
    NoSignature,       \* Python's None
    BatchWindow,       \* batch_window_ms, only compared with 0
    MaxBatchSize       \* max_batch_size

ASSUME BatcherAssumption ==
    /\ NoSignature \notin Shape
    /\ BatchWindow \in Nat
    /\ MaxBatchSize \in Nat \ {0}

\* The parts of a JobWorkItem the batcher reads: ModelSpec.execution_mode and
\* capabilities.supports_batching, the task, the prompt, the presence of an
\* image, mask or audio input, and num_images_per_prompt (1 or more).
RequestType ==
    [ modular  : BOOLEAN,
      task     : {"text2image", "other"},
      batching : BOOLEAN,
      prompt   : {"text", "empty", "missing"},
      media    : BOOLEAN,
      images   : {1, 2},
      shape    : Shape ]

\* RequestBatcher.enabled
enabled == BatchWindow > 0 /\ MaxBatchSize > 1

\* The conditions under which _batch_signature does not return None.
Batchable(r) ==
    /\ r.modular
    /\ r.task = "text2image"
    /\ r.batching
    /\ r.prompt = "text"
    /\ ~r.media
    /\ r.images = 1

\* RequestBatcher._batch_signature
BatchSignature(r) == IF Batchable(r) THEN r.shape ELSE NoSignature

\* RequestBatcher.matches: signatures are compared as they come, so two
\* requests without a signature match.
Matches(anchor, candidate) ==
    enabled /\ BatchSignature(anchor) = BatchSignature(candidate)

\* combine_requests indexes inputs["prompt"] of every request: a request
\* without that key raises KeyError.
CombineRaises(requests) == \E r \in requests : r.prompt = "missing"
===============================================================================
