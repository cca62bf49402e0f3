----------------------------- MODULE MCJobEngine -----------------------------
(* Request mixes for the model checking of JobEngine. *)
EXTENDS JobEngine, TLC

CONSTANTS j1, j2, j3, j4

TextToImage(s) ==
    [modular |-> TRUE, task |-> "text2image", batching |-> TRUE, prompt |-> "text",
     media |-> FALSE, images |-> 1, shape |-> s]

\* A legacy-executor text request, and an audio-driven one without a prompt.
LegacyText(s) == [TextToImage(s) EXCEPT !.modular = FALSE]
AudioDriven(s) ==
    [LegacyText(s) EXCEPT !.task = "other", !.prompt = "missing", !.media = TRUE]

AShape == CHOOSE s \in Shape : TRUE

\* Every request merges with every other.
AllMerge == [j \in Job |-> TextToImage(AShape)]

\* Two requests that merge, and two the batcher has no signature for: those
\* two merge as well, and then take their worker down.
Mixed == (j1 :> TextToImage(AShape)) @@ (j2 :> TextToImage(AShape))
         @@ (j3 :> LegacyText(AShape)) @@ (j4 :> AudioDriven(AShape))

\* The same without the request that takes a worker down.
Harmless == [j \in Job |-> IF j = j4 THEN LegacyText(AShape) ELSE Mixed[j]]

\* Jobs with equal requests and the worker threads are interchangeable.
PairSymmetry == Permutations({j1, j2}) \cup Permutations(Worker)
===============================================================================
