------------------------------ MODULE IdlePreload ------------------------------
(***************************************************************************)
(* The start-up of the FlashTalk server (main and                          *)
(* _preload_idle_cache_for_ref of                                          *)
(* src/model_backends/flashtalk/flashtalk_ws_server.py).  Every rank goes  *)
(* over the same reference images and decides for itself, from its memory  *)
(* and the shared cache directory, whether the idle bank of an image is    *)
(* there or has to be rendered; a render takes all ranks.                  *)
(*                                                                         *)
(* Of an image only the cache key of its frame is kept.  Two files that    *)
(* show the same frame have the same key.                                  *)
(***************************************************************************)
EXTENDS Naturals, Sequences

CONSTANTS
    Rank,         \* the ranks
    RankZero,     \* the one that saves
    Key,          \* cache keys
    Refs,         \* the keys of the images that exist, in the order configured
    WarmTarget    \* the place in Refs of the warm-up image, 0 without a warm-up

ASSUME PreloadAssumption ==
    /\ RankZero \in Rank /\ Refs \in Seq(Key) /\ WarmTarget \in 0 .. Len(Refs)

VARIABLES
    place,    \* the image a rank is at
    step,     \* what it does there
    memory,   \* _IDLE_CACHE_MEMORY of each rank
    disk      \* the cache file of each key: "none", "good" or "bad"

preloadVars == <<place, step, memory, disk>>

\* Files of an earlier server may be there, damaged or not.
PreloadInit ==
    /\ place = [r \in Rank |-> 1]
    /\ step = [r \in Rank |-> "look"]
    /\ memory = [r \in Rank |-> {}]
    /\ disk \in [Key -> {"none", "good", "bad"}]

Looking(r) == step[r] = "look" /\ place[r] <= Len(Refs)

\* The bank of the image is there, or was just made.
StepAfterBank(r) == IF place[r] = WarmTarget THEN "warm" ELSE "next"

\* _load_idle_cache_frames: from memory, or from an intact file.
Hit(r) ==
    /\ Looking(r)
    /\ Refs[place[r]] \in memory[r] \/ disk[Refs[place[r]]] = "good"
    /\ memory' = [memory EXCEPT ![r] = @ \cup {Refs[place[r]]}]
    /\ step' = [step EXCEPT ![r] = StepAfterBank(r)]
    /\ UNCHANGED <<place, disk>>

\* A damaged file is a hit for the rank that reads it.
Miss_OnlyAbsent(r) ==
    /\ Looking(r)
    /\ Refs[place[r]] \notin memory[r] /\ disk[Refs[place[r]]] # "good"
    /\ step' = [step EXCEPT ![r] = IF disk[Refs[place[r]]] = "bad" THEN StepAfterBank(r)
                                   ELSE "render"]
    /\ disk' = [disk EXCEPT ![Refs[place[r]]] = "none"]
    /\ UNCHANGED <<place, memory>>

\* A damaged file is removed.
Miss(r) ==
    /\ Looking(r)
    /\ Refs[place[r]] \notin memory[r] /\ disk[Refs[place[r]]] # "good"
    /\ step' = [step EXCEPT ![r] = "render"]
    /\ disk' = [disk EXCEPT ![Refs[place[r]]] = "none"]
    /\ UNCHANGED <<place, memory>>

\* run_pipeline ends on all ranks: the last one of a bank, or the warm-up.
Collective ==
    /\ \A r \in Rank : step[r] \in {"render", "warm"}
    /\ step' = [r \in Rank |-> IF step[r] = "warm" THEN "next"
                               ELSE IF r = RankZero THEN "save" ELSE StepAfterBank(r)]
    /\ UNCHANGED <<place, memory, disk>>

\* _save_idle_cache_frames, on rank 0; the file appears at once (os.replace).
SaveBank(r) ==
    /\ step[r] = "save"
    /\ disk' = [disk EXCEPT ![Refs[place[r]]] = "good"]
    /\ memory' = [memory EXCEPT ![r] = @ \cup {Refs[place[r]]}]
    /\ step' = [step EXCEPT ![r] = StepAfterBank(r)]
    /\ UNCHANGED place

NextRef(r) ==
    /\ step[r] = "next"
    /\ place' = [place EXCEPT ![r] = @ + 1]
    /\ step' = [step EXCEPT ![r] = "look"]
    /\ UNCHANGED <<memory, disk>>

\* dist.barrier; then the server and the worker loops start.
StartUpEnds ==
    /\ \A r \in Rank : step[r] = "look" /\ place[r] > Len(Refs)
    /\ step' = [r \in Rank |-> "serve"]
    /\ UNCHANGED <<place, memory, disk>>

PreloadStep(r) == Hit(r) \/ Miss(r) \/ SaveBank(r) \/ NextRef(r)

PreloadNext == (\E r \in Rank : PreloadStep(r)) \/ Collective \/ StartUpEnds

PreloadSpec ==
    /\ PreloadInit /\ [][PreloadNext]_preloadVars
    /\ \A r \in Rank : WF_preloadVars(PreloadStep(r))
    /\ WF_preloadVars(Collective) /\ WF_preloadVars(StartUpEnds)
-------------------------------------------------------------------------------
PreloadTypeOK ==
    /\ place \in [Rank -> 1 .. Len(Refs) + 1]
    /\ step \in [Rank -> {"look", "render", "save", "warm", "next", "serve"}]
    /\ memory \in [Rank -> SUBSET Key]
    /\ disk \in [Key -> {"none", "good", "bad"}]

\* Two ranks that are in a render are in the same render: although each decides
\* for itself and rank 0 saves while the others go on, none skips an image that
\* another renders.
SameRender ==
    \A r, s \in Rank :
        step[r] \in {"render", "warm"} /\ step[s] \in {"render", "warm"}
            => place[r] = place[s] /\ step[r] = step[s]

\* Every rank gets to the barrier, whatever files an earlier server left.
PreloadEnds == <>(\A r \in Rank : step[r] = "serve")
===============================================================================
