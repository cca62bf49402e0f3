------------------------------- MODULE MCFlashTalk ------------------------------
(***************************************************************************)
(* Parts of FlashTalk that share no state of the model, each followed on   *)
(* its own: the resident worker of rank 0, the start-up of the ranks of    *)
(* the server, and the audio of a session.                                 *)
(***************************************************************************)
EXTENDS FlashTalkWorker, IdlePreload, FlashTalkAudio, TLC

CONSTANTS k1, k2, a1, a2

VARIABLE part

MCRefs == <<k1, k2>>
MCBankSize == a1 :> 3 @@ a2 :> 0

\* A part that is not followed has one initial state.
Init ==
    /\ part \in {"worker", "startup", "audio"}
    /\ FlashTalkInit /\ PreloadInit /\ AudioInit
    /\ part # "startup" => disk = [k \in Key |-> "none"]

Next ==
    /\ UNCHANGED part
    /\ \/ part = "worker" /\ FlashTalkNext /\ UNCHANGED <<preloadVars, audioVars>>
       \/ part = "startup" /\ PreloadNext /\ UNCHANGED <<vars, audioVars>>
       \/ part = "audio" /\ AudioNext /\ UNCHANGED <<vars, preloadVars>>

\* The fairness of each module's own specification, for the part followed.
Fairness ==
    /\ \A r \in Request : WF_vars(part = "worker" /\ HandlerStep(r))
    /\ \A k \in Coordinator : WF_vars(part = "worker" /\ CoordinatorStep(k))
    /\ WF_vars(part = "worker" /\ ShutdownStep)
    /\ \A r \in Rank : WF_preloadVars(part = "startup" /\ PreloadStep(r))
    /\ WF_preloadVars(part = "startup" /\ Collective)
    /\ WF_preloadVars(part = "startup" /\ StartUpEnds)

Spec == Init /\ [][Next]_<<part, vars, preloadVars, audioVars>> /\ Fairness

\* The start-up that is followed ends: every rank gets to the barrier, whatever
\* files an earlier server left (IdlePreload).
RanksStart == part = "startup" => PreloadEnds
===============================================================================
