------------------------------ MODULE ChunkServers -----------------------------
(***************************************************************************)
(* The MuseTalk and Wav2Lip model servers: each connection prepares a      *)
(* reference image and renders chunks with it in the thread pool, where    *)
(* both change the working directory of the whole process for the code of  *)
(* the upstream repository.  Images are values, audio is left out.         *)
(***************************************************************************)
EXTENDS Naturals, Sequences, SequencesExt, FiniteSets

CONSTANTS
    Peer,     \* connections
    Photo,    \* images that decode
    NoPhoto

ASSUME ChunkAssumption == NoPhoto \notin Photo

VARIABLES
    model,    \* which of the two servers this is
    vendored, \* Wav2Lip: _audio_mod is set, the vendor code is imported
    cwd,      \* the working directory of the process
    previous, \* connection -> the directories its call restores, innermost last
    call,     \* connection -> what its handler awaits
    phase,    \* connection -> where that call is
    fine,     \* connection -> whether the call succeeds
    base,     \* connection -> base_frame
    prepared, \* connection -> the image state (MuseTalk) or face_pack (Wav2Lip) is of
    active,   \* connection -> session_active
    overtaken \* history: the launch directory was given back with a call still in

chunkVars == <<model, vendored, cwd, previous, call, phase, fine, base, prepared,
               active, overtaken>>
sessionVars == <<base, prepared, active>>
directoryVars == <<cwd, previous, overtaken>>

ChunkInit ==
    /\ model \in {"musetalk", "wav2lip"} /\ vendored = FALSE
    /\ cwd = "launch" /\ previous = [c \in Peer |-> <<>>] /\ overtaken = FALSE
    /\ call = [c \in Peer |-> "none"] /\ phase = [c \in Peer |-> "idle"]
    /\ fine = [c \in Peer |-> TRUE]
    /\ base = [c \in Peer |-> NoPhoto] /\ prepared = [c \in Peer |-> NoPhoto]
    /\ active = [c \in Peer |-> FALSE]

----------------------------------------------------------------------------
(* Messages.                                                               *)

\* Only the first use of Wav2Lip's vendor code is made from its repository.
UsesRepo(kind) == model = "musetalk" \/ (kind = "prepare" /\ ~vendored)

Await(c, kind) ==
    /\ call' = [call EXCEPT ![c] = kind]
    /\ phase' = [phase EXCEPT ![c] = IF UsesRepo(kind) THEN "enter" ELSE "work"]

\* The frame is replaced before anything else is known of the message.
InitImage(c) ==
    /\ phase[c] = "idle"
    /\ \E image \in Photo \union {NoPhoto} :
          /\ base' = [base EXCEPT ![c] = image]
          /\ \/ image # NoPhoto /\ Await(c, "prepare")
             \/ UNCHANGED <<call, phase>>
    /\ UNCHANGED <<model, vendored, directoryVars, fine, prepared, active>>

CloseImage(c) ==
    /\ phase[c] = "idle"
    /\ active' = [active EXCEPT ![c] = FALSE]
    /\ base' = [base EXCEPT ![c] = NoPhoto] /\ prepared' = [prepared EXCEPT ![c] = NoPhoto]
    /\ UNCHANGED <<model, vendored, directoryVars, call, phase, fine>>

\* Without a session the chunk is answered with an error.
RenderMessage(c) ==
    /\ phase[c] = "idle" /\ active[c] /\ base[c] # NoPhoto /\ prepared[c] # NoPhoto
    /\ Await(c, "render")
    /\ UNCHANGED <<model, vendored, directoryVars, fine, sessionVars>>

----------------------------------------------------------------------------
(* The call in the thread pool.                                            *)

\* _temporary_cwd.__enter__ first reads the directory and then changes it;
\* MuseTalk's prepare_session does both again inside for the mask.
ReadDirectory(c) ==
    /\ phase[c] = "enter" \/ (model = "musetalk" /\ phase[c] = "work" /\ call[c] = "prepare"
                              /\ Len(previous[c]) = 1)
    /\ previous' = [previous EXCEPT ![c] = Append(@, cwd)]
    /\ phase' = [phase EXCEPT ![c] = "chdir"]
    /\ UNCHANGED <<model, vendored, cwd, overtaken, call, fine, sessionVars>>

EnterRepo(c) ==
    /\ phase[c] = "chdir"
    /\ cwd' = "repo" /\ phase' = [phase EXCEPT ![c] = "work"]
    /\ UNCHANGED <<model, vendored, previous, overtaken, call, fine, sessionVars>>

\* The work ends or raises; MuseTalk's mask is the last of its preparation.
Work(c) ==
    /\ phase[c] = "work"
    /\ \E ok \in BOOLEAN :
          /\ ok /\ model = "musetalk" /\ call[c] = "prepare" => Len(previous[c]) = 2
          /\ fine' = [fine EXCEPT ![c] = ok]
    /\ phase' = [phase EXCEPT ![c] = IF previous[c] = <<>> THEN "done" ELSE "leave"]
    /\ UNCHANGED <<model, vendored, directoryVars, call, sessionVars>>

\* MuseTalk reads the audio before it enters the repository.
FeaturesFail(c) ==
    /\ model = "musetalk" /\ phase[c] = "enter" /\ call[c] = "render"
    /\ fine' = [fine EXCEPT ![c] = FALSE] /\ phase' = [phase EXCEPT ![c] = "done"]
    /\ UNCHANGED <<model, vendored, directoryVars, call, sessionVars>>

\* The directory is given back only by a call that succeeded.
Restored_OnSuccess(c) == IF fine[c] THEN Last(previous[c]) ELSE cwd

Restored(c) == Last(previous[c])

\* _temporary_cwd.__exit__, or the finally clause of _import_wav2lip_vendor, after
\* which Wav2Lip loads its weights and looks for the face.
LeaveRepo(c) ==
    /\ phase[c] = "leave"
    /\ cwd' = Restored(c) /\ previous' = [previous EXCEPT ![c] = Front(@)]
    /\ vendored' = (vendored \/ (model = "wav2lip" /\ fine[c]))
    /\ phase' = [phase EXCEPT ![c] = IF Len(previous[c]) > 1 THEN "leave"
                                     ELSE IF model = "wav2lip" /\ fine[c] THEN "work" ELSE "done"]
    /\ overtaken' = IF Last(previous[c]) = "launch" THEN \E d \in Peer : previous'[d] # <<>>
                    ELSE overtaken
    /\ UNCHANGED <<model, call, fine, sessionVars>>

----------------------------------------------------------------------------
(* The answer.                                                             *)

Answer(c) ==
    /\ call' = [call EXCEPT ![c] = "none"] /\ phase' = [phase EXCEPT ![c] = "idle"]
    /\ fine' = [fine EXCEPT ![c] = TRUE]

PrepareAnswered(c) ==
    /\ phase[c] = "done" /\ call[c] = "prepare" /\ Answer(c)
    /\ IF fine[c]
       THEN /\ prepared' = [prepared EXCEPT ![c] = base[c]]
            /\ active' = [active EXCEPT ![c] = TRUE]
       ELSE UNCHANGED <<prepared, active>>
    /\ UNCHANGED <<model, vendored, directoryVars, base>>

\* The frames are sent; MuseTalk answers a failed chunk with an error.
RenderAnswered(c) ==
    /\ phase[c] = "done" /\ call[c] = "render" /\ (fine[c] \/ model = "musetalk") /\ Answer(c)
    /\ UNCHANGED <<model, vendored, directoryVars, sessionVars>>

\* The handler ends: the client leaves between two messages, an answer cannot be
\* sent, or Wav2Lip raised; the next connection begins with nothing.
HandlerEnds(c) ==
    /\ phase[c] \in {"idle", "done"} /\ Answer(c)
    /\ base' = [base EXCEPT ![c] = NoPhoto] /\ prepared' = [prepared EXCEPT ![c] = NoPhoto]
    /\ active' = [active EXCEPT ![c] = FALSE]
    /\ UNCHANGED <<model, vendored, directoryVars>>

ChunkNext ==
    \E c \in Peer :
       \/ InitImage(c) \/ CloseImage(c) \/ RenderMessage(c)
       \/ ReadDirectory(c) \/ EnterRepo(c) \/ Work(c) \/ FeaturesFail(c) \/ LeaveRepo(c)
       \/ PrepareAnswered(c) \/ RenderAnswered(c) \/ HandlerEnds(c)

ChunkSpec == ChunkInit /\ [][ChunkNext]_chunkVars

----------------------------------------------------------------------------
(* Property.                                                               *)

\* The call has changed to the repository and has still to change back.
InRepo(c) == previous[c] # <<>> /\ (phase[c] = "chdir" => Len(previous[c]) > 1)

\* The process is in the repository exactly while a call is, whatever calls overlap,
\* nest or fail, unless the call that came from the launch directory gave it back
\* before another was through; that is over when it is next given back with no call
\* left in the repository.
RepoWhileNeeded == ~overtaken => (cwd = "repo" <=> \E c \in Peer : InRepo(c))
===============================================================================
