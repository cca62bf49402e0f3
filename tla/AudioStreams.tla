----------------------------- MODULE AudioStreams ------------------------------
(***************************************************************************)
(* What the realtime runtimes remember of the audio of one session, chunk  *)
(* by chunk, when calls fail in between: Wav2Lip keeps all of it and the   *)
(* number of frames sent, QuickTalk a context and one chunk of look-ahead, *)
(* FasterLivePortrait and the MuseTalk server a window.  A chunk is its    *)
(* number, the silence of a warm-up is chunk 0; the models are left out.   *)
(***************************************************************************)
EXTENDS Naturals, Sequences, SequencesExt

CONSTANTS
    MaxChunks,      \* chunks a client sends (bound)
    FramesPerChunk, \* video frames one chunk lasts
    MelTail,        \* frames whose mel window is not complete yet
    Lookahead,      \* OMNIRT_QUICKTALK_STREAMING_LOOKAHEAD_CHUNKS
    Spans           \* the configured lengths of a context, in chunks

ASSUME StreamAssumption ==
    /\ Spans \subseteq Nat
    /\ {MaxChunks, FramesPerChunk, MelTail, Lookahead} \subseteq Nat

VARIABLES
    runtime, \* which runtime serves the session
    span,    \* OMNIRT_QUICKTALK_STREAMING_CONTEXT_MS, n_audio_samples of the portrait's
             \* motion generator, audio_context_samples of MuseTalk
    pushed,  \* chunks sent by the client
    ok,      \* whether the last call succeeded
    history, \* pcm_history (Wav2Lip, QuickTalk), audio_buffer (portrait), audio_context (MuseTalk)
    pending, \* QuickTalk pending_pcm
    emitted, \* Wav2Lip emitted_frames, QuickTalk frame_index
    shown,   \* the chunks whose frames were returned, in order
    live     \* there is no preload, or it is over

streamVars == <<runtime, span, pushed, ok, history, pending, emitted, shown, live>>

StreamInit ==
    /\ runtime \in {"wav2lip", "quicktalk", "portrait", "musetalk"} /\ span \in Spans
    /\ pushed = 0 /\ ok = TRUE /\ history = <<>> /\ pending = <<>>
    /\ emitted = 0 /\ shown = <<>>
    /\ live \in BOOLEAN /\ (runtime # "quicktalk" => live)

\* The last n elements, and all of them when n is 0: MuseTalk's slice [-0:] is the
\* whole context, and QuickTalk does not trim to no context.
LastOf(s, n) == SubSeq(s, IF n > 0 /\ Len(s) > n THEN Len(s) - n + 1 ELSE 1, Len(s))

NextChunk == pushed' = pushed + 1 /\ pushed < MaxChunks /\ live

----------------------------------------------------------------------------
(* Wav2Lip: the history is stored before anything can fail, and the frames *)
(* are those of the whole history after the ones already sent.             *)

MelFrames(chunks) ==
    IF chunks * FramesPerChunk > MelTail THEN chunks * FramesPerChunk - MelTail ELSE 0

Wav2LipChunk ==
    /\ runtime = "wav2lip" /\ NextChunk /\ ok' \in BOOLEAN
    /\ history' = Append(history, pushed')
    /\ emitted' = IF ok' /\ MelFrames(Len(history')) > emitted
                  THEN MelFrames(Len(history')) ELSE emitted
    /\ UNCHANGED <<runtime, span, pending, shown, live>>

----------------------------------------------------------------------------
(* QuickTalk: with a look-ahead the frames returned are those of the chunk *)
(* before.                                                                 *)

\* The look-ahead is not moved on.
Streams_KeepsPending(chunk) ==
    IF Lookahead > 0 /\ pending = <<>>
    THEN /\ pending' = <<chunk>> /\ ok' = TRUE
         /\ UNCHANGED <<history, emitted, shown>>
    ELSE LET target == IF Lookahead > 0 THEN Head(pending) ELSE chunk IN
         /\ history' = LastOf(Append(history, target), span)
         /\ ok' = TRUE /\ emitted' = emitted + FramesPerChunk
         /\ shown' = Append(shown, target) /\ UNCHANGED pending

\* prepare_streaming_pcm_features, then generate_frames_from_reps: the features
\* may fail (nothing is changed), then the frames (the state is).
Streams(chunk) ==
    IF Lookahead > 0 /\ pending = <<>>
    THEN /\ pending' = <<chunk>> /\ ok' = TRUE
         /\ UNCHANGED <<history, emitted, shown>>
    ELSE \/ /\ ok' = FALSE /\ UNCHANGED <<history, pending, emitted, shown>>
         \/ LET target == IF Lookahead > 0 THEN Head(pending) ELSE chunk IN
            /\ history' = LastOf(Append(history, target), span)
            /\ pending' = IF Lookahead > 0 THEN <<chunk>> ELSE <<>>
            /\ \/ ok' = TRUE /\ emitted' = emitted + FramesPerChunk /\ shown' = Append(shown, target)
               \/ ok' = FALSE /\ emitted' \in emitted .. emitted + FramesPerChunk /\ UNCHANGED shown

QuickTalkChunk ==
    /\ runtime = "quicktalk" /\ NextChunk
    /\ Streams(pushed')
    /\ UNCHANGED <<runtime, span, live>>

\* The warm-up renders silence with the session's own state, one chunk more than
\* the look-ahead, and resets it.  When it raises, the handler closes the
\* session and the state is made anew.
Warmup ==
    /\ runtime = "quicktalk" /\ ~live /\ ok
    /\ Len(shown) < 1
    /\ Streams(0) /\ UNCHANGED <<runtime, span, pushed, live>>

Fresh == history' = <<>> /\ pending' = <<>> /\ emitted' = 0

Reset ==
    /\ runtime = "quicktalk" /\ ~live /\ ok /\ Len(shown) = 1
    /\ Fresh /\ shown' = <<>> /\ live' = TRUE
    /\ UNCHANGED <<runtime, span, pushed, ok>>

PreloadAgain ==
    /\ runtime = "quicktalk" /\ ~live /\ ~ok
    /\ history' = <<>> /\ pending' = <<>> /\ emitted' = 0 /\ shown' = <<>> /\ ok' = TRUE
    /\ UNCHANGED <<runtime, span, pushed, live>>

----------------------------------------------------------------------------
(* FasterLivePortrait: the chunk is buffered first; the buffer is trimmed   *)
(* by the motion generator, which a failure of the model load precedes.    *)

\* The portrait keeps the chunk itself at least.
Kept == IF runtime = "portrait" /\ span = 0 THEN 1 ELSE span

PortraitChunk ==
    /\ runtime = "portrait" /\ NextChunk /\ ok' \in BOOLEAN
    /\ LET buffer == Append(history, pushed') IN
          history' \in IF ok' THEN {LastOf(buffer, Kept)} ELSE {buffer, LastOf(buffer, Kept)}
    /\ UNCHANGED <<runtime, span, pending, emitted, shown, live>>

\* MuseTalk keeps its context before anything can fail.
MuseTalkChunk ==
    /\ runtime = "musetalk" /\ NextChunk /\ ok' \in BOOLEAN
    /\ history' = LastOf(Append(history, pushed'), Kept)
    /\ UNCHANGED <<runtime, span, pending, emitted, shown, live>>

StreamNext == MuseTalkChunk \/ Wav2LipChunk \/ QuickTalkChunk \/ Warmup \/ Reset \/ PreloadAgain \/ PortraitChunk

StreamSpec == StreamInit /\ [][StreamNext]_streamVars

----------------------------------------------------------------------------
(* Properties.                                                             *)

\* Wav2Lip catches up: after a call that succeeds, exactly the frames of all the
\* audio pushed so far were sent, the calls that failed before included.
SpeechInStep ==
    runtime = "wav2lip" /\ ok => emitted = MelFrames(pushed)

\* QuickTalk renders no chunk twice and none out of order, and a call that
\* succeeds renders at most the chunk accepted last before it.
RenderedOnce ==
    runtime = "quicktalk" /\ live =>
        /\ \A i, k \in DOMAIN shown : i < k => shown[i] < shown[k]
        /\ pending # <<>> => \A i \in DOMAIN shown : shown[i] < Head(pending)

\* Nothing of the warm-up is heard or seen by the client of the session.
WarmupForgotten ==
    runtime = "quicktalk" /\ live =>
        /\ \A i \in DOMAIN history : history[i] > 0
        /\ \A i \in DOMAIN pending : pending[i] > 0
        /\ \A i \in DOMAIN shown : shown[i] > 0

\* The portrait's motion and MuseTalk's context are of the latest audio, without a
\* gap: after a success as many of the last chunks pushed as the runtime keeps (all,
\* when MuseTalk's context is configured as 0), whatever failed before.
BufferIsLatest ==
    runtime \in {"portrait", "musetalk"} /\ ok =>
        history = LastOf([i \in 1 .. pushed |-> i], Kept)

\* What a session keeps of its audio is what its client pushed, through failed
\* calls, look-ahead and warm-up.
AudioKept == SpeechInStep /\ RenderedOnce /\ WarmupForgotten /\ BufferIsLatest
===============================================================================
