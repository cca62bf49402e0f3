----------------------------- MODULE FlashTalkAudio ----------------------------
(***************************************************************************)
(* What the FlashTalk server does with the audio of a session              *)
(* (src/model_backends/flashtalk/flashtalk_ws_server.py): every chunk goes *)
(* into the circular buffer; speech is rendered, silence is answered from  *)
(* the idle bank of the avatar, which is refreshed by a render now and     *)
(* then.  One connection; how a render runs on the ranks is                *)
(* FlashTalkServer.                                                        *)
(*                                                                         *)
(* A sample is silent or not, a chunk is one or the other throughout.  Of  *)
(* frames the model keeps the avatars they show: cross-fading and region   *)
(* locking blend frames of several chunks.                                 *)
(***************************************************************************)
EXTENDS AudioRing

CONSTANTS
    Avatar,
    BankSize,         \* the chunks in the bank of each avatar; 0 if it has none
    ChunkLen,         \* AUDIO_CHUNK_SAMPLES
    Playback,         \* IDLE_CACHE_PLAYBACK: "loop", "random" or anything else
    EnterChunks,      \* IDLE_ENTER_CHUNKS
    RefreshInterval,  \* IDLE_REFRESH_INTERVAL
    Hold              \* IDLE_HOLD_MIN_CHUNKS .. IDLE_HOLD_MAX_CHUNKS

ASSUME AudioAssumption ==
    /\ BankSize \in [Avatar -> Nat] /\ ChunkLen \in Nat \ {0}
    /\ {EnterChunks, RefreshInterval} \cup Hold \subseteq Nat \ {0} /\ Hold # {}

VARIABLES
    session,  \* the state of the session
    ring,     \* audio_buffer and audio_write_pos
    heard     \* the last BufLen samples the client sent, the oldest first

audioVars == <<session, ring, heard>>

Quiet == [i \in Index |-> TRUE]
Size(s) == IF s.avatar \in Avatar THEN BankSize[s.avatar] ELSE 0

\* The fields that close, a disconnect and an init over an active session clear.
Cleared == [active |-> FALSE, avatar |-> "none", bank |-> <<>>, index |-> 0, direction |-> 1,
            hold |-> 0, using |-> FALSE, silence |-> 0, refresh |-> 0,
            output |-> {}, locked |-> {}]

AudioInit ==
    /\ session = Cleared
    /\ ring = [buffer |-> Quiet, pos |-> 0]
    /\ heard = Quiet

\* _sample_idle_hold_chunks
HoldSamples(size) == IF size <= 1 THEN {1} ELSE Hold

\* _load_idle_cache_frames returns copies, so a session overwrites its own bank only.
LoadBank(a) == [slot \in 0 .. BankSize[a] - 1 |-> {a}]

Stop ==
    /\ session.active
    /\ session' = Cleared
    /\ UNCHANGED <<ring, heard>>

\* The frame shown last survives.
StartSession_KeepsOutput(a) ==
    /\ \E h \in HoldSamples(BankSize[a]) :
          session' = [Cleared EXCEPT !.active = TRUE, !.avatar = a, !.bank = LoadBank(a),
                                     !.hold = h, !.output = session.output]
    /\ ring' = [buffer |-> Quiet, pos |-> 0]
    /\ heard' = Quiet

\* init; the avatar's bank may be missing.
StartSession(a) ==
    /\ \E h \in HoldSamples(BankSize[a]) :
          session' = [Cleared EXCEPT !.active = TRUE, !.avatar = a, !.bank = LoadBank(a),
                                     !.hold = h]
    /\ ring' = [buffer |-> Quiet, pos |-> 0]
    /\ heard' = Quiet
-------------------------------------------------------------------------------
(* _advance_idle_cache_cursor                                              *)

\* The direction is not turned at the start of the bank.
Advance_NoTurn(index, direction, size) ==
    IF size <= 1 THEN {<<0, 1>>}
    ELSE IF index + direction >= size THEN {<<size - 2, -1>>}
    ELSE IF index + direction < 0 THEN {<<1, direction>>}
    ELSE {<<index + direction, direction>>}

\* The slots and directions that may come next.
Advance(index, direction, size) ==
    IF size <= 1 THEN {<<0, 1>>}
    ELSE IF Playback = "loop" THEN {<<(index + 1) % size, 1>>}
    ELSE IF Playback = "random"
         THEN {<<(index + step) % size, direction>> : step \in 1 .. size - 1}
    ELSE IF index + direction >= size THEN {<<size - 2, -1>>}
    ELSE IF index + direction < 0 THEN {<<1, 1>>}
    ELSE {<<index + direction, direction>>}
-------------------------------------------------------------------------------
(* A chunk                                                                 *)

\* The part of a chunk that does not fit at the end is written at the old position.
Listen_Truncates(silent) ==
    LET chunk == [i \in 0 .. ChunkLen - 1 |-> silent]
        fits  == IF ring.pos + ChunkLen <= BufLen THEN ChunkLen ELSE BufLen - ring.pos
    IN  /\ ring' = [buffer |-> AppendRing(ring.buffer, ring.pos, chunk, fits),
                    pos    |-> AppendPos(ring.pos, fits)]
        /\ heard' = Heard(heard, chunk, ChunkLen)

Listen(silent) ==
    LET chunk == [i \in 0 .. ChunkLen - 1 |-> silent]
    IN  /\ ring' = [buffer |-> AppendRing(ring.buffer, ring.pos, chunk, ChunkLen),
                    pos    |-> AppendPos(ring.pos, ChunkLen)]
        /\ heard' = Heard(heard, chunk, ChunkLen)

\* silence_chunk_run, which counts on; only its comparison matters.
SilenceRun(silent) ==
    IF ~ silent THEN 0
    ELSE IF session.silence < EnterChunks THEN session.silence + 1 ELSE session.silence

AnswersFromBank(silent) == Size(session) > 0 /\ SilenceRun(silent) >= EnterChunks

RefreshDue == session.using /\ session.refresh >= RefreshInterval

HoldOn(s) == [s EXCEPT !.hold = @ - 1]
MoveTo(s, n, h) == [s EXCEPT !.index = n[1], !.direction = n[2], !.hold = h]

\* The hold of the slot runs down; then the cursor moves on.
NextSlot(s) ==
    IF s.hold - 1 > 0 THEN {HoldOn(s)}
    ELSE {MoveTo(s, n, h) : n \in Advance(s.index, s.direction, Size(s)),
                            h \in HoldSamples(Size(s))}

\* The frames that are sent and kept: cross-faded with the output before, at a
\* change of mode and within the bank, then locked to the reference frame and
\* to the idle frames before.
Blend(frames, mode) ==
    frames
    \cup (IF mode = "idle" \/ session.using THEN session.output ELSE {})
    \cup (IF mode = "live" THEN {} ELSE {session.avatar} \cup session.locked)

\* What follows the render: the slot is overwritten, the output remembered.
Shown(s, frames, mode) ==
    [s EXCEPT !.output = frames,
              !.using  = mode # "live",
              !.locked = IF mode = "live" THEN {} ELSE frames,
              !.bank   = IF mode = "live" THEN @ ELSE [@ EXCEPT ![session.index] = frames]]

Live ==
    /\ session.active /\ \E silent \in BOOLEAN :
        /\ ~ AnswersFromBank(silent)
        /\ Listen(silent)
        /\ \E h \in HoldSamples(Size(session)) :
              session' = Shown([session EXCEPT !.silence = SilenceRun(silent), !.hold = h,
                                               !.refresh = 0],
                               Blend({session.avatar}, "live"), "live")

Replay ==
    /\ session.active /\ AnswersFromBank(TRUE) /\ ~ RefreshDue
    /\ Listen(TRUE)
    /\ LET frames == Blend(session.bank[session.index], "idle")
       IN  \E s \in NextSlot([session EXCEPT !.silence = SilenceRun(TRUE),
                                             !.refresh = IF session.using THEN @ + 1 ELSE @]) :
              session' = Shown(s, frames, "idle")

Refresh ==
    /\ session.active /\ AnswersFromBank(TRUE) /\ RefreshDue
    /\ Listen(TRUE)
    /\ \E s \in NextSlot([session EXCEPT !.silence = SilenceRun(TRUE), !.refresh = 0]) :
          session' = Shown(s, Blend({session.avatar}, "idle_refresh"), "idle_refresh")

\* The client is told that its chunk failed, and the chunk is in the buffer.
ChunkFails ==
    /\ session.active /\ \E silent \in BOOLEAN :
        /\ AnswersFromBank(silent) => RefreshDue
        /\ Listen(silent)
        /\ session' = [session EXCEPT !.silence = SilenceRun(silent)]

-------------------------------------------------------------------------------
Chunk == Live \/ Replay \/ Refresh \/ ChunkFails

AudioNext == Stop \/ (\E a \in Avatar : StartSession(a)) \/ Chunk

AudioSpec == AudioInit /\ [][AudioNext]_audioVars
-------------------------------------------------------------------------------
AudioTypeOK ==
    /\ session.active \in BOOLEAN /\ session.using \in BOOLEAN
    /\ session.index \in 0 .. Size(session) /\ session.direction \in {-1, 1}
    /\ session.hold \in Hold \cup {0, 1} /\ session.silence \in 0 .. EnterChunks
    /\ session.refresh \in 0 .. RefreshInterval
    /\ DOMAIN session.bank = 0 .. Size(session) - 1 \/ session.bank = <<>>
    /\ ring.buffer \in [Index -> BOOLEAN] /\ ring.pos \in Index
    /\ heard \in [Index -> BOOLEAN]

\* The audio a render sees is what the client sent last, in order, through
\* every wrap of the buffer, failed render and refresh.
WindowIsRecent == Linearize(ring.buffer, ring.pos) = heard

\* A session shows its own avatar only: neither its output nor its bank is ever
\* blended with frames of the session before.
OwnAvatarOnly ==
    session.active => /\ session.output \cup session.locked \subseteq {session.avatar}
                      /\ \A slot \in DOMAIN session.bank : session.bank[slot] = {session.avatar}

\* From some point on every chunk is silent and answered from the bank.
SilentForever ==
    /\ <>[][Replay \/ Refresh]_audioVars
    /\ []<><<Replay \/ Refresh>>_audioVars

\* A client that stays silent sees every slot of the bank again and again,
\* whatever holds are drawn (Playback is not "random").
EverySlotShown ==
    SilentForever =>
        \A slot \in UNION {0 .. BankSize[a] - 1 : a \in Avatar} :
            []<>(slot \in DOMAIN session.bank => session.index = slot)
===============================================================================
