------------------------------- MODULE AudioRing -------------------------------
(***************************************************************************)
(* The circular buffer that holds the latest samples of a session          *)
(* (_append_audio_chunk and _linearize_audio_buffer of                     *)
(* src/model_backends/flashtalk/flashtalk_ws_server.py).  Arrays are       *)
(* functions from 0; a chunk comes with its length.                        *)
(***************************************************************************)
EXTENDS Integers

CONSTANT BufLen   \* CACHED_AUDIO_SAMPLES

ASSUME BufLenAssumption == BufLen \in Nat \ {0}

Index == 0 .. BufLen - 1

\* The chunk is written up to the end of the array and goes on at its start.
\* end % buf_len is written without %: end is less than twice buf_len here.
AppendRing(ring, pos, chunk, len) ==
    IF len >= BufLen
    THEN [i \in Index |-> chunk[len - BufLen + i]]
    ELSE [i \in Index |->
            IF pos <= i /\ i < pos + len THEN chunk[i - pos]
            ELSE IF i < pos + len - BufLen THEN chunk[i + BufLen - pos]
            ELSE ring[i]]

AppendPos(pos, len) ==
    IF len >= BufLen THEN 0
    ELSE IF pos + len < BufLen THEN pos + len
    ELSE pos + len - BufLen

Linearize(ring, pos) ==
    [i \in Index |-> IF i < BufLen - pos THEN ring[pos + i] ELSE ring[i - (BufLen - pos)]]

\* What a window of the last BufLen samples becomes when a chunk is heard.
Heard(window, chunk, len) ==
    [i \in Index |-> IF i + len < BufLen THEN window[i + len] ELSE chunk[i + len - BufLen]]
===============================================================================
