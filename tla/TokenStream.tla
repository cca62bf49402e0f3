------------------------------ MODULE TokenStream ------------------------------
(***************************************************************************)
(* The token-window stream of IndexTTS: a generate thread per segment      *)
(* feeds a bounded queue, the worker thread batches its tokens, decodes    *)
(* windows of them and puts the sound in the output queue, which the       *)
(* request's coroutine reads.  Tokens are counted; the sound of a token is *)
(* its segment and its position; the model that decodes is left out.       *)
(***************************************************************************)
EXTENDS Naturals, Sequences, Functions, FiniteSetsExt

CONSTANTS
    Segments,     \* how many segments the text is split into
    MaxTokens,    \* max_mel_tokens
    WindowSize, WindowHop, \* tokens of the first batch, of the others
    OverlapTokens,\* token_window_overlap_ms, in tokens
    QueueSize     \* max_queue of the token queue

ASSUME TokenAssumption ==
    /\ Segments \in Nat \ {0} /\ MaxTokens \in Nat \ {0}
    /\ WindowSize \in Nat \ {0} /\ WindowHop \in Nat \ {0}
    /\ OverlapTokens \in Nat /\ QueueSize \in Nat /\ QueueSize > 1

VARIABLES
    context,  \* token_window_context > 0
    streamed, \* _can_stream_speech_codes
    seg,      \* the segment the worker is at
    speaker,  \* segment -> what its generate thread is doing
    said,     \* segment -> tokens generated so far, the stop token excluded
    tokenq,   \* segment -> the thread's queue
    batch,    \* tokens of the batch being collected
    first,    \* no batch of this segment was yielded yet
    prefix,   \* tokens of the segment handed to the decoder
    until,    \* emitted_until, in tokens
    decoder,  \* what the worker thread is doing
    fault,    \* decoding failed
    out,      \* the output queue
    played,    \* the sounds the client received
    client    \* where the request's coroutine is

tokenVars == <<context, streamed, seg, speaker, said, tokenq, batch, first, prefix,
               until, decoder, fault, out, played, client>>
decoderVars == <<prefix, until, decoder, fault, out>>

Segment == 1 .. Segments

\* what the queues hold besides sounds <<segment, token>>
TOKEN == <<0, 0>>
STOP == <<0, 1>>
END == <<0, 2>>
ERROR == <<0, 3>>

TokenInit ==
    /\ context \in BOOLEAN /\ streamed \in BOOLEAN
    /\ seg = 1 /\ speaker = [s \in Segment |-> "none"] /\ said = [s \in Segment |-> 0]
    /\ tokenq = [s \in Segment |-> <<>>]
    /\ batch = 0 /\ first = TRUE /\ prefix = 0 /\ until = 0
    /\ decoder = "start" /\ fault = FALSE
    /\ out = <<>> /\ played = <<>> /\ client = "reading"

----------------------------------------------------------------------------
(* The generate thread.                                                    *)

Speak(s, token, next) ==
    /\ Len(tokenq[s]) < QueueSize
    /\ tokenq' = [tokenq EXCEPT ![s] = Append(@, token)]
    /\ speaker' = [speaker EXCEPT ![s] = next]
    /\ UNCHANGED <<context, streamed, seg, batch, first, decoderVars, played, client>>

\* generate stops at max_length: the prompt's tokens and max_total_tokens more.
MayGoOn(s) == speaker[s] = "run" /\ said[s] < MaxTokens

\* Nothing is put for an error: generate's own end is the only one.
Generate_Silent(s) ==
    \/ /\ MayGoOn(s) /\ said' = [said EXCEPT ![s] = @ + 1] /\ Speak(s, TOKEN, "run")
    \/ MayGoOn(s) /\ Speak(s, STOP, "ending") /\ UNCHANGED said
    \/ speaker[s] = "run" /\ ~MayGoOn(s) /\ Speak(s, END, "ended") /\ UNCHANGED said
    \/ speaker[s] = "ending" /\ Speak(s, END, "ended") /\ UNCHANGED said
    \/ /\ speaker[s] = "run" /\ speaker' = [speaker EXCEPT ![s] = "ended"]
       /\ UNCHANGED <<context, streamed, seg, batch, first, decoderVars, played, client, said, tokenq>>

\* A token, the stop token, the end generate itself puts at its length limit, or
\* an error; then the finally clause's own end of the stream.
Generate(s) ==
    \/ /\ MayGoOn(s) /\ said' = [said EXCEPT ![s] = @ + 1] /\ Speak(s, TOKEN, "run")
    \/ MayGoOn(s) /\ Speak(s, STOP, "ending") /\ UNCHANGED said
    \/ speaker[s] = "run" /\ ~MayGoOn(s) /\ Speak(s, END, "ending") /\ UNCHANGED said
    \/ speaker[s] = "ending" /\ Speak(s, END, "ended") /\ UNCHANGED said
    \/ speaker[s] = "run" /\ Speak(s, ERROR, "ending") /\ UNCHANGED said

----------------------------------------------------------------------------
(* The worker thread.                                                      *)

Sounds(from, to) == [k \in 1 .. to - from |-> <<seg, from + k>>]

\* safe_until: all of it in the last window, else all but the overlap.
Safe(size, final) ==
    IF final THEN size ELSE Max({until, size - Min({OverlapTokens, size \div 3})})

\* A window is decoded: with a context only its new tokens are sounded, without
\* one the whole prefix is decoded again and sounded from where it ended.
Decode(new, final) ==
    LET size == prefix + new
        last == final \/ size >= MaxTokens
        from == IF context THEN prefix ELSE until
        to   == IF context THEN size ELSE Safe(size, last) IN
    \/ /\ prefix' = size /\ until' = IF context THEN until ELSE to
       /\ out' = out \o (IF to > from THEN Sounds(from, to) ELSE <<>>)
       /\ decoder' = IF last THEN "segment" ELSE "batch"
       /\ UNCHANGED fault
    \/ /\ decoder' = "failed" /\ fault' = TRUE /\ UNCHANGED <<prefix, until, out>>

\* conditioning, and the start of the segment's generate thread
StartSegment ==
    /\ decoder = "start"
    /\ speaker' = IF streamed THEN [speaker EXCEPT ![seg] = "run"] ELSE speaker
    /\ batch' = 0 /\ first' = TRUE /\ prefix' = 0 /\ until' = 0 /\ decoder' = "batch"
    /\ UNCHANGED <<context, streamed, seg, said, tokenq, fault, out, played, client>>

Target == IF first THEN WindowSize ELSE WindowHop

\* The next item of the token queue: a token fills the batch, which is yielded
\* when it is full, at the stop token and at the limit.
NextToken ==
    /\ decoder = "batch" /\ streamed /\ tokenq[seg] # <<>>
    /\ tokenq' = [tokenq EXCEPT ![seg] = Tail(@)]
    /\ LET item     == Head(tokenq[seg])
           finished == item = STOP
           size     == IF finished THEN batch ELSE batch + 1
           limit    == prefix + size >= MaxTokens IN
       \/ /\ item = ERROR /\ decoder' = "failed"
          /\ UNCHANGED <<batch, first, prefix, until, fault, out>>
       \/ /\ item = END
          /\ IF batch > 0 THEN Decode(batch, TRUE)
             ELSE decoder' = "segment" /\ UNCHANGED <<prefix, until, fault, out>>
          /\ batch' = 0 /\ UNCHANGED first
       \/ /\ item \notin {ERROR, END} /\ size > 0 /\ (size >= Target \/ finished \/ limit)
          /\ Decode(size, finished \/ limit)
          /\ batch' = 0 /\ first' = FALSE
       \/ /\ item \notin {ERROR, END} /\ ~(size > 0 /\ (size >= Target \/ finished \/ limit))
          /\ batch' = size /\ decoder' = IF finished THEN "segment" ELSE decoder
          /\ UNCHANGED <<first, prefix, until, fault, out>>
    /\ UNCHANGED <<context, streamed, seg, speaker, said, played, client>>

\* _iter_iterative_speech_code_batches: one call of the model per batch, cut at
\* the stop token; the empty batch that ends a segment is handed on as well.
NextCodes ==
    /\ decoder = "batch" /\ ~streamed
    /\ LET step == Min({Target, MaxTokens - prefix}) IN
       \E new \in 0 .. step :
          /\ said' = [said EXCEPT ![seg] = @ + new]
          /\ IF new = 0 /\ (context \/ prefix = 0)
             THEN decoder' = "segment" /\ UNCHANGED <<prefix, until, fault, out>>
             ELSE Decode(new, new < step)
    /\ first' = FALSE
    /\ UNCHANGED <<context, streamed, seg, speaker, tokenq, batch, played, client>>

\* What is held back at the end of a segment is not sounded.
EndSegment_Drops ==
    /\ decoder = "segment"
    /\ out' = out
    /\ IF seg < Segments THEN seg' = seg + 1 /\ decoder' = "start"
       ELSE seg' = seg /\ decoder' = "ending"
    /\ UNCHANGED <<context, streamed, speaker, said, tokenq, batch, first, prefix,
                   until, fault, played, client>>

\* The rest of the last decode is sounded, and the next segment begun.
EndSegment ==
    /\ decoder = "segment"
    /\ out' = IF ~context /\ until < prefix THEN out \o Sounds(until, prefix) ELSE out
    /\ IF seg < Segments THEN seg' = seg + 1 /\ decoder' = "start"
       ELSE seg' = seg /\ decoder' = "ending"
    /\ UNCHANGED <<context, streamed, speaker, said, tokenq, batch, first, prefix,
                   until, fault, played, client>>

\* The worker's except and finally clauses.
EndStream ==
    /\ \/ decoder = "failed" /\ out' = Append(out, ERROR) /\ decoder' = "ending"
       \/ decoder = "ending" /\ out' = Append(out, END) /\ decoder' = "done"
    /\ UNCHANGED <<context, streamed, seg, speaker, said, tokenq, batch, first, prefix,
                   until, fault, played, client>>

----------------------------------------------------------------------------
(* The client.                                                             *)

\* out_q.get in the executor, and what the coroutine does with the item.
Read ==
    /\ client = "reading" /\ out # <<>> /\ out' = Tail(out)
    /\ \/ Head(out) = END /\ client' = "ended" /\ UNCHANGED played
       \/ Head(out) = ERROR /\ client' = "error" /\ UNCHANGED played
       \/ /\ Head(out) \notin {END, ERROR}
          /\ played' = Append(played, Head(out)) /\ UNCHANGED client
    /\ UNCHANGED <<context, streamed, seg, speaker, said, tokenq, batch, first, prefix,
                   until, decoder, fault>>

\* The client goes away; nothing tells the threads.
Leave ==
    /\ client = "reading" /\ client' = "gone"
    /\ UNCHANGED <<context, streamed, seg, speaker, said, tokenq, batch, first, prefix,
                   until, decoder, fault, out, played>>

WorkerNext == StartSegment \/ NextToken \/ NextCodes \/ EndSegment \/ EndStream

TokenNext == (\E s \in Segment : Generate(s)) \/ WorkerNext \/ Read \/ Leave

\* Every thread is scheduled again and again; the client may leave, and need not.
TokenSpec ==
    /\ TokenInit /\ [][TokenNext]_tokenVars
    /\ \A s \in Segment : WF_tokenVars(Generate(s))
    /\ WF_tokenVars(WorkerNext) /\ WF_tokenVars(Read)

----------------------------------------------------------------------------
(* Properties.                                                             *)

\* the order of sounds
Before(x, y) == x[1] < y[1] \/ (x[1] = y[1] /\ x[2] < y[2])

Spoken == {x \in Segment \X (1 .. MaxTokens) : x[2] <= said[x[1]]}

\* A client that is told the stream ended without an error has played every
\* token of every segment once and in order: whatever the windows, the part held
\* back and the batch in which the stop token arrives, nothing is cut or doubled.
EverythingSpoken ==
    client = "ended" =>
        /\ Range(played) = Spoken
        /\ \A j, k \in DOMAIN played : j < k => Before(played[j], played[k])

\* No stream that has begun hangs: a client that stays is told the end or an
\* error, the worker gets to its end, and with it, unless decoding failed, the
\* generate threads: what they still have to put fits in their queue.
StreamEnds ==
    (decoder # "start") ~>
        /\ client # "reading" /\ decoder = "done"
        /\ fault \/ \A s \in Segment : speaker[s] \in {"none", "ended"}
===============================================================================
