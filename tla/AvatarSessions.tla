---------------------------- MODULE AvatarSessions -----------------------------
(***************************************************************************)
(* The realtime avatar service of the API server (server/                  *)
(* realtime_avatar.py), the WebSocket handlers and the preload route in    *)
(* front of it (server/routes/avatar.py), and the state the model runtimes *)
(* keep per session (the router in models/wav2lip/runtime.py, and the      *)
(* Wav2Lip, QuickTalk and FasterLivePortrait runtimes).                    *)
(*                                                                         *)
(* The handlers are tasks of one event loop: what they do between two      *)
(* awaits is one step.  Runtime calls run in a thread while their task     *)
(* holds avatar_runtime_lock, a FIFO lock; close_session and               *)
(* cancel_session are called on the loop itself and without that lock, but *)
(* they need the lock of the QuickTalk workers, so the loop may stand      *)
(* still while a worker is built.  What is rendered, the audio and the     *)
(* checks of a request's paths and numbers are left out.                   *)
(***************************************************************************)
EXTENDS Functions, FiniteSets, Sequences, SequencesExt

CONSTANTS
    Conn, Routes,         \* the clients, and the endpoints they may connect to
    NativeModel,          \* the models asked for at /v1/avatar/realtime
    SessionId, NoSession, \* ids in use at a time (bound)
    Ref,                  \* the template a QuickTalk worker is made for
    Value, NoValue,       \* values of one key of runtime_config
    CacheMax,             \* OMNIRT_QUICKTALK_WORKER_CACHE_MAX
    NoConn

VARIABLES
    sessions,  \* RealtimeAvatarService._sessions
    kept,      \* the runtimes' state of a session: _sessions, _states
    workers,   \* QuickTalkRealtimeRuntime._workers, oldest first
    building,  \* the connection whose thread holds _worker_lock, or NoConn
    source,    \* the session whose image the one pipeline has prepared
    setting,   \* the value of the key in the pipeline's configuration
    queue,     \* avatar_runtime_lock: the holder, then those who wait
    loop,      \* the handler the event loop is blocked in, or NoConn
    route,     \* the endpoint a client is connected to
    at, sid, job, fresh, good, after

avatarVars == <<sessions, kept, workers, building, source, setting, queue, loop,
                route, at, sid, job, fresh, good, after>>
runtimeVars == <<kept, workers, building, source, setting>>

Model == {"flashtalk", "wav2lip", "quicktalk", "fasterliveportrait"}
ASSUME AvatarAssumption ==
    /\ NativeModel \subseteq Model /\ Routes \subseteq {"native", "clone", "preload"} \union Model
    /\ NoSession \notin SessionId /\ NoConn \notin Conn
    /\ CacheMax \in Nat \ {0}
RouteModels(c) ==
    CASE route[c] = "native" -> NativeModel
      [] route[c] = "clone" -> {"fasterliveportrait"}
      [] route[c] = "preload" -> {"wav2lip", "quicktalk"}
      [] OTHER -> {route[c]}

AvatarInit ==
    /\ sessions = <<>> /\ kept = <<>> /\ workers = <<>>
    /\ building = NoConn /\ source = NoSession /\ setting = NoValue
    /\ queue = <<>> /\ loop = NoConn
    /\ route = [c \in Conn |-> "none"]
    /\ at = [c \in Conn |-> "gone"] /\ sid = [c \in Conn |-> NoSession]
    /\ job = [c \in Conn |-> "none"] /\ fresh = [c \in Conn |-> NoSession]
    /\ good = [c \in Conn |-> TRUE] /\ after = [c \in Conn |-> "idle"]

Holder(c) == queue # <<>> /\ Head(queue) = c
SetAt(f, k, v) == [x \in DOMAIN f \union {k} |-> IF x = k THEN v ELSE f[x]]
Drop(f, k) == [x \in DOMAIN f \ {k} |-> f[x]]
Free == SessionId \ (DOMAIN sessions \union Range(sid) \union Range(fresh))
Target(c) == IF fresh[c] # NoSession THEN fresh[c] ELSE sid[c]

\* A closed session's image is nobody's: ids are not used again by the program.
SourceAfter(s) == IF source = s THEN NoSession ELSE source

\* create_session stores a session, or raises before it does.  The template
\* matters to QuickTalk only, the key of runtime_config to FasterLivePortrait.
NewSessions(c) ==
    UNION {[model : {m}, cancelled : {FALSE},
            ref : IF m = "quicktalk" THEN Ref ELSE {NoValue},
            value : IF m = "fasterliveportrait" THEN Value \union {NoValue} ELSE {NoValue}]
              : m \in RouteModels(c)}

Create(c, s) == \E new \in NewSessions(c) : sessions' = SetAt(sessions, s, new)

----------------------------------------------------------------------------
(* The handlers, on the event loop.                                        *)

Await(c, j) ==
    /\ queue' = Append(queue, c)
    /\ at' = [at EXCEPT ![c] = "queued"] /\ job' = [job EXCEPT ![c] = j]

\* close_session and cancel_session, called by a handler: the loop is in them
\* until the lock of the QuickTalk workers is free.
CallClose(c, next) ==
    /\ loop' = c
    /\ at' = [at EXCEPT ![c] = "closing"] /\ after' = [after EXCEPT ![c] = next]

Preloads(c) == route[c] \in {"quicktalk", "fasterliveportrait", "clone"}

\* "init" or "session.create": a session the connection has is closed first.
InitMessage(c) ==
    /\ loop = NoConn /\ at[c] = "idle" /\ route[c] # "preload"
    /\ \/ sid[c] # NoSession /\ CallClose(c, "create")
       \/ sid[c] = NoSession /\ at' = [at EXCEPT ![c] = "create"] /\ loop' = c /\ UNCHANGED after
    /\ UNCHANGED <<route, sessions, runtimeVars, queue, sid, job, fresh, good>>

CreateFails(c) ==
    /\ at[c] = "create" /\ at' = [at EXCEPT ![c] = "idle"] /\ loop' = NoConn
    /\ UNCHANGED <<route, sessions, runtimeVars, queue, sid, job, fresh, good, after>>

\* The video-clone handler notes the session only when its preload is over.
NewSession(c) ==
    /\ at[c] = "create" /\ loop' = NoConn
    /\ \E s \in Free :
          /\ Create(c, s)
          /\ IF route[c] = "clone"
             THEN fresh' = [fresh EXCEPT ![c] = s] /\ UNCHANGED sid
             ELSE sid' = [sid EXCEPT ![c] = s] /\ UNCHANGED fresh
    /\ IF Preloads(c) THEN Await(c, "preload")
       ELSE at' = [at EXCEPT ![c] = "idle"] /\ UNCHANGED <<queue, job>>
    /\ UNCHANGED <<route, runtimeVars, good, after>>

CloseMessage(c) ==
    /\ loop = NoConn /\ at[c] = "idle" /\ sid[c] # NoSession
    /\ \E next \in {"idle", "gone"} : CallClose(c, next)
    /\ UNCHANGED <<route, sessions, runtimeVars, queue, sid, job, fresh, good>>

CancelMessage(c) ==
    /\ loop = NoConn /\ at[c] = "idle" /\ route[c] = "native" /\ sid[c] # NoSession
    /\ sessions' = [sessions EXCEPT ![sid[c]].cancelled = TRUE]
    /\ CallClose(c, "cancelled")
    /\ UNCHANGED <<route, runtimeVars, queue, sid, job, fresh, good>>

Closed_OnlyService(c) ==
    /\ at[c] = "closing" /\ building = NoConn
    /\ kept' = IF after[c] = "cancelled" THEN Drop(kept, sid[c]) ELSE kept
    /\ source' = SourceAfter(sid[c])
    /\ IF after[c] = "cancelled" THEN UNCHANGED <<sessions, sid>>
       ELSE sessions' = Drop(sessions, sid[c]) /\ sid' = [sid EXCEPT ![c] = NoSession]
    /\ at' = [at EXCEPT ![c] = IF after[c] = "cancelled" THEN "idle" ELSE after[c]]
    /\ loop' = IF after[c] = "create" THEN c ELSE NoConn
    /\ after' = [after EXCEPT ![c] = "idle"]
    /\ UNCHANGED <<route, workers, building, setting, queue, job, fresh, good>>

\* The router asks every runtime; after a cancel the service keeps its session.
Closed(c) ==
    /\ at[c] = "closing" /\ building = NoConn
    /\ kept' = Drop(kept, sid[c]) /\ source' = SourceAfter(sid[c])
    /\ IF after[c] = "cancelled" THEN UNCHANGED <<sessions, sid>>
       ELSE sessions' = Drop(sessions, sid[c]) /\ sid' = [sid EXCEPT ![c] = NoSession]
    /\ at' = [at EXCEPT ![c] = IF after[c] = "cancelled" THEN "idle" ELSE after[c]]
    /\ loop' = IF after[c] = "create" THEN c ELSE NoConn
    /\ after' = [after EXCEPT ![c] = "idle"]
    /\ UNCHANGED <<route, workers, building, setting, queue, job, fresh, good>>

PushMessage(c) ==
    /\ loop = NoConn /\ at[c] = "idle" /\ sid[c] # NoSession
    /\ Await(c, IF route[c] = "clone" THEN "frame" ELSE "audio")
    /\ UNCHANGED <<route, sessions, runtimeVars, loop, sid, fresh, good, after>>

ConfigMessage(c) ==
    /\ loop = NoConn /\ at[c] = "idle" /\ sid[c] # NoSession /\ route[c] # "native"
    /\ Await(c, "config")
    /\ UNCHANGED <<route, sessions, runtimeVars, loop, sid, fresh, good, after>>

PreloadRequest(c) ==
    /\ loop = NoConn /\ at[c] = "idle" /\ route[c] = "preload"
    /\ Await(c, "preload")
    /\ UNCHANGED <<route, sessions, runtimeVars, loop, sid, fresh, good, after>>

Disconnect(c) ==
    /\ loop = NoConn /\ at[c] = "idle" /\ sid[c] = NoSession
    /\ at' = [at EXCEPT ![c] = "gone"] /\ route' = [route EXCEPT ![c] = "none"]
    /\ UNCHANGED <<sessions, runtimeVars, queue, loop, sid, job, fresh, good, after>>

Connect(c) ==
    /\ at[c] = "gone" /\ at' = [at EXCEPT ![c] = "idle"]
    /\ \E r \in Routes : route' = [route EXCEPT ![c] = r]
    /\ UNCHANGED <<sessions, runtimeVars, queue, loop, sid, job, fresh, good, after>>

Resume_Forgets(c) ==
    /\ loop = NoConn /\ at[c] = "returned"
    /\ queue' = Tail(queue) /\ fresh' = [fresh EXCEPT ![c] = NoSession]
    /\ job' = [job EXCEPT ![c] = "none"] /\ good' = [good EXCEPT ![c] = TRUE]
    /\ at' = [at EXCEPT ![c] = "idle"] /\ UNCHANGED <<loop, after>>
    /\ sid' = IF job[c] = "preload"
              THEN [sid EXCEPT ![c] = IF ~good[c] THEN NoSession
                                     ELSE IF route[c] = "clone" THEN fresh[c] ELSE @] ELSE sid
    /\ UNCHANGED <<route, sessions, runtimeVars>>

\* The task resumes after its thread: it releases the lock and answers.  A
\* failed preload closes the session, except in the video-clone handler.
Resume(c) ==
    /\ loop = NoConn /\ at[c] = "returned"
    /\ queue' = Tail(queue) /\ fresh' = [fresh EXCEPT ![c] = NoSession]
    /\ job' = [job EXCEPT ![c] = "none"] /\ good' = [good EXCEPT ![c] = TRUE]
    /\ IF job[c] = "preload" /\ ~good[c] /\ sid[c] # NoSession
       THEN CallClose(c, "idle")
       ELSE at' = [at EXCEPT ![c] = "idle"] /\ UNCHANGED <<loop, after>>
    /\ sid' = IF route[c] = "clone" /\ job[c] = "preload" /\ good[c]
              THEN [sid EXCEPT ![c] = fresh[c]] ELSE sid
    /\ UNCHANGED <<route, sessions, runtimeVars>>

----------------------------------------------------------------------------
(* The thread of asyncio.to_thread.                                        *)

Return(c, ok) ==
    /\ good' = [good EXCEPT ![c] = ok]
    /\ at' = [at EXCEPT ![c] =
                IF route[c] = "preload" /\ fresh[c] # NoSession THEN "finally" ELSE "returned"]

\* preload_reference of the service makes a session of its own.
ServicePreload(c) ==
    /\ at[c] = "queued" /\ Holder(c) /\ route[c] = "preload"
    /\ \/ \E s \in Free :
             /\ Create(c, s) /\ fresh' = [fresh EXCEPT ![c] = s]
             /\ at' = [at EXCEPT ![c] = "enter"] /\ UNCHANGED good
       \/ Return(c, FALSE) /\ UNCHANGED <<route, sessions, fresh>>
    /\ UNCHANGED <<route, runtimeVars, queue, loop, sid, job, after>>

Refuses_Never(s, j) == FALSE

\* A cancelled session and a payload that is not whole are refused.
Refuses(s, j) == j # "preload" /\ sessions[s].cancelled

Check(c) ==
    /\ at[c] = "queued" /\ Holder(c) /\ route[c] # "preload" /\ job[c] # "config"
    /\ \/ Return(c, FALSE)
       \/ ~Refuses(Target(c), job[c]) /\ at' = [at EXCEPT ![c] = "enter"] /\ UNCHANGED good
    /\ UNCHANGED <<route, sessions, runtimeVars, queue, loop, sid, job, fresh, after>>

UpdateConfig(c) ==
    /\ at[c] = "queued" /\ Holder(c) /\ job[c] = "config"
    /\ \E v \in Value :
          sessions' = IF sessions[sid[c]].model = "fasterliveportrait"
                      THEN [sessions EXCEPT ![sid[c]].value = v] ELSE sessions
    /\ Return(c, TRUE)
    /\ UNCHANGED <<route, runtimeVars, queue, loop, sid, job, fresh, after>>

Enters(c, m) == at[c] = "enter" /\ sessions[Target(c)].model = m

\* Wav2Lip prepares its frames at the first chunk; its preload keeps no state.
EnterWav2Lip(c) ==
    /\ Enters(c, "wav2lip")
    /\ \/ /\ at' = [at EXCEPT ![c] = "run"] /\ UNCHANGED good
          /\ kept' = IF job[c] = "preload" \/ Target(c) \in DOMAIN kept THEN kept
                     ELSE SetAt(kept, Target(c), "frames")
       \/ Target(c) \notin DOMAIN kept /\ Return(c, FALSE) /\ UNCHANGED kept
    /\ UNCHANGED <<route, sessions, workers, building, source, setting, queue, loop, sid, job, fresh, after>>

EnterFlashTalk(c) ==
    /\ Enters(c, "flashtalk") /\ at' = [at EXCEPT ![c] = "run"]
    /\ UNCHANGED <<route, sessions, runtimeVars, queue, loop, sid, job, fresh, good, after>>

\* The worker of a template comes from the cache, or is built under the lock.
MakesState(c) ==
    kept' = IF job[c] = "preload" \/ Target(c) \notin DOMAIN kept
            THEN SetAt(kept, Target(c), "frames") ELSE kept

EnterQuickTalk(c) ==
    /\ Enters(c, "quicktalk") /\ building = NoConn
    /\ LET r == sessions[Target(c)].ref IN
          \/ /\ \E i \in DOMAIN workers :
                   workers[i] = r /\ workers' = Append(RemoveAt(workers, i), r)
             /\ MakesState(c) /\ at' = [at EXCEPT ![c] = "run"] /\ UNCHANGED building
          \/ /\ ~Contains(workers, r)
             /\ building' = c /\ at' = [at EXCEPT ![c] = "build"] /\ UNCHANGED <<kept, workers>>
    /\ UNCHANGED <<route, sessions, source, setting, queue, loop, sid, job, fresh, good, after>>

\* The new worker is stored, then the oldest are closed.
Built(c) ==
    /\ at[c] = "build" /\ building' = NoConn
    /\ LET ws == Append(workers, sessions[Target(c)].ref) IN
          workers' = SubSeq(ws, IF Len(ws) > CacheMax THEN Len(ws) - CacheMax + 1 ELSE 1, Len(ws))
    /\ MakesState(c) /\ at' = [at EXCEPT ![c] = "run"]
    /\ UNCHANGED <<route, sessions, source, setting, queue, loop, sid, job, fresh, good, after>>

BuildFails_KeepsLock(c) ==
    /\ at[c] = "build" /\ UNCHANGED building /\ Return(c, FALSE)
    /\ UNCHANGED <<route, sessions, kept, workers, source, setting, queue, loop, sid, job, fresh, after>>

BuildFails(c) ==
    /\ at[c] = "build" /\ building' = NoConn /\ Return(c, FALSE)
    /\ UNCHANGED <<route, sessions, kept, workers, source, setting, queue, loop, sid, job, fresh, after>>

\* The one FasterLivePortrait pipeline: the session's settings are applied over
\* those of the others, and its image is prepared unless it still is.
Applied(s) == IF sessions[s].value = NoValue THEN setting ELSE sessions[s].value
SourceReady_AnySource(s) == s \in DOMAIN kept /\ kept[s] = "prepared" /\ source # NoSession

SourceReady(s) == s \in DOMAIN kept /\ kept[s] = "prepared" /\ source = s

EnterPortrait(c) ==
    /\ Enters(c, "fasterliveportrait")
    /\ LET s == Target(c) IN
       /\ setting' = Applied(s)
       /\ \/ /\ at' = [at EXCEPT ![c] = "run"] /\ UNCHANGED good
             /\ kept' = SetAt(kept, s, "prepared")
             /\ source' = IF SourceReady(s) THEN source ELSE s
          \/ /\ ~SourceReady(s) /\ Return(c, FALSE)
             /\ kept' = IF s \in DOMAIN kept THEN kept ELSE SetAt(kept, s, "frames")
             /\ source' \in {NoSession, s}
    /\ UNCHANGED <<route, sessions, workers, building, queue, loop, sid, job, fresh, after>>

\* The model runs and the payload is encoded, or something raises.
RunEnds(c) ==
    /\ at[c] = "run" /\ \E ok \in BOOLEAN : Return(c, ok)
    /\ UNCHANGED <<route, sessions, runtimeVars, queue, loop, sid, job, fresh, after>>

\* The finally of preload_reference.
FinallyClose(c) ==
    /\ at[c] = "finally" /\ building = NoConn
    /\ kept' = Drop(kept, fresh[c]) /\ sessions' = Drop(sessions, fresh[c])
    /\ source' = SourceAfter(fresh[c]) /\ at' = [at EXCEPT ![c] = "returned"]
    /\ UNCHANGED <<route, workers, building, setting, queue, loop, sid, job, fresh, good, after>>

LoopStep(c) ==
    \/ CreateFails(c) \/ NewSession(c) \/ Closed(c) \/ Resume(c)
ThreadStep(c) ==
    \/ ServicePreload(c) \/ Check(c) \/ UpdateConfig(c)
    \/ EnterWav2Lip(c) \/ EnterFlashTalk(c) \/ EnterQuickTalk(c) \/ EnterPortrait(c)
    \/ Built(c) \/ BuildFails(c) \/ RunEnds(c) \/ FinallyClose(c)
Message(c) ==
    \/ InitMessage(c) \/ CloseMessage(c) \/ CancelMessage(c) \/ PushMessage(c)
    \/ ConfigMessage(c) \/ PreloadRequest(c) \/ Disconnect(c) \/ Connect(c)

AvatarNext == \E c \in Conn : LoopStep(c) \/ ThreadStep(c) \/ Message(c)
AvatarFairness == \A c \in Conn : WF_avatarVars(ThreadStep(c)) /\ SF_avatarVars(LoopStep(c))
AvatarSpec == AvatarInit /\ [][AvatarNext]_avatarVars /\ AvatarFairness

----------------------------------------------------------------------------
(* Properties.                                                             *)

\* The runtimes keep state (models' buffers, a prepared image) for open
\* sessions only: each way a session ends, also a failed or cancelled one,
\* takes the state with it, whatever call made the state and when
\* (close_session, cancel_session, preload_reference).
RuntimeStateIsLive ==
    \A s \in DOMAIN kept :
        /\ s \in DOMAIN sessions
        /\ sessions[s].cancelled => \E c \in Conn : at[c] = "closing" /\ sid[c] = s

\* No session is forgotten: each belongs to the connection or the preload that
\* will close it.  Left out: the video-clone handler, which forgets the session
\* of a failed preload (avatar.py:667).
SessionsAreOwned ==
    \A s \in DOMAIN sessions :
        \/ \E c \in Conn : s \in {sid[c], fresh[c]}
        \/ sessions[s].model = "fasterliveportrait" /\ "clone" \in Routes

\* What the sessions of a runtime share is the right one when a chunk is rendered:
\* the FasterLivePortrait pipeline has the session's own image and the settings
\* it asked for, whoever rendered in between, and the QuickTalk worker of its
\* image is not closed by an eviction, although render_chunk holds no _worker_lock.
RendersOwn ==
    \A c \in Conn :
        at[c] = "run" =>
            LET s == Target(c) IN
            /\ sessions[s].model = "fasterliveportrait" =>
                  source = s /\ sessions[s].value \in {NoValue, setting}
            /\ sessions[s].model = "quicktalk" => Contains(workers, sessions[s].ref)

\* Once cancelled, a session renders nothing more, though it stays registered.
CancelledStaysSilent ==
    \A c \in Conn : at[c] \in {"enter", "build", "run"} => ~sessions[Target(c)].cancelled

\* Every message and request is answered: the FIFO lock is always passed on, and
\* the loop, which may wait for the lock of the workers, is never stuck.
EveryMessageAnswered ==
    \A c \in Conn : at[c] \notin {"idle", "gone"} ~> at[c] \in {"idle", "gone"}
===============================================================================
