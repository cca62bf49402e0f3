------------------------------ MODULE AvatarProofs ------------------------------
(***************************************************************************)
(* Proofs about AvatarSessions, for any clients, endpoints, ids, templates *)
(* and settings: the runtimes keep state of live sessions only             *)
(* (RuntimeStateIsLive), no session is forgotten (SessionsAreOwned), and   *)
(* what the sessions of a runtime share is right when a chunk is rendered  *)
(* (RendersOwn).                                                           *)
(* Then about AudioStreams: what a session keeps of its audio is what its  *)
(* client sent (AudioKept).                                                *)
(*                                                                         *)
(* The first three rest on who may change what.  The thread that is first   *)
(* in the FIFO lock is the only one that renders or changes what is shared *)
(* (LockInv), the event loop is the only one that closes a session a       *)
(* client has (LoopInv), and a session belongs to one client or preload    *)
(* at a time (OwnInv).                                                     *)
(***************************************************************************)
EXTENDS AvatarSessions, AudioStreams, SequenceTheorems, TLAPS

Place == {"gone", "idle", "queued", "enter", "build", "run", "finally", "returned",
          "closing", "create"}
InThread == {"enter", "build", "run", "finally", "returned"}
Session ==
  {r \in [model : Model, cancelled : BOOLEAN, ref : Ref \cup {NoValue}, value : Value \cup {NoValue}] :
     r.model = "quicktalk" => r.ref \in Ref}

AvatarTypeInv ==
  /\ DOMAIN sessions \subseteq SessionId
  /\ \A s \in DOMAIN sessions : sessions[s] \in Session
  /\ workers \in Seq(Ref)
  /\ building \in Conn \cup {NoConn}
  /\ queue \in Seq(Conn)
  /\ loop \in Conn \cup {NoConn}
  /\ route \in [Conn -> Routes \cup {"none"}]
  /\ at \in [Conn -> Place]
  /\ sid \in [Conn -> SessionId \cup {NoSession}]
  /\ fresh \in [Conn -> SessionId \cup {NoSession}]
  /\ job \in [Conn -> {"none", "preload", "frame", "audio", "config"}]
  /\ good \in [Conn -> BOOLEAN]
  /\ after \in [Conn -> {"idle", "gone", "create", "cancelled"}]

\* The FIFO lock holds each connection that waits or runs once, and one that is in
\* a thread is the first.
LockInv ==
  /\ \A i, k \in DOMAIN queue : queue[i] = queue[k] => i = k
  /\ \A i \in DOMAIN queue : at[queue[i]] \in InThread \cup {"queued"}
  /\ \A c \in Conn : at[c] \in InThread => Holder(c)

\* The event loop is in one handler at a time, and one thread builds a worker.
LoopInv ==
  /\ \A c \in Conn : at[c] \in {"closing", "create"} <=> loop = c
  /\ \A c \in Conn : at[c] = "build" <=> building = c

\* What each place of a handler says about its sessions.
OwnInv ==
  /\ \A c \in Conn :
      /\ sid[c] # NoSession => sid[c] \in DOMAIN sessions /\ route[c] # "preload"
      /\ fresh[c] # NoSession =>
           /\ at[c] \in InThread \cup {"queued"} /\ job[c] = "preload" /\ sid[c] = NoSession
           /\ \/ route[c] = "clone" /\ fresh[c] \in DOMAIN sessions
                 /\ sessions[fresh[c]].model = "fasterliveportrait"
              \/ /\ route[c] = "preload" /\ at[c] # "queued"
                 /\ fresh[c] \in DOMAIN sessions <=> at[c] # "returned"
      /\ at[c] # "gone" => route[c] # "none"
      /\ at[c] \in {"gone", "create"} => sid[c] = NoSession
      /\ at[c] = "create" => route[c] # "preload"
      /\ at[c] = "closing" => sid[c] # NoSession
      /\ at[c] \in InThread \cup {"queued"} => job[c] # "none"
      /\ at[c] \in {"enter", "build", "run", "finally"} => Target(c) # NoSession
      /\ at[c] = "build" => sessions[Target(c)].model = "quicktalk"
      /\ at[c] = "finally" => fresh[c] # NoSession /\ route[c] = "preload"
      /\ at[c] = "queued" =>
           /\ job[c] # "preload" => sid[c] # NoSession
           /\ route[c] # "preload" =>
                /\ Target(c) # NoSession
                /\ job[c] = "preload" => ~sessions[Target(c)].cancelled
      /\ route[c] = "clone" /\ job[c] = "preload" /\ at[c] \in InThread \cup {"queued"}
           => fresh[c] # NoSession
  /\ \A c, d \in Conn :
      /\ c # d /\ sid[c] # NoSession => sid[c] \notin {sid[d], fresh[d]}
      /\ c # d /\ fresh[c] # NoSession => fresh[c] \notin {sid[d], fresh[d]}

AvatarInv ==
  AvatarTypeInv /\ LockInv /\ LoopInv /\ OwnInv
  /\ RuntimeStateIsLive /\ SessionsAreOwned /\ RendersOwn /\ CancelledStaysSilent

\* What create_session stores: a session of the endpoint's model, not cancelled.
LEMMA NewSessionIsTyped ==
  ASSUME NEW c \in Conn, route[c] \in Routes, NEW new \in NewSessions(c)
  PROVE  /\ new \in Session /\ ~new.cancelled
         /\ route[c] = "clone" => new.model = "fasterliveportrait"
  <1>1. RouteModels(c) \subseteq Model /\ (route[c] = "clone" => RouteModels(c) = {"fasterliveportrait"})
    BY AvatarAssumption DEF RouteModels, Model
  <1>2. PICK m \in RouteModels(c) :
          new \in [model : {m}, cancelled : {FALSE},
                   ref : IF m = "quicktalk" THEN Ref ELSE {NoValue},
                   value : IF m = "fasterliveportrait" THEN Value \union {NoValue} ELSE {NoValue}]
    BY DEF NewSessions
  <1> QED BY <1>1, <1>2 DEF Session

\* A new id is nobody's.
LEMMA FreeIsUnused ==
  ASSUME AvatarTypeInv, NEW s \in Free
  PROVE  /\ s \in SessionId /\ s # NoSession /\ s \notin DOMAIN sessions
         /\ \A d \in Conn : s \notin {sid[d], fresh[d]}
  BY AvatarAssumption DEF Free, Range, AvatarTypeInv

\* The first in the lock goes on in its thread.
LEMMA LockGoesOn ==
  ASSUME AvatarTypeInv, LockInv, NEW c \in Conn, Holder(c), queue' = queue,
         NEW p \in InThread, at' = [at EXCEPT ![c] = p]
  PROVE  LockInv'
  BY DEF AvatarTypeInv, LockInv, Holder

\* A handler that has no part in the lock goes on.
LEMMA LockStays ==
  ASSUME AvatarTypeInv, LockInv, NEW c \in Conn, at[c] \notin InThread \cup {"queued"}, queue' = queue,
         NEW p \in Place \ (InThread \cup {"queued"}), at' = [at EXCEPT ![c] = p]
  PROVE  LockInv'
  <1>1. \A i \in DOMAIN queue : queue[i] \in Conn \ {c}
    BY DEF AvatarTypeInv, LockInv
  <1> QED BY <1>1 DEF AvatarTypeInv, LockInv, Holder, Place, InThread

\* A handler comes last in the lock.
LEMMA LockWaits ==
  ASSUME AvatarTypeInv, LockInv, NEW c \in Conn, at[c] \notin InThread \cup {"queued"},
         queue' = Append(queue, c), at' = [at EXCEPT ![c] = "queued"]
  PROVE  LockInv'
  <1>1. \A i \in DOMAIN queue : queue[i] \in Conn \ {c}
    BY DEF AvatarTypeInv, LockInv
  <1>2. /\ queue' \in Seq(Conn) /\ Len(queue') = Len(queue) + 1 /\ queue'[Len(queue) + 1] = c
        /\ \A i \in 1 .. Len(queue) : queue'[i] = queue[i]
    BY DEF AvatarTypeInv
  <1>3. \A i, k \in DOMAIN queue' : queue'[i] = queue'[k] => i = k
    BY <1>1, <1>2 DEF AvatarTypeInv, LockInv
  <1>4. \A i \in DOMAIN queue' : at'[queue'[i]] \in InThread \cup {"queued"}
    BY <1>1, <1>2 DEF AvatarTypeInv, LockInv
  <1>5. ASSUME NEW d \in Conn, at'[d] \in InThread
        PROVE  Holder(d)'
    <2>1. at[d] \in InThread
      BY <1>5 DEF AvatarTypeInv, InThread
    <2>2. Len(queue) > 0 /\ queue[1] = d
      BY <2>1 DEF AvatarTypeInv, LockInv, Holder
    <2> QED BY <1>2, <2>2 DEF Holder
  <1> QED BY <1>3, <1>4, <1>5 DEF LockInv

\* The first in the lock leaves it.
LEMMA LockPassesOn ==
  ASSUME AvatarTypeInv, LockInv, NEW c \in Conn, Holder(c), queue' = Tail(queue),
         NEW p \in Place \ (InThread \cup {"queued"}), at' = [at EXCEPT ![c] = p]
  PROVE  LockInv'
  <1>1. /\ queue' \in Seq(Conn) /\ Len(queue') = Len(queue) - 1 /\ queue[1] = c /\ Len(queue) > 0
        /\ \A i \in 1 .. Len(queue') : queue'[i] = queue[i + 1]
    BY DEF AvatarTypeInv, Holder
  <1>2. ASSUME NEW i \in 1 .. Len(queue')
        PROVE  queue'[i] \in Conn \ {c}
    <2>1. i + 1 \in DOMAIN queue /\ 1 \in DOMAIN queue /\ i + 1 # 1
      BY <1>1 DEF AvatarTypeInv
    <2>2. queue[i + 1] # queue[1]
      BY <2>1 DEF LockInv
    <2>3. queue[i + 1] \in Conn
      BY <2>1 DEF AvatarTypeInv
    <2> QED BY <1>1, <2>2, <2>3
  <1>3. \A i, k \in DOMAIN queue' : queue'[i] = queue'[k] => i = k
    BY <1>1 DEF AvatarTypeInv, LockInv
  <1>4. \A i \in DOMAIN queue' : at'[queue'[i]] \in InThread \cup {"queued"}
    BY <1>1, <1>2 DEF AvatarTypeInv, LockInv
  <1>5. \A d \in Conn : at'[d] \notin InThread
    BY <1>1 DEF AvatarTypeInv, LockInv, Holder
  <1> QED BY <1>3, <1>4, <1>5 DEF LockInv

\* While one thread goes on, no other renders.
LEMMA RendersAlone ==
  ASSUME AvatarTypeInv, LockInv, NEW c \in Conn, Holder(c), NEW p, at' = [at EXCEPT ![c] = p],
         NEW d \in Conn, at'[d] = "run"
  PROVE  d = c /\ p = "run"
  BY DEF AvatarTypeInv, LockInv, Holder, InThread

\* State made for a live session is state of a live session.
LEMMA StateOfLive ==
  ASSUME AvatarTypeInv, RuntimeStateIsLive, NEW c \in Conn, at[c] # "closing",
         NEW s \in DOMAIN sessions, ~sessions[s].cancelled,
         DOMAIN kept' \subseteq DOMAIN kept \cup {s}, sessions' = sessions, sid' = sid,
         NEW p, at' = [at EXCEPT ![c] = p]
  PROVE  RuntimeStateIsLive'
  <1> SUFFICES ASSUME NEW k \in DOMAIN kept'
               PROVE  /\ k \in DOMAIN sessions
                      /\ sessions[k].cancelled => \E d \in Conn : at'[d] = "closing" /\ sid[d] = k
    BY DEF RuntimeStateIsLive
  <1>1. CASE k = s
    BY <1>1
  <1>2. CASE k \in DOMAIN kept
    <2>1. k \in DOMAIN sessions
      BY <1>2 DEF RuntimeStateIsLive
    <2>2. ASSUME sessions[k].cancelled
          PROVE  \E d \in Conn : at'[d] = "closing" /\ sid[d] = k
      <3>1. PICK d \in Conn : at[d] = "closing" /\ sid[d] = k
        BY <1>2, <2>2 DEF RuntimeStateIsLive
      <3>2. at'[d] = "closing"
        BY <3>1 DEF AvatarTypeInv
      <3> QED BY <3>1, <3>2
    <2> QED BY <2>1, <2>2
  <1> QED BY <1>1, <1>2

\* What create_session does to the sessions.
LEMMA CreateAdds ==
  ASSUME AvatarTypeInv, NEW c \in Conn, route[c] # "none", NEW s \in Free, Create(c, s)
  PROVE  /\ s \in SessionId /\ s # NoSession /\ s \notin DOMAIN sessions
         /\ \A d \in Conn : s \notin {sid[d], fresh[d]}
         /\ DOMAIN sessions' = DOMAIN sessions \cup {s}
         /\ \A k \in DOMAIN sessions : sessions'[k] = sessions[k]
         /\ \A k \in DOMAIN sessions' : sessions'[k] \in Session
         /\ ~sessions'[s].cancelled
         /\ route[c] = "clone" => sessions'[s].model = "fasterliveportrait"
  <1>1. PICK new \in NewSessions(c) : sessions' = SetAt(sessions, s, new)
    BY DEF Create
  <1>2. route[c] \in Routes
    BY DEF AvatarTypeInv
  <1> QED BY <1>1, <1>2, NewSessionIsTyped, FreeIsUnused DEF SetAt, AvatarTypeInv

\* A change of fields of a session that is there keeps the sessions typed.
LEMMA SessionChanges ==
  ASSUME AvatarTypeInv, NEW s \in DOMAIN sessions,
         \/ sessions' = [sessions EXCEPT ![s].cancelled = TRUE]
         \/ \E v \in Value : sessions' = [sessions EXCEPT ![s].value = v]
  PROVE  /\ DOMAIN sessions' = DOMAIN sessions
         /\ \A k \in DOMAIN sessions' : sessions'[k] \in Session
  <1>1. CASE sessions' = [sessions EXCEPT ![s].cancelled = TRUE]
    <2>1. sessions' = [sessions EXCEPT ![s] = [sessions[s] EXCEPT !.cancelled = TRUE]]
      BY <1>1
    <2>2. \A r \in Session : [r EXCEPT !.cancelled = TRUE] \in Session
      BY ONLY TRUE DEF Session
    <2>3. \A k \in DOMAIN sessions : sessions[k] \in Session
      BY DEF AvatarTypeInv
    <2>4. \A r \in Session : /\ DOMAIN [sessions EXCEPT ![s] = r] = DOMAIN sessions
                            /\ \A k \in DOMAIN sessions : [sessions EXCEPT ![s] = r][k] \in Session
      BY ONLY <2>3, s \in DOMAIN sessions
    <2>5. [sessions[s] EXCEPT !.cancelled = TRUE] \in Session
      BY ONLY <2>2, <2>3, s \in DOMAIN sessions
    <2> QED BY ONLY <2>1, <2>4, <2>5
  <1>2. ASSUME NEW v \in Value, sessions' = [sessions EXCEPT ![s].value = v]
        PROVE  /\ DOMAIN sessions' = DOMAIN sessions
               /\ \A k \in DOMAIN sessions' : sessions'[k] \in Session
    <2>1. sessions' = [sessions EXCEPT ![s] = [sessions[s] EXCEPT !.value = v]]
      BY <1>2
    <2>2. \A r \in Session : [r EXCEPT !.value = v] \in Session
      BY ONLY TRUE, v \in Value DEF Session
    <2>3. \A k \in DOMAIN sessions : sessions[k] \in Session
      BY DEF AvatarTypeInv
    <2>4. \A r \in Session : /\ DOMAIN [sessions EXCEPT ![s] = r] = DOMAIN sessions
                            /\ \A k \in DOMAIN sessions : [sessions EXCEPT ![s] = r][k] \in Session
      BY ONLY <2>3, s \in DOMAIN sessions
    <2>5. [sessions[s] EXCEPT !.value = v] \in Session
      BY ONLY <2>2, <2>3, s \in DOMAIN sessions
    <2> QED BY ONLY <2>1, <2>4, <2>5
  <1> QED BY <1>1, <1>2

\* InitMessage keeps the invariant.
LEMMA InitMessageKeeps ==
  ASSUME AvatarInv, NEW c \in Conn, InitMessage(c)
  PROVE  AvatarInv'
  <1> USE AvatarAssumption DEF AvatarInv, OwnInv, Target, InThread, InitMessage, CallClose, runtimeVars
  <1>1. AvatarTypeInv'
    BY DEF AvatarTypeInv, Place
  <1>2. LockInv'
    <2>1. PICK p \in {"closing", "create"} : at' = [at EXCEPT ![c] = p]
      OBVIOUS
    <2> QED BY <2>1, LockStays DEF Place
  <1>3. LoopInv'
    BY DEF AvatarTypeInv, LoopInv
  <1>4. OwnInv'
    BY DEF AvatarTypeInv, LockInv, LoopInv, Session
  <1>5. RuntimeStateIsLive'
    BY DEF AvatarTypeInv, LockInv, LoopInv, RuntimeStateIsLive, Session
  <1>6. SessionsAreOwned'
    BY DEF AvatarTypeInv, LockInv, LoopInv, SessionsAreOwned, Session
  <1>7. RendersOwn'
    BY DEF AvatarTypeInv, LockInv, RendersOwn, Session, Holder
  <1>8. CancelledStaysSilent'
    BY DEF AvatarTypeInv, LockInv, CancelledStaysSilent, Session, Holder
  <1> QED BY <1>1, <1>2, <1>3, <1>4, <1>5, <1>6, <1>7, <1>8

\* CreateFails keeps the invariant.
LEMMA CreateFailsKeeps ==
  ASSUME AvatarInv, NEW c \in Conn, CreateFails(c)
  PROVE  AvatarInv'
  <1> USE AvatarAssumption DEF AvatarInv, OwnInv, Target, InThread, CreateFails, runtimeVars
  <1>1. AvatarTypeInv'
    BY DEF AvatarTypeInv, Place
  <1>2. LockInv'
    BY LockStays DEF Place, AvatarTypeInv, LockInv
  <1>3. LoopInv'
    BY DEF AvatarTypeInv, LoopInv
  <1>4. OwnInv'
    BY DEF AvatarTypeInv, LockInv, LoopInv, Session
  <1>5. RuntimeStateIsLive'
    BY DEF AvatarTypeInv, LockInv, LoopInv, RuntimeStateIsLive, Session
  <1>6. SessionsAreOwned'
    BY DEF AvatarTypeInv, LockInv, LoopInv, SessionsAreOwned, Session
  <1>7. RendersOwn'
    BY DEF AvatarTypeInv, LockInv, RendersOwn, Session, Holder
  <1>8. CancelledStaysSilent'
    BY DEF AvatarTypeInv, LockInv, CancelledStaysSilent, Session, Holder
  <1> QED BY <1>1, <1>2, <1>3, <1>4, <1>5, <1>6, <1>7, <1>8

\* NewSession keeps the invariant.
LEMMA NewSessionKeeps ==
  ASSUME AvatarInv, NEW c \in Conn, NewSession(c)
  PROVE  AvatarInv'
  <1> USE DEF AvatarInv, Target
  <1>1. PICK s \in Free :
          /\ Create(c, s)
          /\ IF route[c] = "clone"
             THEN fresh' = [fresh EXCEPT ![c] = s] /\ UNCHANGED sid
             ELSE sid' = [sid EXCEPT ![c] = s] /\ UNCHANGED fresh
    BY DEF NewSession
  <1>2. /\ at[c] = "create" /\ loop' = NoConn /\ sid[c] = NoSession /\ fresh[c] = NoSession
        /\ route[c] \notin {"none", "preload"}
        /\ UNCHANGED <<route, kept, workers, building, source, setting, good, after>>
    BY DEF NewSession, runtimeVars, OwnInv, InThread
  <1>3. \/ Preloads(c) /\ Await(c, "preload")
        \/ ~Preloads(c) /\ at' = [at EXCEPT ![c] = "idle"] /\ queue' = queue /\ job' = job
    BY DEF NewSession
  <1>4. /\ s \in SessionId /\ s # NoSession /\ s \notin DOMAIN sessions
        /\ \A d \in Conn : s \notin {sid[d], fresh[d]}
        /\ DOMAIN sessions' = DOMAIN sessions \cup {s}
        /\ \A k \in DOMAIN sessions : sessions'[k] = sessions[k]
        /\ \A k \in DOMAIN sessions' : sessions'[k] \in Session
        /\ ~sessions'[s].cancelled
        /\ route[c] = "clone" => sessions'[s].model = "fasterliveportrait"
    BY <1>1, <1>2, CreateAdds
  <1>5. AvatarTypeInv'
    <2>1. queue' \in Seq(Conn)
      BY <1>3 DEF Await, AvatarTypeInv
    <2>3. at' \in [Conn -> Place]
      BY <1>3 DEF Await, AvatarTypeInv, Place
    <2>2. job' \in [Conn -> {"none", "preload", "frame", "audio", "config"}]
      BY <1>3 DEF Await, AvatarTypeInv
    <2> QED BY <1>1, <1>2, <1>4, <2>1, <2>2, <2>3 DEF AvatarTypeInv
  <1>6. LockInv'
    <2>1. CASE Await(c, "preload")
      BY <1>2, <2>1, LockWaits DEF Await, InThread
    <2>2. CASE at' = [at EXCEPT ![c] = "idle"] /\ queue' = queue
      BY <1>2, <2>2, LockStays DEF InThread, Place
    <2> QED BY <1>3, <2>1, <2>2
  <1>7. LoopInv'
    BY <1>2, <1>3, AvatarAssumption DEF Await, AvatarTypeInv, LoopInv
  <1>8. OwnInv'
    <2>1. CASE Preloads(c) /\ Await(c, "preload") /\ route[c] = "clone"
      BY <1>1, <1>2, <1>4, <2>1 DEF Await, OwnInv, AvatarTypeInv, InThread
    <2>2. CASE Preloads(c) /\ Await(c, "preload") /\ route[c] # "clone"
      BY <1>1, <1>2, <1>4, <2>2 DEF Await, OwnInv, AvatarTypeInv, InThread
    <2>3. CASE ~Preloads(c) /\ at' = [at EXCEPT ![c] = "idle"] /\ job' = job
      <3>1. route[c] # "clone"
        BY <2>3 DEF Preloads
      <3> QED BY <1>1, <1>2, <1>4, <2>3, <3>1 DEF OwnInv, AvatarTypeInv, InThread
    <2> QED BY <1>3, <2>1, <2>2, <2>3
  <1>9. RuntimeStateIsLive'
    <2> SUFFICES ASSUME NEW k \in DOMAIN kept
                 PROVE  /\ k \in DOMAIN sessions'
                        /\ sessions'[k].cancelled => \E d \in Conn : at'[d] = "closing" /\ sid'[d] = k
      BY <1>2 DEF RuntimeStateIsLive
    <2>1. k \in DOMAIN sessions /\ sessions'[k] = sessions[k]
      BY <1>4 DEF RuntimeStateIsLive
    <2>2. ASSUME sessions[k].cancelled
          PROVE  \E d \in Conn : at'[d] = "closing" /\ sid'[d] = k
      <3>1. PICK d \in Conn : at[d] = "closing" /\ sid[d] = k
        BY <2>2 DEF RuntimeStateIsLive
      <3>2. at'[d] = "closing" /\ sid'[d] = k
        BY <1>1, <1>2, <1>3, <3>1 DEF Await, AvatarTypeInv
      <3> QED BY <3>2
    <2> QED BY <1>4, <2>1, <2>2
  <1>10. SessionsAreOwned'
    <2> SUFFICES ASSUME NEW k \in DOMAIN sessions'
                 PROVE  \/ \E d \in Conn : k \in {sid'[d], fresh'[d]}
                        \/ sessions'[k].model = "fasterliveportrait" /\ "clone" \in Routes
      BY DEF SessionsAreOwned
    <2>1. CASE k = s
      BY <1>1, <2>1 DEF AvatarTypeInv
    <2>2. CASE k \in DOMAIN sessions
      <3>1. CASE \E d \in Conn : k \in {sid[d], fresh[d]}
        <4>1. PICK d \in Conn : k \in {sid[d], fresh[d]}
          BY <3>1
        <4>2. k # NoSession
          BY <2>2, AvatarAssumption DEF AvatarTypeInv
        <4>3. k \in {sid'[d], fresh'[d]}
          BY <1>1, <1>2, <4>1, <4>2 DEF AvatarTypeInv
        <4> QED BY <4>3
      <3> QED BY <1>4, <2>2, <3>1 DEF SessionsAreOwned
    <2> QED BY <1>4, <2>1, <2>2
  <1>11. \A d \in Conn : at'[d] \in {"enter", "build", "run"} =>
           at[d] = at'[d] /\ Target(d)' = Target(d) /\ sessions'[Target(d)] = sessions[Target(d)]
    <2> SUFFICES ASSUME NEW d \in Conn, at'[d] \in {"enter", "build", "run"}
                 PROVE  /\ at[d] = at'[d] /\ Target(d)' = Target(d)
                        /\ sessions'[Target(d)] = sessions[Target(d)]
      OBVIOUS
    <2>1. d # c /\ at[d] = at'[d]
      BY <1>3 DEF Await, AvatarTypeInv
    <2>2. Target(d)' = Target(d)
      BY <1>1, <2>1 DEF AvatarTypeInv
    <2>3. Target(d) \in DOMAIN sessions
      BY <2>1 DEF OwnInv
    <2> QED BY <1>4, <2>1, <2>2, <2>3
  <1>12. RendersOwn'
    BY <1>2, <1>11 DEF RendersOwn
  <1>13. CancelledStaysSilent'
    BY <1>11 DEF CancelledStaysSilent
  <1> QED BY <1>5, <1>6, <1>7, <1>8, <1>9, <1>10, <1>12, <1>13

\* CloseMessage keeps the invariant.
LEMMA CloseMessageKeeps ==
  ASSUME AvatarInv, NEW c \in Conn, CloseMessage(c)
  PROVE  AvatarInv'
  <1> USE AvatarAssumption DEF AvatarInv, OwnInv, Target, InThread, CloseMessage, CallClose, runtimeVars
  <1>1. AvatarTypeInv'
    BY DEF AvatarTypeInv, Place
  <1>2. LockInv'
    <2>1. PICK p \in {"closing", "create"} : at' = [at EXCEPT ![c] = p]
      OBVIOUS
    <2> QED BY <2>1, LockStays DEF Place
  <1>3. LoopInv'
    BY DEF AvatarTypeInv, LoopInv
  <1>4. OwnInv'
    BY DEF AvatarTypeInv, LockInv, LoopInv, Session
  <1>5. RuntimeStateIsLive'
    BY DEF AvatarTypeInv, LockInv, LoopInv, RuntimeStateIsLive, Session
  <1>6. SessionsAreOwned'
    BY DEF AvatarTypeInv, LockInv, LoopInv, SessionsAreOwned, Session
  <1>7. RendersOwn'
    BY DEF AvatarTypeInv, LockInv, RendersOwn, Session, Holder
  <1>8. CancelledStaysSilent'
    BY DEF AvatarTypeInv, LockInv, CancelledStaysSilent, Session, Holder
  <1> QED BY <1>1, <1>2, <1>3, <1>4, <1>5, <1>6, <1>7, <1>8

\* CancelMessage keeps the invariant.
LEMMA CancelMessageKeeps ==
  ASSUME AvatarInv, NEW c \in Conn, CancelMessage(c)
  PROVE  AvatarInv'
  <1> USE AvatarAssumption DEF AvatarInv, OwnInv, Target, InThread, CancelMessage, CallClose, runtimeVars
  <1>1. AvatarTypeInv'
    <2>1. sid[c] \in DOMAIN sessions
      OBVIOUS
    <2> QED BY <2>1, SessionChanges DEF AvatarTypeInv, Place
  <1>2. LockInv'
    BY LockStays DEF Place, AvatarTypeInv, LockInv
  <1>3. LoopInv'
    BY DEF AvatarTypeInv, LoopInv
  <1>4. OwnInv'
    BY DEF AvatarTypeInv, LockInv, LoopInv, Session
  <1>5. RuntimeStateIsLive'
    BY DEF AvatarTypeInv, LockInv, LoopInv, RuntimeStateIsLive, Session
  <1>6. SessionsAreOwned'
    BY DEF AvatarTypeInv, LockInv, LoopInv, SessionsAreOwned, Session
  <1>7. RendersOwn'
    BY DEF AvatarTypeInv, LockInv, RendersOwn, Session, Holder
  <1>8. CancelledStaysSilent'
    BY DEF AvatarTypeInv, LockInv, CancelledStaysSilent, Session, Holder
  <1> QED BY <1>1, <1>2, <1>3, <1>4, <1>5, <1>6, <1>7, <1>8

\* Closed keeps the invariant.
LEMMA ClosedKeeps ==
  ASSUME AvatarInv, NEW c \in Conn, Closed(c)
  PROVE  AvatarInv'
  <1> USE AvatarAssumption DEF AvatarInv, OwnInv, Target, InThread, Closed, Drop, SourceAfter
  <1>1. AvatarTypeInv'
    BY DEF AvatarTypeInv, Place
  <1>2. LockInv'
    BY LockStays DEF Place, AvatarTypeInv, LockInv
  <1>3. LoopInv'
    BY DEF AvatarTypeInv, LoopInv
  <1>4. OwnInv'
    BY DEF AvatarTypeInv, LockInv, LoopInv, Session
  <1>5. RuntimeStateIsLive'
    BY DEF AvatarTypeInv, LockInv, LoopInv, RuntimeStateIsLive, Session
  <1>6. SessionsAreOwned'
    BY DEF AvatarTypeInv, LockInv, LoopInv, SessionsAreOwned, Session
  <1>7. RendersOwn'
    BY DEF AvatarTypeInv, LockInv, RendersOwn, Session, Holder
  <1>8. CancelledStaysSilent'
    BY DEF AvatarTypeInv, LockInv, CancelledStaysSilent, Session, Holder
  <1> QED BY <1>1, <1>2, <1>3, <1>4, <1>5, <1>6, <1>7, <1>8

\* PushMessage keeps the invariant.
LEMMA PushMessageKeeps ==
  ASSUME AvatarInv, NEW c \in Conn, PushMessage(c)
  PROVE  AvatarInv'
  <1> USE AvatarAssumption DEF AvatarInv, OwnInv, Target, InThread, PushMessage, Await, runtimeVars
  <1>1. AvatarTypeInv'
    BY DEF AvatarTypeInv, Place
  <1>2. LockInv'
    BY LockWaits DEF AvatarTypeInv, LockInv
  <1>3. LoopInv'
    BY DEF AvatarTypeInv, LoopInv
  <1>4. OwnInv'
    BY DEF AvatarTypeInv, LockInv, LoopInv, Session
  <1>5. RuntimeStateIsLive'
    BY DEF AvatarTypeInv, LockInv, LoopInv, RuntimeStateIsLive, Session
  <1>6. SessionsAreOwned'
    BY DEF AvatarTypeInv, LockInv, LoopInv, SessionsAreOwned, Session
  <1>7. RendersOwn'
    BY DEF AvatarTypeInv, LockInv, RendersOwn, Session, Holder
  <1>8. CancelledStaysSilent'
    BY DEF AvatarTypeInv, LockInv, CancelledStaysSilent, Session, Holder
  <1> QED BY <1>1, <1>2, <1>3, <1>4, <1>5, <1>6, <1>7, <1>8

\* ConfigMessage keeps the invariant.
LEMMA ConfigMessageKeeps ==
  ASSUME AvatarInv, NEW c \in Conn, ConfigMessage(c)
  PROVE  AvatarInv'
  <1> USE AvatarAssumption DEF AvatarInv, OwnInv, Target, InThread, ConfigMessage, Await, runtimeVars
  <1>1. AvatarTypeInv'
    BY DEF AvatarTypeInv, Place
  <1>2. LockInv'
    BY LockWaits DEF AvatarTypeInv, LockInv
  <1>3. LoopInv'
    BY DEF AvatarTypeInv, LoopInv
  <1>4. OwnInv'
    BY DEF AvatarTypeInv, LockInv, LoopInv, Session
  <1>5. RuntimeStateIsLive'
    BY DEF AvatarTypeInv, LockInv, LoopInv, RuntimeStateIsLive, Session
  <1>6. SessionsAreOwned'
    BY DEF AvatarTypeInv, LockInv, LoopInv, SessionsAreOwned, Session
  <1>7. RendersOwn'
    BY DEF AvatarTypeInv, LockInv, RendersOwn, Session, Holder
  <1>8. CancelledStaysSilent'
    BY DEF AvatarTypeInv, LockInv, CancelledStaysSilent, Session, Holder
  <1> QED BY <1>1, <1>2, <1>3, <1>4, <1>5, <1>6, <1>7, <1>8

\* PreloadRequest keeps the invariant.
LEMMA PreloadRequestKeeps ==
  ASSUME AvatarInv, NEW c \in Conn, PreloadRequest(c)
  PROVE  AvatarInv'
  <1> USE AvatarAssumption DEF AvatarInv, OwnInv, Target, InThread, PreloadRequest, Await, runtimeVars
  <1>1. AvatarTypeInv'
    BY DEF AvatarTypeInv, Place
  <1>2. LockInv'
    BY LockWaits DEF AvatarTypeInv, LockInv
  <1>3. LoopInv'
    BY DEF AvatarTypeInv, LoopInv
  <1>4. OwnInv'
    BY DEF AvatarTypeInv, LockInv, LoopInv, Session
  <1>5. RuntimeStateIsLive'
    BY DEF AvatarTypeInv, LockInv, LoopInv, RuntimeStateIsLive, Session
  <1>6. SessionsAreOwned'
    BY DEF AvatarTypeInv, LockInv, LoopInv, SessionsAreOwned, Session
  <1>7. RendersOwn'
    BY DEF AvatarTypeInv, LockInv, RendersOwn, Session, Holder
  <1>8. CancelledStaysSilent'
    BY DEF AvatarTypeInv, LockInv, CancelledStaysSilent, Session, Holder
  <1> QED BY <1>1, <1>2, <1>3, <1>4, <1>5, <1>6, <1>7, <1>8

\* Disconnect keeps the invariant.
LEMMA DisconnectKeeps ==
  ASSUME AvatarInv, NEW c \in Conn, Disconnect(c)
  PROVE  AvatarInv'
  <1> USE AvatarAssumption DEF AvatarInv, OwnInv, Target, InThread, Disconnect, runtimeVars
  <1>1. AvatarTypeInv'
    BY DEF AvatarTypeInv, Place
  <1>2. LockInv'
    BY LockStays DEF Place, AvatarTypeInv, LockInv
  <1>3. LoopInv'
    BY DEF AvatarTypeInv, LoopInv
  <1>4. OwnInv'
    BY DEF AvatarTypeInv, LockInv, LoopInv, Session
  <1>5. RuntimeStateIsLive'
    BY DEF AvatarTypeInv, LockInv, LoopInv, RuntimeStateIsLive, Session
  <1>6. SessionsAreOwned'
    BY DEF AvatarTypeInv, LockInv, LoopInv, SessionsAreOwned, Session
  <1>7. RendersOwn'
    BY DEF AvatarTypeInv, LockInv, RendersOwn, Session, Holder
  <1>8. CancelledStaysSilent'
    BY DEF AvatarTypeInv, LockInv, CancelledStaysSilent, Session, Holder
  <1> QED BY <1>1, <1>2, <1>3, <1>4, <1>5, <1>6, <1>7, <1>8

\* Connect keeps the invariant.
LEMMA ConnectKeeps ==
  ASSUME AvatarInv, NEW c \in Conn, Connect(c)
  PROVE  AvatarInv'
  <1> USE AvatarAssumption DEF AvatarInv, OwnInv, Target, InThread, Connect, runtimeVars
  <1>1. AvatarTypeInv'
    BY DEF AvatarTypeInv, Place
  <1>2. LockInv'
    BY LockStays DEF Place, AvatarTypeInv, LockInv
  <1>3. LoopInv'
    BY DEF AvatarTypeInv, LoopInv
  <1>4. OwnInv'
    <2>1. PICK r \in Routes : route' = [route EXCEPT ![c] = r]
      OBVIOUS
    <2>2. r # "none"
      BY DEF Model
    <2> QED BY <2>1, <2>2 DEF AvatarTypeInv
  <1>5. RuntimeStateIsLive'
    BY DEF AvatarTypeInv, LockInv, LoopInv, RuntimeStateIsLive, Session
  <1>6. SessionsAreOwned'
    BY DEF AvatarTypeInv, LockInv, LoopInv, SessionsAreOwned, Session
  <1>7. RendersOwn'
    BY DEF AvatarTypeInv, LockInv, RendersOwn, Session, Holder
  <1>8. CancelledStaysSilent'
    BY DEF AvatarTypeInv, LockInv, CancelledStaysSilent, Session, Holder
  <1> QED BY <1>1, <1>2, <1>3, <1>4, <1>5, <1>6, <1>7, <1>8

\* Resume keeps the invariant.
LEMMA ResumeKeeps ==
  ASSUME AvatarInv, NEW c \in Conn, Resume(c)
  PROVE  AvatarInv'
  <1> USE AvatarAssumption DEF AvatarInv, OwnInv, Target, InThread, Resume, CallClose, runtimeVars
  <1>1. AvatarTypeInv'
    <2>1. queue' \in Seq(Conn)
      BY DEF AvatarTypeInv, LockInv, Holder
    <2>2. at' \in [Conn -> Place] /\ loop' \in Conn \cup {NoConn}
          /\ after' \in [Conn -> {"idle", "gone", "create", "cancelled"}]
      <3>1. \/ at' = [at EXCEPT ![c] = "closing"] /\ after' = [after EXCEPT ![c] = "idle"] /\ loop' = c
            \/ at' = [at EXCEPT ![c] = "idle"] /\ after' = after /\ loop' = loop
        OBVIOUS
      <3>2. /\ at \in [Conn -> Place] /\ loop \in Conn \cup {NoConn} /\ c \in Conn
            /\ after \in [Conn -> {"idle", "gone", "create", "cancelled"}]
            /\ "closing" \in Place /\ "idle" \in Place
        BY DEF AvatarTypeInv, Place
      <3> QED BY ONLY <3>1, <3>2
    <2>3. sid' \in [Conn -> SessionId \cup {NoSession}]
      BY DEF AvatarTypeInv
    <2> QED BY <2>1, <2>2, <2>3 DEF AvatarTypeInv
  <1>2. LockInv'
    <2>1. PICK p \in {"closing", "idle"} : at' = [at EXCEPT ![c] = p]
      OBVIOUS
    <2>2. Holder(c)
      BY DEF LockInv
    <2> QED BY <2>1, <2>2, LockPassesOn DEF Place
  <1>3. LoopInv'
    BY DEF AvatarTypeInv, LoopInv
  <1>4. OwnInv'
    BY DEF AvatarTypeInv, LockInv, LoopInv, Session
  <1>5. RuntimeStateIsLive'
    BY DEF AvatarTypeInv, LockInv, LoopInv, RuntimeStateIsLive, Session
  <1>6. SessionsAreOwned'
    BY DEF AvatarTypeInv, LockInv, LoopInv, SessionsAreOwned, Session
  <1>7. RendersOwn'
    BY DEF AvatarTypeInv, LockInv, RendersOwn, Session, Holder
  <1>8. CancelledStaysSilent'
    BY DEF AvatarTypeInv, LockInv, CancelledStaysSilent, Session, Holder
  <1> QED BY <1>1, <1>2, <1>3, <1>4, <1>5, <1>6, <1>7, <1>8

\* ServicePreload keeps the invariant: a step of its own for the session it makes.
LEMMA ServicePreloadKeeps ==
  ASSUME AvatarInv, NEW c \in Conn, ServicePreload(c)
  PROVE  AvatarInv'
  <1> USE DEF AvatarInv, Target
  <1>1. /\ at[c] = "queued" /\ Holder(c) /\ route[c] = "preload" /\ fresh[c] = NoSession
        /\ sid[c] = NoSession
        /\ UNCHANGED <<route, kept, workers, building, source, setting, queue, loop, sid, job, after>>
    BY DEF ServicePreload, runtimeVars, OwnInv
  <1>2. PICK p \in {"enter", "returned"} : at' = [at EXCEPT ![c] = p]
    BY <1>1 DEF ServicePreload, Return
  <1>3. \/ p = "returned" /\ sessions' = sessions /\ fresh' = fresh /\ good' = [good EXCEPT ![c] = FALSE]
        \/ /\ p = "enter" /\ good' = good
           /\ \E s \in Free : Create(c, s) /\ fresh' = [fresh EXCEPT ![c] = s]
    BY <1>1, <1>2 DEF ServicePreload, Return, AvatarTypeInv
  <1>4. LockInv'
    BY <1>1, <1>2, LockGoesOn DEF InThread
  <1>5. LoopInv'
    BY <1>1, <1>2 DEF AvatarTypeInv, LoopInv
  <1>6. \A d \in Conn : at'[d] \notin {"build", "run"}
    BY <1>1, <1>2 DEF AvatarTypeInv, LockInv, Holder, InThread
  <1>7. RendersOwn'
    BY <1>6 DEF RendersOwn
  <1>8. CASE p = "returned"
    <2>1. sessions' = sessions /\ fresh' = fresh /\ good' = [good EXCEPT ![c] = FALSE]
      BY <1>3, <1>8
    <2>2. AvatarTypeInv'
      BY <1>1, <1>2, <2>1 DEF AvatarTypeInv, Place
    <2>3. OwnInv'
      BY <1>1, <1>2, <1>8, <2>1 DEF AvatarTypeInv, OwnInv, InThread
    <2>4. RuntimeStateIsLive'
      BY <1>1, <1>2, <1>8, <2>1 DEF AvatarTypeInv, RuntimeStateIsLive
    <2>5. SessionsAreOwned'
      BY <1>1, <2>1 DEF SessionsAreOwned
    <2>6. CancelledStaysSilent'
      BY <1>1, <1>2, <1>8, <2>1 DEF AvatarTypeInv, CancelledStaysSilent
    <2> QED BY <1>4, <1>5, <1>7, <2>2, <2>3, <2>4, <2>5, <2>6
  <1>9. CASE p = "enter"
    <2>1. PICK s \in Free : Create(c, s) /\ fresh' = [fresh EXCEPT ![c] = s]
      BY <1>3, <1>9
    <2>2. /\ s \in SessionId /\ s # NoSession /\ s \notin DOMAIN sessions
          /\ \A d \in Conn : s \notin {sid[d], fresh[d]}
          /\ DOMAIN sessions' = DOMAIN sessions \cup {s}
          /\ \A k \in DOMAIN sessions : sessions'[k] = sessions[k]
          /\ \A k \in DOMAIN sessions' : sessions'[k] \in Session
          /\ ~sessions'[s].cancelled
      BY <1>1, <2>1, CreateAdds
    <2>3. AvatarTypeInv'
      BY <1>1, <1>2, <1>3, <1>9, <2>1, <2>2 DEF AvatarTypeInv, Place
    <2>4. OwnInv'
      BY <1>1, <1>2, <1>9, <2>1, <2>2 DEF AvatarTypeInv, OwnInv, InThread
    <2>5. RuntimeStateIsLive'
      <3> SUFFICES ASSUME NEW k \in DOMAIN kept
                   PROVE  /\ k \in DOMAIN sessions'
                          /\ sessions'[k].cancelled => \E d \in Conn : at'[d] = "closing" /\ sid[d] = k
        BY <1>1 DEF RuntimeStateIsLive
      <3>1. k \in DOMAIN sessions /\ sessions'[k] = sessions[k]
        BY <2>2 DEF RuntimeStateIsLive
      <3>2. ASSUME sessions[k].cancelled
            PROVE  \E d \in Conn : at'[d] = "closing" /\ sid[d] = k
        <4>1. PICK d \in Conn : at[d] = "closing" /\ sid[d] = k
          BY <3>2 DEF RuntimeStateIsLive
        <4>2. at'[d] = "closing"
          BY <1>1, <1>2, <4>1 DEF AvatarTypeInv
        <4> QED BY <4>1, <4>2
      <3> QED BY <2>2, <3>1, <3>2
    <2>6. SessionsAreOwned'
      <3> SUFFICES ASSUME NEW k \in DOMAIN sessions'
                   PROVE  \/ \E d \in Conn : k \in {sid[d], fresh'[d]}
                          \/ sessions'[k].model = "fasterliveportrait" /\ "clone" \in Routes
        BY <1>1 DEF SessionsAreOwned
      <3>1. CASE k = s
        BY <2>1, <3>1 DEF AvatarTypeInv
      <3>2. CASE k \in DOMAIN sessions /\ \E d \in Conn : k \in {sid[d], fresh[d]}
        <4>1. PICK d \in Conn : k \in {sid[d], fresh[d]}
          BY <3>2
        <4>2. k # NoSession
          BY <3>2, AvatarAssumption DEF AvatarTypeInv
        <4> QED BY <1>1, <2>1, <4>1, <4>2 DEF AvatarTypeInv
      <3> QED BY <2>2, <3>1, <3>2 DEF SessionsAreOwned
    <2>7. CancelledStaysSilent'
      <3> SUFFICES ASSUME NEW d \in Conn, at'[d] \in {"enter", "build", "run"}
                   PROVE  ~sessions'[Target(d)'].cancelled
        BY DEF CancelledStaysSilent
      <3>1. d = c
        BY <1>1, <1>2 DEF AvatarTypeInv, LockInv, Holder, InThread
      <3>2. Target(d)' = s
        BY <2>1, <2>2, <3>1 DEF AvatarTypeInv
      <3> QED BY <2>2, <3>2
    <2> QED BY <1>4, <1>5, <1>7, <2>3, <2>4, <2>5, <2>6, <2>7
  <1> QED BY <1>2, <1>8, <1>9

\* Check keeps the invariant.
LEMMA CheckKeeps ==
  ASSUME AvatarInv, NEW c \in Conn, Check(c)
  PROVE  AvatarInv'
  <1> USE AvatarAssumption DEF AvatarInv, OwnInv, Target, InThread, Check, Return, Refuses, runtimeVars
  <1>1. AvatarTypeInv'
    BY DEF AvatarTypeInv, Place
  <1>2. LockInv'
    BY LockGoesOn DEF Holder, AvatarTypeInv, LockInv
  <1>3. LoopInv'
    BY DEF AvatarTypeInv, LoopInv
  <1>4. OwnInv'
    BY DEF AvatarTypeInv, LockInv, LoopInv, Session
  <1>5. RuntimeStateIsLive'
    BY DEF AvatarTypeInv, LockInv, LoopInv, RuntimeStateIsLive, Session
  <1>6. SessionsAreOwned'
    BY DEF AvatarTypeInv, LockInv, LoopInv, SessionsAreOwned, Session
  <1>7. RendersOwn'
    BY DEF AvatarTypeInv, LockInv, RendersOwn, Session, Holder
  <1>8. CancelledStaysSilent'
    <2>1. CASE at' = [at EXCEPT ![c] = "enter"] /\ ~(job[c] # "preload" /\ sessions[Target(c)].cancelled)
      <3>1. CASE job[c] # "preload"
        BY <2>1, <3>1 DEF AvatarTypeInv, CancelledStaysSilent
      <3>2. CASE job[c] = "preload"
        BY <2>1, <3>2 DEF AvatarTypeInv, CancelledStaysSilent
      <3> QED BY <3>1, <3>2
    <2>2. CASE at'[c] \in {"finally", "returned"}
      BY <2>2 DEF AvatarTypeInv, CancelledStaysSilent
    <2> QED BY <2>1, <2>2 DEF AvatarTypeInv
  <1> QED BY <1>1, <1>2, <1>3, <1>4, <1>5, <1>6, <1>7, <1>8

\* UpdateConfig keeps the invariant.
LEMMA UpdateConfigKeeps ==
  ASSUME AvatarInv, NEW c \in Conn, UpdateConfig(c)
  PROVE  AvatarInv'
  <1> USE AvatarAssumption DEF AvatarInv, OwnInv, Target, InThread, UpdateConfig, Return, runtimeVars
  <1>1. AvatarTypeInv'
    <2>1. sid[c] \in DOMAIN sessions
      BY DEF AvatarTypeInv
    <2>2. DOMAIN sessions' = DOMAIN sessions /\ \A k \in DOMAIN sessions' : sessions'[k] \in Session
      BY <2>1, SessionChanges DEF AvatarTypeInv
    <2> QED BY <2>2 DEF AvatarTypeInv, Place
  <1>2. LockInv'
    BY LockGoesOn DEF Holder, AvatarTypeInv, LockInv
  <1>3. LoopInv'
    BY DEF AvatarTypeInv, LoopInv
  <1>4. OwnInv'
    BY DEF AvatarTypeInv, LockInv, LoopInv, Session
  <1>5. RuntimeStateIsLive'
    BY DEF AvatarTypeInv, LockInv, LoopInv, RuntimeStateIsLive, Session
  <1>6. SessionsAreOwned'
    BY DEF AvatarTypeInv, LockInv, LoopInv, SessionsAreOwned, Session
  <1>7. RendersOwn'
    BY DEF AvatarTypeInv, LockInv, RendersOwn, Session, Holder
  <1>8. CancelledStaysSilent'
    BY DEF AvatarTypeInv, LockInv, CancelledStaysSilent, Session, Holder
  <1> QED BY <1>1, <1>2, <1>3, <1>4, <1>5, <1>6, <1>7, <1>8

\* EnterWav2Lip keeps the invariant.
LEMMA EnterWav2LipKeeps ==
  ASSUME AvatarInv, NEW c \in Conn, EnterWav2Lip(c)
  PROVE  AvatarInv'
  <1> USE AvatarAssumption DEF AvatarInv, OwnInv, Target, InThread, EnterWav2Lip, SetAt, Return, Enters
  <1>1. AvatarTypeInv'
    BY DEF AvatarTypeInv, Place
  <1>2. LockInv'
    BY LockGoesOn DEF Holder, AvatarTypeInv, LockInv
  <1>3. LoopInv'
    BY DEF AvatarTypeInv, LoopInv
  <1>4. OwnInv'
    BY DEF AvatarTypeInv, LockInv, LoopInv, Session
  <1>5. RuntimeStateIsLive'
    <2>1. Target(c) \in DOMAIN sessions /\ ~sessions[Target(c)].cancelled
      BY DEF CancelledStaysSilent
    <2>2. DOMAIN kept' \subseteq DOMAIN kept \cup {Target(c)}
      OBVIOUS
    <2>3. PICK p \in Place : at' = [at EXCEPT ![c] = p]
      BY DEF Place
    <2>4. /\ sessions' = sessions /\ sid' = sid /\ at[c] # "closing" /\ c \in Conn
          /\ AvatarTypeInv /\ RuntimeStateIsLive
      OBVIOUS
    <2> QED BY ONLY <2>1, <2>2, <2>3, <2>4, StateOfLive
  <1>6. SessionsAreOwned'
    BY DEF AvatarTypeInv, LockInv, LoopInv, SessionsAreOwned, Session
  <1>7. RendersOwn'
    BY DEF AvatarTypeInv, LockInv, RendersOwn, Session, Holder
  <1>8. CancelledStaysSilent'
    BY DEF AvatarTypeInv, LockInv, CancelledStaysSilent, Session, Holder
  <1> QED BY <1>1, <1>2, <1>3, <1>4, <1>5, <1>6, <1>7, <1>8

\* EnterFlashTalk keeps the invariant.
LEMMA EnterFlashTalkKeeps ==
  ASSUME AvatarInv, NEW c \in Conn, EnterFlashTalk(c)
  PROVE  AvatarInv'
  <1> USE AvatarAssumption DEF AvatarInv, OwnInv, Target, InThread, EnterFlashTalk, runtimeVars, Enters
  <1>1. AvatarTypeInv'
    BY DEF AvatarTypeInv, Place
  <1>2. LockInv'
    BY LockGoesOn DEF Holder, AvatarTypeInv, LockInv
  <1>3. LoopInv'
    BY DEF AvatarTypeInv, LoopInv
  <1>4. OwnInv'
    BY DEF AvatarTypeInv, LockInv, LoopInv, Session
  <1>5. RuntimeStateIsLive'
    BY DEF AvatarTypeInv, LockInv, LoopInv, RuntimeStateIsLive, Session
  <1>6. SessionsAreOwned'
    BY DEF AvatarTypeInv, LockInv, LoopInv, SessionsAreOwned, Session
  <1>7. RendersOwn'
    BY DEF AvatarTypeInv, LockInv, RendersOwn, Session, Holder
  <1>8. CancelledStaysSilent'
    BY DEF AvatarTypeInv, LockInv, CancelledStaysSilent, Session, Holder
  <1> QED BY <1>1, <1>2, <1>3, <1>4, <1>5, <1>6, <1>7, <1>8

\* EnterQuickTalk keeps the invariant.
LEMMA EnterQuickTalkKeeps ==
  ASSUME AvatarInv, NEW c \in Conn, EnterQuickTalk(c)
  PROVE  AvatarInv'
  <1> USE AvatarAssumption DEF AvatarInv, OwnInv, Target, InThread, EnterQuickTalk, SetAt, MakesState, Enters
  <1>0. \/ /\ at' = [at EXCEPT ![c] = "run"] /\ building' = building
           /\ \E i \in DOMAIN workers : /\ workers[i] = sessions[Target(c)].ref
                                       /\ workers' = Append(RemoveAt(workers, i), workers[i])
        \/ at' = [at EXCEPT ![c] = "build"] /\ building' = c /\ workers' = workers
    OBVIOUS
  <1>1. AvatarTypeInv'
    <2>1. ASSUME NEW i \in DOMAIN workers
          PROVE  Append(RemoveAt(workers, i), workers[i]) \in Seq(Ref)
      BY DEF RemoveAt, AvatarTypeInv
    <2>2. workers' \in Seq(Ref)
      BY ONLY <1>0, <2>1, AvatarTypeInv DEF AvatarTypeInv
    <2>3. at' \in [Conn -> Place] /\ building' \in Conn \cup {NoConn}
      BY <1>0 DEF AvatarTypeInv, Place
    <2> QED BY <2>2, <2>3 DEF AvatarTypeInv
  <1>2. LockInv'
    BY LockGoesOn DEF Holder, AvatarTypeInv, LockInv
  <1>3. LoopInv'
    BY DEF AvatarTypeInv, LoopInv
  <1>4. OwnInv'
    BY DEF AvatarTypeInv, LockInv, LoopInv, Session
  <1>5. RuntimeStateIsLive'
    <2>1. Target(c) \in DOMAIN sessions /\ ~sessions[Target(c)].cancelled
      BY DEF CancelledStaysSilent
    <2>2. DOMAIN kept' \subseteq DOMAIN kept \cup {Target(c)}
      OBVIOUS
    <2>3. PICK p \in Place : at' = [at EXCEPT ![c] = p]
      BY DEF Place
    <2>4. /\ sessions' = sessions /\ sid' = sid /\ at[c] # "closing" /\ c \in Conn
          /\ AvatarTypeInv /\ RuntimeStateIsLive
      OBVIOUS
    <2> QED BY ONLY <2>1, <2>2, <2>3, <2>4, StateOfLive
  <1>6. SessionsAreOwned'
    BY DEF AvatarTypeInv, LockInv, LoopInv, SessionsAreOwned, Session
  <1>7. RendersOwn'
    <2>1. Holder(c)
      BY DEF LockInv
    <2>2. ASSUME NEW i \in DOMAIN workers
          PROVE  Contains(Append(RemoveAt(workers, i), workers[i]), workers[i])
      <3>1. RemoveAt(workers, i) \in Seq(Ref) /\ workers[i] \in Ref
        BY DEF RemoveAt, AvatarTypeInv
      <3> DEFINE others == RemoveAt(workers, i)
      <3> HIDE DEF others
      <3>2. /\ Len(Append(others, workers[i])) = Len(others) + 1
            /\ Append(others, workers[i])[Len(others) + 1] = workers[i]
            /\ Len(others) + 1 \in 1 .. Len(others) + 1
        BY <3>1 DEF others
      <3> QED BY <3>2 DEF Contains, others
    <2>3. at'[c] = "run" => Contains(workers', sessions[Target(c)].ref)
      <3>1. at \in [Conn -> Place] /\ "run" # "build"
        BY DEF AvatarTypeInv
      <3>2. at'[c] = "run" => ~(at' = [at EXCEPT ![c] = "build"])
        BY ONLY <3>1, c \in Conn
      <3> HIDE DEF Target
      <3> QED BY ONLY <1>0, <2>2, <3>2
    <2>4. \A d \in Conn : at'[d] = "run" => d = c
      <3>1. PICK p \in Place : at' = [at EXCEPT ![c] = p]
        BY <1>0 DEF Place
      <3>2. AvatarTypeInv /\ LockInv /\ c \in Conn
        OBVIOUS
      <3> QED BY ONLY <2>1, <3>1, <3>2, RendersAlone
    <2> QED BY <2>3, <2>4 DEF RendersOwn
  <1>8. CancelledStaysSilent'
    BY DEF AvatarTypeInv, LockInv, CancelledStaysSilent, Session, Holder
  <1> QED BY <1>1, <1>2, <1>3, <1>4, <1>5, <1>6, <1>7, <1>8

\* Built keeps the invariant.
LEMMA BuiltKeeps ==
  ASSUME AvatarInv, NEW c \in Conn, Built(c)
  PROVE  AvatarInv'
  <1> USE AvatarAssumption DEF AvatarInv, OwnInv, Target, InThread, Built, SetAt, MakesState
  <1>1. AvatarTypeInv'
    <2>1. sessions[Target(c)].ref \in Ref
      BY DEF AvatarTypeInv, Session
    <2>2. workers' \in Seq(Ref)
      BY <2>1 DEF AvatarTypeInv
    <2>3. at' \in [Conn -> Place]
      BY DEF AvatarTypeInv, Place
    <2> QED BY <2>2, <2>3 DEF AvatarTypeInv
  <1>2. LockInv'
    BY LockGoesOn DEF Holder, AvatarTypeInv, LockInv
  <1>3. LoopInv'
    BY DEF AvatarTypeInv, LoopInv
  <1>4. OwnInv'
    BY DEF AvatarTypeInv, LockInv, LoopInv, Session
  <1>5. RuntimeStateIsLive'
    <2>1. Target(c) \in DOMAIN sessions /\ ~sessions[Target(c)].cancelled
      BY DEF CancelledStaysSilent
    <2>2. DOMAIN kept' \subseteq DOMAIN kept \cup {Target(c)}
      OBVIOUS
    <2>3. PICK p \in Place : at' = [at EXCEPT ![c] = p]
      BY DEF Place
    <2>4. /\ sessions' = sessions /\ sid' = sid /\ at[c] # "closing" /\ c \in Conn
          /\ AvatarTypeInv /\ RuntimeStateIsLive
      OBVIOUS
    <2> QED BY ONLY <2>1, <2>2, <2>3, <2>4, StateOfLive
  <1>6. SessionsAreOwned'
    BY DEF AvatarTypeInv, LockInv, LoopInv, SessionsAreOwned, Session
  <1>7. RendersOwn'
    <2>1. Holder(c)
      BY DEF LockInv
    <2> DEFINE r  == sessions[Target(c)].ref
               ws == Append(workers, r)
               first == IF Len(ws) > CacheMax THEN Len(ws) - CacheMax + 1 ELSE 1
    <2>2. r \in Ref
      BY DEF AvatarTypeInv, Session
    <2>3. ws \in Seq(Ref) /\ Len(ws) > 0 /\ ws[Len(ws)] = r /\ first \in 1 .. Len(ws)
      BY <2>2 DEF AvatarTypeInv
    <2>4. workers' = SubSeq(ws, first, Len(ws))
      OBVIOUS
    <2>5. Contains(workers', r)
      <3> DEFINE n == Len(ws) - first + 1
      <3>1. n \in Nat \ {0}
        BY <2>3
      <3> HIDE DEF ws, first, r
      <3>2. Len(workers') = n /\ workers'[n] = ws[Len(ws)]
        BY ONLY <2>3, <2>4, <3>1
      <3> HIDE DEF n
      <3> QED BY ONLY <2>3, <3>1, <3>2 DEF Contains
    <2>6. \A d \in Conn : at'[d] = "run" => d = c
      <3>1. PICK p \in Place : at' = [at EXCEPT ![c] = p]
        BY DEF Place
      <3>2. AvatarTypeInv /\ LockInv /\ c \in Conn
        OBVIOUS
      <3> QED BY ONLY <2>1, <3>1, <3>2, RendersAlone
    <2>7. \A d \in Conn : at'[d] = "run" => sessions'[Target(d)'].model = "quicktalk"
      BY <2>6 DEF AvatarTypeInv
    <2>8. Contains(workers', sessions'[Target(c)'].ref)
      BY <2>5 DEF AvatarTypeInv
    <2> QED BY <2>6, <2>7, <2>8 DEF RendersOwn
  <1>8. CancelledStaysSilent'
    BY DEF AvatarTypeInv, LockInv, CancelledStaysSilent, Session, Holder
  <1> QED BY <1>1, <1>2, <1>3, <1>4, <1>5, <1>6, <1>7, <1>8

\* BuildFails keeps the invariant.
LEMMA BuildFailsKeeps ==
  ASSUME AvatarInv, NEW c \in Conn, BuildFails(c)
  PROVE  AvatarInv'
  <1> USE AvatarAssumption DEF AvatarInv, OwnInv, Target, InThread, BuildFails, Return
  <1>1. AvatarTypeInv'
    BY DEF AvatarTypeInv, Place
  <1>2. LockInv'
    BY LockGoesOn DEF Holder, AvatarTypeInv, LockInv
  <1>3. LoopInv'
    BY DEF AvatarTypeInv, LoopInv
  <1>4. OwnInv'
    BY DEF AvatarTypeInv, LockInv, LoopInv, Session
  <1>5. RuntimeStateIsLive'
    BY DEF AvatarTypeInv, LockInv, LoopInv, RuntimeStateIsLive, Session
  <1>6. SessionsAreOwned'
    BY DEF AvatarTypeInv, LockInv, LoopInv, SessionsAreOwned, Session
  <1>7. RendersOwn'
    BY DEF AvatarTypeInv, LockInv, RendersOwn, Session, Holder
  <1>8. CancelledStaysSilent'
    BY DEF AvatarTypeInv, LockInv, CancelledStaysSilent, Session, Holder
  <1> QED BY <1>1, <1>2, <1>3, <1>4, <1>5, <1>6, <1>7, <1>8

\* EnterPortrait keeps the invariant.
LEMMA EnterPortraitKeeps ==
  ASSUME AvatarInv, NEW c \in Conn, EnterPortrait(c)
  PROVE  AvatarInv'
  <1> USE AvatarAssumption DEF AvatarInv, OwnInv, Target, InThread, EnterPortrait, SetAt, Return, Enters
  <1>1. AvatarTypeInv'
    BY DEF AvatarTypeInv, Place
  <1>2. LockInv'
    BY LockGoesOn DEF Holder, AvatarTypeInv, LockInv
  <1>3. LoopInv'
    BY DEF AvatarTypeInv, LoopInv
  <1>4. OwnInv'
    BY DEF AvatarTypeInv, LockInv, LoopInv, Session
  <1>5. RuntimeStateIsLive'
    <2>1. Target(c) \in DOMAIN sessions /\ ~sessions[Target(c)].cancelled
      BY DEF CancelledStaysSilent
    <2>2. DOMAIN kept' \subseteq DOMAIN kept \cup {Target(c)}
      OBVIOUS
    <2>3. PICK p \in Place : at' = [at EXCEPT ![c] = p]
      BY DEF Place
    <2>4. /\ sessions' = sessions /\ sid' = sid /\ at[c] # "closing" /\ c \in Conn
          /\ AvatarTypeInv /\ RuntimeStateIsLive
      OBVIOUS
    <2> QED BY ONLY <2>1, <2>2, <2>3, <2>4, StateOfLive
  <1>6. SessionsAreOwned'
    BY DEF AvatarTypeInv, LockInv, LoopInv, SessionsAreOwned, Session
  <1>7. RendersOwn'
    <2>1. Holder(c)
      BY DEF LockInv
    <2>2. \A d \in Conn : at'[d] = "run" => d = c
      BY <2>1, RendersAlone
    <2>3. at'[c] = "run" => source' = Target(c)
      BY DEF SourceReady, AvatarTypeInv
    <2>4. sessions[Target(c)].value \in {NoValue, setting'}
      BY DEF Applied
    <2> QED BY <2>2, <2>3, <2>4 DEF RendersOwn
  <1>8. CancelledStaysSilent'
    BY DEF AvatarTypeInv, LockInv, CancelledStaysSilent, Session, Holder
  <1> QED BY <1>1, <1>2, <1>3, <1>4, <1>5, <1>6, <1>7, <1>8

\* RunEnds keeps the invariant.
LEMMA RunEndsKeeps ==
  ASSUME AvatarInv, NEW c \in Conn, RunEnds(c)
  PROVE  AvatarInv'
  <1> USE AvatarAssumption DEF AvatarInv, OwnInv, Target, InThread, RunEnds, Return, runtimeVars
  <1>1. AvatarTypeInv'
    BY DEF AvatarTypeInv, Place
  <1>2. LockInv'
    BY LockGoesOn DEF Holder, AvatarTypeInv, LockInv
  <1>3. LoopInv'
    BY DEF AvatarTypeInv, LoopInv
  <1>4. OwnInv'
    BY DEF AvatarTypeInv, LockInv, LoopInv, Session
  <1>5. RuntimeStateIsLive'
    BY DEF AvatarTypeInv, LockInv, LoopInv, RuntimeStateIsLive, Session
  <1>6. SessionsAreOwned'
    BY DEF AvatarTypeInv, LockInv, LoopInv, SessionsAreOwned, Session
  <1>7. RendersOwn'
    BY DEF AvatarTypeInv, LockInv, RendersOwn, Session, Holder
  <1>8. CancelledStaysSilent'
    BY DEF AvatarTypeInv, LockInv, CancelledStaysSilent, Session, Holder
  <1> QED BY <1>1, <1>2, <1>3, <1>4, <1>5, <1>6, <1>7, <1>8

\* FinallyClose keeps the invariant.
LEMMA FinallyCloseKeeps ==
  ASSUME AvatarInv, NEW c \in Conn, FinallyClose(c)
  PROVE  AvatarInv'
  <1> USE AvatarAssumption DEF AvatarInv, OwnInv, Target, InThread, FinallyClose, Drop, SourceAfter
  <1>1. AvatarTypeInv'
    BY DEF AvatarTypeInv, Place
  <1>2. LockInv'
    BY LockGoesOn DEF Holder, AvatarTypeInv, LockInv
  <1>3. LoopInv'
    BY DEF AvatarTypeInv, LoopInv
  <1>4. OwnInv'
    BY DEF AvatarTypeInv, LockInv, LoopInv, Session
  <1>5. RuntimeStateIsLive'
    BY DEF AvatarTypeInv, LockInv, LoopInv, RuntimeStateIsLive, Session
  <1>6. SessionsAreOwned'
    BY DEF AvatarTypeInv, LockInv, LoopInv, SessionsAreOwned, Session
  <1>7. RendersOwn'
    BY DEF AvatarTypeInv, LockInv, RendersOwn, Session, Holder
  <1>8. CancelledStaysSilent'
    BY DEF AvatarTypeInv, LockInv, CancelledStaysSilent, Session, Holder
  <1> QED BY <1>1, <1>2, <1>3, <1>4, <1>5, <1>6, <1>7, <1>8

----------------------------------------------------------------------------
\* The initial states.
LEMMA AvatarInitInv == AvatarInit => AvatarInv
  <1> SUFFICES ASSUME AvatarInit PROVE AvatarInv
    OBVIOUS
  <1> USE AvatarAssumption DEF AvatarInit
  <1>1. AvatarTypeInv
    BY DEF AvatarTypeInv, Place
  <1>2. LockInv /\ LoopInv /\ OwnInv
    BY DEF LockInv, LoopInv, OwnInv, InThread
  <1>3. RuntimeStateIsLive /\ SessionsAreOwned /\ RendersOwn /\ CancelledStaysSilent
    BY DEF RuntimeStateIsLive, SessionsAreOwned, RendersOwn, CancelledStaysSilent
  <1> QED BY <1>1, <1>2, <1>3 DEF AvatarInv

\* Every step keeps the invariant.
LEMMA AvatarNextInv == AvatarInv /\ [AvatarNext]_avatarVars => AvatarInv'
  <1> SUFFICES ASSUME AvatarInv, [AvatarNext]_avatarVars PROVE AvatarInv'
    OBVIOUS
  <1>1. ASSUME NEW c \in Conn, LoopStep(c)
        PROVE  AvatarInv'
    BY <1>1, CreateFailsKeeps, NewSessionKeeps, ClosedKeeps, ResumeKeeps DEF LoopStep
  <1>2. ASSUME NEW c \in Conn, ThreadStep(c)
        PROVE  AvatarInv'
    BY <1>2, ServicePreloadKeeps, CheckKeeps, UpdateConfigKeeps, EnterWav2LipKeeps,
       EnterFlashTalkKeeps, EnterQuickTalkKeeps, EnterPortraitKeeps, BuiltKeeps, BuildFailsKeeps,
       RunEndsKeeps, FinallyCloseKeeps DEF ThreadStep
  <1>3. ASSUME NEW c \in Conn, Message(c)
        PROVE  AvatarInv'
    BY <1>3, InitMessageKeeps, CloseMessageKeeps, CancelMessageKeeps, PushMessageKeeps,
       ConfigMessageKeeps, PreloadRequestKeeps, DisconnectKeeps, ConnectKeeps DEF Message
  <1>4. CASE UNCHANGED avatarVars
    BY <1>4 DEF avatarVars, AvatarInv, AvatarTypeInv, LockInv, LoopInv, OwnInv, Target, Holder,
       RuntimeStateIsLive, SessionsAreOwned, RendersOwn, CancelledStaysSilent
  <1> QED BY <1>1, <1>2, <1>3, <1>4 DEF AvatarNext

\* Every reachable state satisfies the invariant.
LEMMA AvatarInvariant == AvatarSpec => []AvatarInv
  <1> QED BY AvatarInitInv, AvatarNextInv, PTL DEF AvatarSpec

\* The runtimes keep state of live sessions only, in whichever way a session ends
\* while threads of others are in the runtime (close_session, cancel_session,
\* preload_reference).
THEOREM StateEndsWithSession == AvatarSpec => []RuntimeStateIsLive
  <1>1. AvatarInv => RuntimeStateIsLive
    BY DEF AvatarInv
  <1> QED BY <1>1, AvatarInvariant, PTL

\* No session is forgotten, but those of a failed video-clone preload.
THEOREM NoSessionForgotten == AvatarSpec => []SessionsAreOwned
  <1>1. AvatarInv => SessionsAreOwned
    BY DEF AvatarInv
  <1> QED BY <1>1, AvatarInvariant, PTL

\* A chunk is rendered with the session's own image, settings and worker, though the
\* runtimes share one pipeline and a bounded cache of workers.
THEOREM RendersWithItsOwn == AvatarSpec => []RendersOwn
  <1>1. AvatarInv => RendersOwn
    BY DEF AvatarInv
  <1> QED BY <1>1, AvatarInvariant, PTL

-------------------------------------------------------------------------------
(* What a runtime remembers of the audio of a session.                     *)

\* The chunks after the first a, up to the b-th.
Chunks(a, b) == [i \in 1 .. b - a |-> a + i]

\* Wav2Lip's history is all that was pushed, and it was never ahead.
CatchesUp ==
    runtime = "wav2lip" => Len(history) = pushed /\ emitted <= MelFrames(pushed)

\* QuickTalk: what was shown comes before what waits, which comes before what the
\* client sends next; once a look-ahead waits there is always one.
LooksAhead ==
    runtime = "quicktalk" =>
        /\ Len(pending) <= 1 /\ (Lookahead = 0 => pending = << >>)
        /\ live =>
              /\ \A i \in DOMAIN shown : shown[i] <= pushed
              /\ pending # << >> => Head(pending) <= pushed
              /\ Lookahead > 0 /\ pending = << >> => shown = << >>

\* The buffer is the latest chunks, at least a window of them or all.
Latest ==
    runtime \in {"portrait", "musetalk"} =>
        \E k \in 0 .. pushed :
            /\ history = Chunks(k, pushed)
            /\ k = 0 \/ (Kept > 0 /\ pushed - k >= Kept)
            /\ ok => k = (IF Kept > 0 /\ pushed > Kept THEN pushed - Kept ELSE 0)

AudioTypeInv ==
    /\ runtime \in {"wav2lip", "quicktalk", "portrait", "musetalk"}
    /\ {ok, live} \subseteq BOOLEAN /\ span \in Nat
    /\ pushed \in Nat /\ emitted \in Nat
    /\ history \in Seq(Nat) /\ pending \in Seq(Nat) /\ shown \in Seq(Nat)

AudioInv ==
    /\ AudioTypeInv /\ CatchesUp /\ LooksAhead /\ Latest
    /\ SpeechInStep /\ RenderedOnce /\ WarmupForgotten

\* The last elements of a sequence are some of its elements.
LEMMA OnLast ==
  ASSUME NEW S, NEW s \in Seq(S), NEW n \in Nat
  PROVE  /\ LastOf(s, n) \in Seq(S)
         /\ \A i \in DOMAIN LastOf(s, n) : \E k \in DOMAIN s : LastOf(s, n)[i] = s[k]
  <1> DEFINE m == Len(s)
             a == IF n > 0 /\ m > n THEN m - n + 1 ELSE 1
  <1>1. /\ m \in Nat /\ a \in Int /\ 1 <= a /\ DOMAIN s = 1 .. m
        /\ \A i \in a .. m : i \in DOMAIN s /\ s[i] \in S
    OBVIOUS
  <1>2. LastOf(s, n) = SubSeq(s, a, m)
    BY DEF LastOf
  <1> HIDE DEF m, a
  <1>3. /\ SubSeq(s, a, m) \in Seq(S)
        /\ Len(SubSeq(s, a, m)) = IF a <= m THEN m - a + 1 ELSE 0
        /\ \A i \in 1 .. m - a + 1 : SubSeq(s, a, m)[i] = s[a + i - 1]
    BY <1>1, SubSeqProperties
  <1>4. ASSUME NEW i \in DOMAIN SubSeq(s, a, m)
        PROVE  \E k \in DOMAIN s : SubSeq(s, a, m)[i] = s[k]
    <2>1. DOMAIN SubSeq(s, a, m) = 1 .. Len(SubSeq(s, a, m))
      BY <1>3
    <2>2. i \in 1 .. m - a + 1 /\ a + i - 1 \in 1 .. m
      BY <1>1, <1>3, <2>1
    <2> QED BY <1>1, <1>3, <2>2
  <1> QED BY <1>2, <1>3, <1>4

\* A row of chunks, grown by the next one.
LEMMA ChunksGrow ==
  ASSUME NEW b \in Nat, NEW a \in 0 .. b
  PROVE  /\ Chunks(a, b) \in Seq(Nat) /\ Len(Chunks(a, b)) = b - a
         /\ Append(Chunks(a, b), b + 1) = Chunks(a, b + 1)
  <1>1. b - a \in Nat /\ b + 1 - a = b - a + 1 /\ \A i \in 1 .. b - a : a + i \in Nat
    OBVIOUS
  <1>2. Chunks(a, b) \in Seq(Nat) /\ Len(Chunks(a, b)) = b - a
    BY <1>1 DEF Chunks
  <1>3. /\ Append(Chunks(a, b), b + 1) \in Seq(Nat)
        /\ Len(Append(Chunks(a, b), b + 1)) = b - a + 1
        /\ \A i \in 1 .. b - a : Append(Chunks(a, b), b + 1)[i] = Chunks(a, b)[i]
        /\ Append(Chunks(a, b), b + 1)[b - a + 1] = b + 1
    BY <1>2, AppendProperties
  <1>4. Chunks(a, b + 1) \in Seq(Nat) /\ Len(Chunks(a, b + 1)) = b - a + 1
    BY <1>1 DEF Chunks
  <1>5. \A i \in 1 .. b - a + 1 : Append(Chunks(a, b), b + 1)[i] = Chunks(a, b + 1)[i]
    <2> SUFFICES ASSUME NEW i \in 1 .. b - a + 1
                 PROVE  Append(Chunks(a, b), b + 1)[i] = Chunks(a, b + 1)[i]
      OBVIOUS
    <2>1. Chunks(a, b + 1)[i] = a + i
      BY <1>1 DEF Chunks
    <2>2. CASE i \in 1 .. b - a
      <3>1. Chunks(a, b)[i] = a + i
        BY <2>2 DEF Chunks
      <3> QED BY <1>3, <2>1, <2>2, <3>1
    <2>3. CASE i \notin 1 .. b - a
      <3>1. i = b - a + 1 /\ a + i = b + 1
        BY <1>1, <2>3
      <3> QED BY <1>3, <2>1, <3>1
    <2> QED BY <2>2, <2>3
  <1> QED BY <1>2, <1>3, <1>4, <1>5, SeqEqual

\* The last of a row of chunks.
LEMMA LastChunks ==
  ASSUME NEW b \in Nat, NEW a \in 0 .. b, NEW n \in Nat
  PROVE  LastOf(Chunks(a, b), n) = Chunks(IF n > 0 /\ b - a > n THEN b - n ELSE a, b)
  <1> DEFINE s == Chunks(a, b)
             m == b - a
             c == IF n > 0 /\ m > n THEN b - n ELSE a
             from == IF n > 0 /\ m > n THEN m - n + 1 ELSE 1
  <1>1. /\ s \in Seq(Nat) /\ Len(s) = m /\ m \in Nat
        /\ \A i \in 1 .. m : s[i] = a + i /\ s[i] \in Nat
    BY ChunksGrow DEF Chunks
  <1>2. LastOf(s, n) = SubSeq(s, from, m)
    BY <1>1 DEF LastOf
  <1>3. /\ from \in Int /\ m \in Int /\ c \in Nat /\ c \in 0 .. b
        /\ \A i \in from .. m : s[i] \in Nat
        /\ m - from + 1 = b - c /\ from <= m + 1
        /\ \A i \in 1 .. b - c : from + i - 1 \in 1 .. m /\ a + (from + i - 1) = c + i
    <2>1. CASE n > 0 /\ m > n
      <3>1. from = m - n + 1 /\ c = b - n /\ b = a + m /\ b - c = n /\ m - from + 1 = n
        BY <1>1, <2>1
      <3> HIDE DEF from, c
      <3> QED BY <1>1, <2>1, <3>1
    <2>2. CASE ~(n > 0 /\ m > n)
      <3>1. from = 1 /\ c = a /\ b = a + m /\ b - c = m
        BY <1>1, <2>2
      <3> HIDE DEF from, c
      <3> QED BY <1>1, <3>1
    <2> QED BY <2>1, <2>2
  <1> HIDE DEF s, from
  <1>4. /\ SubSeq(s, from, m) \in Seq(Nat)
        /\ Len(SubSeq(s, from, m)) = IF from <= m THEN m - from + 1 ELSE 0
        /\ \A i \in 1 .. m - from + 1 : SubSeq(s, from, m)[i] = s[from + i - 1]
    BY <1>3, SubSeqProperties
  <1> HIDE DEF m, c
  <1>5. Len(SubSeq(s, from, m)) = b - c
    BY <1>1, <1>3, <1>4
  <1>6. \A i \in 1 .. b - c : SubSeq(s, from, m)[i] = c + i
    BY <1>1, <1>3, <1>4
  <1>7. Chunks(c, b) \in Seq(Nat) /\ Len(Chunks(c, b)) = b - c
    BY <1>3, ChunksGrow
  <1>8. \A i \in 1 .. b - c : Chunks(c, b)[i] = c + i
    BY DEF Chunks
  <1>9. SubSeq(s, from, m) = Chunks(c, b)
    <2> DEFINE p == SubSeq(s, from, m)
               q == Chunks(c, b)
    <2>1. p \in Seq(Nat) /\ q \in Seq(Nat) /\ Len(p) = Len(q)
      BY <1>4, <1>5, <1>7, Zenon
    <2>2. ASSUME NEW i \in 1 .. b - c PROVE p[i] = q[i]
      BY <1>6, <1>8, Zenon
    <2>3. \A i \in 1 .. Len(p) : p[i] = q[i]
      BY <1>5, <2>2, Zenon
    <2> HIDE DEF p, q
    <2>4. p = q
      BY ONLY <2>1, <2>3, SeqEqual
    <2> QED BY <2>4 DEF p, q
  <1> QED BY <1>2, <1>9 DEF s, c, m

\* Frames only become more.
LEMMA MelFramesGrow ==
  ASSUME NEW n \in Nat
  PROVE  /\ MelFrames(n) \in Nat /\ MelFrames(n + 1) \in Nat
         /\ MelFrames(n) <= MelFrames(n + 1) /\ MelFrames(0) = 0
  <1>1. FramesPerChunk \in Nat /\ MelTail \in Nat
    BY StreamAssumption
  <1> DEFINE f == n * FramesPerChunk
             g == (n + 1) * FramesPerChunk
  <1>2. f \in Nat /\ g \in Nat /\ g = f + FramesPerChunk /\ 0 * FramesPerChunk = 0
    BY <1>1, Z3
  <1> HIDE DEF f, g
  <1>3. /\ MelFrames(n) = IF f > MelTail THEN f - MelTail ELSE 0
        /\ MelFrames(n + 1) = IF g > MelTail THEN g - MelTail ELSE 0
        /\ MelFrames(0) = IF 0 > MelTail THEN 0 - MelTail ELSE 0
    BY <1>2 DEF MelFrames, f, g
  <1> QED BY <1>1, <1>2, <1>3

\* The next chunk of a Wav2Lip session.
LEMMA Wav2LipKeeps ==
  ASSUME AudioInv, Wav2LipChunk
  PROVE  AudioInv'
  <1>1. /\ AudioTypeInv /\ runtime = "wav2lip" /\ Len(history) = pushed
        /\ emitted <= MelFrames(pushed) /\ pushed \in Nat /\ emitted \in Nat
        /\ history \in Seq(Nat)
    BY DEF AudioInv, AudioTypeInv, CatchesUp, Wav2LipChunk
  <1>2. /\ pushed' = pushed + 1 /\ history' = Append(history, pushed + 1) /\ ok' \in BOOLEAN
        /\ emitted' = IF ok' /\ MelFrames(Len(history')) > emitted
                      THEN MelFrames(Len(history')) ELSE emitted
        /\ UNCHANGED <<runtime, span, pending, shown, live>>
    BY DEF Wav2LipChunk, NextChunk
  <1>3. history' \in Seq(Nat) /\ Len(history') = pushed + 1
    BY <1>1, <1>2
  <1>4. /\ MelFrames(pushed) \in Nat /\ MelFrames(pushed + 1) \in Nat
        /\ MelFrames(pushed) <= MelFrames(pushed + 1)
    BY <1>1, MelFramesGrow
  <1>5. /\ emitted' \in Nat /\ emitted' <= MelFrames(pushed + 1)
        /\ ok' => emitted' = MelFrames(pushed + 1)
    BY <1>1, <1>2, <1>3, <1>4
  <1>6. MelFrames(pushed)' = MelFrames(pushed + 1)
    BY <1>2 DEF MelFrames
  <1>7. AudioTypeInv'
    BY <1>1, <1>2, <1>3, <1>5 DEF AudioTypeInv
  <1>8. CatchesUp' /\ SpeechInStep'
    BY <1>2, <1>3, <1>5, <1>6 DEF CatchesUp, SpeechInStep
  <1>9. runtime' = "wav2lip"
    BY <1>1, <1>2
  <1> QED BY <1>7, <1>8, <1>9
    DEF AudioInv, LooksAhead, Latest, RenderedOnce, WarmupForgotten

\* The buffers, trimmed or not.
LEMMA BufferKeeps ==
  ASSUME AudioInv, PortraitChunk \/ MuseTalkChunk
  PROVE  AudioInv'
  <1>1. /\ AudioTypeInv /\ Latest /\ runtime \in {"portrait", "musetalk"}
        /\ pushed \in Nat /\ Kept \in Nat
    BY DEF AudioInv, AudioTypeInv, PortraitChunk, MuseTalkChunk, Kept
  <1>2. PICK k \in 0 .. pushed :
            history = Chunks(k, pushed) /\ (k = 0 \/ (Kept > 0 /\ pushed - k >= Kept))
    BY <1>1 DEF Latest
  <1> DEFINE n == pushed + 1
             buffer == Append(history, n)
  <1>3. /\ pushed' = n /\ ok' \in BOOLEAN
        /\ history' = LastOf(buffer, Kept) \/ (~ok' /\ history' = buffer)
        /\ UNCHANGED <<runtime, span, pending, emitted, shown, live>>
    BY DEF PortraitChunk, MuseTalkChunk, NextChunk
  <1>4. buffer = Chunks(k, n) /\ n \in Nat /\ k \in 0 .. n /\ (k = 0 \/ (Kept > 0 /\ n - k >= Kept))
    <2>1. Append(Chunks(k, pushed), pushed + 1) = Chunks(k, pushed + 1)
      BY <1>1, ChunksGrow
    <2>2. n \in Nat /\ k \in 0 .. n /\ (k = 0 \/ (Kept > 0 /\ n - k >= Kept))
      BY <1>1, <1>2
    <2> QED BY <1>2, <2>1, <2>2
  <1> DEFINE c == IF Kept > 0 /\ n - k > Kept THEN n - Kept ELSE k
  <1>5. LastOf(buffer, Kept) = Chunks(c, n)
    BY <1>1, <1>4, LastChunks
  <1>6. /\ c \in 0 .. n /\ (c = 0 \/ (Kept > 0 /\ n - c >= Kept))
        /\ c = (IF Kept > 0 /\ n > Kept THEN n - Kept ELSE 0)
    BY <1>1, <1>2, <1>4
  <1> HIDE DEF n, buffer, c
  <1>7. \E i \in 0 .. n : /\ history' = Chunks(i, n)
                          /\ i = 0 \/ (Kept > 0 /\ n - i >= Kept)
                          /\ ok' => i = (IF Kept > 0 /\ n > Kept THEN n - Kept ELSE 0)
    BY <1>3, <1>4, <1>5, <1>6
  <1>8. history' \in Seq(Nat)
    BY <1>4, <1>7, ChunksGrow
  <1>9. AudioTypeInv'
    BY <1>1, <1>3, <1>4, <1>8 DEF AudioTypeInv
  <1>10. Latest'
    BY <1>3, <1>7 DEF Latest, Chunks, Kept
  <1>11. runtime' \notin {"wav2lip", "quicktalk"}
    BY <1>1, <1>3
  <1> QED BY <1>9, <1>10, <1>11
    DEF AudioInv, CatchesUp, LooksAhead, SpeechInStep, RenderedOnce, WarmupForgotten

\* What one call does to QuickTalk's state: the look-ahead is filled, or nothing
\* happens, or the chunk in turn is rendered, and shown unless the frames fail.
InTurn(chunk) == IF Lookahead > 0 THEN Head(pending) ELSE chunk

LEMMA OnStreams ==
  ASSUME AudioTypeInv, LooksAhead, runtime = "quicktalk", NEW chunk \in Nat, Streams(chunk)
  PROVE  /\ ok' \in BOOLEAN /\ emitted' \in Nat
         /\ history' \in Seq(Nat) /\ pending' \in Seq(Nat) /\ shown' \in Seq(Nat)
         /\ Len(pending') <= 1 /\ (Lookahead = 0 => pending' = << >>)
         /\ \/ /\ Lookahead > 0 /\ pending = << >> /\ pending' = <<chunk>>
               /\ UNCHANGED <<history, shown>>
            \/ /\ Lookahead = 0 \/ pending # << >>
               /\ UNCHANGED <<history, pending, shown>>
            \/ /\ Lookahead = 0 \/ pending # << >>
               /\ history' = LastOf(Append(history, InTurn(chunk)), span)
               /\ pending' = IF Lookahead > 0 THEN <<chunk>> ELSE << >>
               /\ shown' = shown \/ shown' = Append(shown, InTurn(chunk))
  <1>1. /\ ok \in BOOLEAN /\ emitted \in Nat /\ history \in Seq(Nat) /\ pending \in Seq(Nat)
        /\ shown \in Seq(Nat) /\ Len(pending) <= 1 /\ (Lookahead = 0 => pending = << >>)
        /\ FramesPerChunk \in Nat /\ span \in Nat /\ Lookahead \in Nat
    BY StreamAssumption DEF AudioTypeInv, LooksAhead
  <1>2. CASE Lookahead > 0 /\ pending = << >>
    <2>1. /\ pending' = <<chunk>> /\ ok' = TRUE /\ UNCHANGED <<history, emitted, shown>>
      BY <1>2 DEF Streams
    <2> QED BY <1>1, <1>2, <2>1
  <1>3. CASE ~(Lookahead > 0 /\ pending = << >>)
    <2>1. Lookahead = 0 \/ pending # << >>
      BY <1>1, <1>3
    <2>2. CASE ok' = FALSE /\ UNCHANGED <<history, pending, emitted, shown>>
      BY <1>1, <2>1, <2>2
    <2>3. CASE /\ history' = LastOf(Append(history, InTurn(chunk)), span)
               /\ pending' = IF Lookahead > 0 THEN <<chunk>> ELSE << >>
               /\ \/ /\ ok' = TRUE /\ emitted' = emitted + FramesPerChunk
                     /\ shown' = Append(shown, InTurn(chunk))
                  \/ /\ ok' = FALSE /\ emitted' \in emitted .. emitted + FramesPerChunk
                     /\ UNCHANGED shown
      <3>1. InTurn(chunk) \in Nat
        BY <1>1, <2>1 DEF InTurn
      <3>2. Append(history, InTurn(chunk)) \in Seq(Nat) /\ Append(shown, InTurn(chunk)) \in Seq(Nat)
        BY <1>1, <3>1
      <3>3. history' \in Seq(Nat)
        BY <1>1, <2>3, <3>2, OnLast
      <3>4. ok' \in BOOLEAN /\ emitted' \in Nat /\ shown' \in Seq(Nat)
        <4>1. emitted + FramesPerChunk \in Nat /\ emitted .. emitted + FramesPerChunk \subseteq Nat
          BY <1>1
        <4> QED BY <1>1, <2>3, <3>2, <4>1
      <3>5. pending' \in Seq(Nat) /\ Len(pending') <= 1 /\ (Lookahead = 0 => pending' = << >>)
        BY <1>1, <2>3
      <3> QED BY <2>1, <2>3, <3>3, <3>4, <3>5
    <2> QED BY <1>3, <2>2, <2>3 DEF Streams, InTurn
  <1> QED BY <1>2, <1>3

\* The next chunk of a QuickTalk session.
LEMMA QuickTalkKeeps ==
  ASSUME AudioInv, QuickTalkChunk
  PROVE  AudioInv'
  <1> DEFINE n == pushed + 1
             r == InTurn(n)
  <1>1. /\ AudioTypeInv /\ LooksAhead /\ RenderedOnce /\ WarmupForgotten
        /\ runtime = "quicktalk" /\ live /\ Streams(n)
        /\ pushed' = n /\ UNCHANGED <<runtime, span, live>>
    BY DEF AudioInv, QuickTalkChunk, NextChunk
  <1>2. /\ pushed \in Nat /\ n \in Nat /\ Lookahead \in Nat /\ span \in Nat
        /\ history \in Seq(Nat) /\ pending \in Seq(Nat) /\ shown \in Seq(Nat)
        /\ Len(pending) <= 1 /\ (Lookahead = 0 => pending = << >>)
        /\ \A i \in DOMAIN shown : shown[i] <= pushed /\ shown[i] > 0
        /\ \A i, k \in DOMAIN shown : i < k => shown[i] < shown[k]
        /\ \A i \in DOMAIN history : history[i] > 0
        /\ pending # << >> => /\ Head(pending) <= pushed /\ Head(pending) > 0
                              /\ \A i \in DOMAIN shown : shown[i] < Head(pending)
        /\ Lookahead > 0 /\ pending = << >> => shown = << >>
    <2>1. pending # << >> /\ pending \in Seq(Nat) => 1 \in DOMAIN pending /\ Head(pending) = pending[1]
      OBVIOUS
    <2> QED
      BY <1>1, <2>1, StreamAssumption DEF AudioTypeInv, LooksAhead, RenderedOnce, WarmupForgotten
  <1>3. /\ ok' \in BOOLEAN /\ emitted' \in Nat
        /\ history' \in Seq(Nat) /\ pending' \in Seq(Nat) /\ shown' \in Seq(Nat)
        /\ Len(pending') <= 1 /\ (Lookahead = 0 => pending' = << >>)
        /\ \/ /\ Lookahead > 0 /\ pending = << >> /\ pending' = <<n>>
              /\ UNCHANGED <<history, shown>>
           \/ /\ Lookahead = 0 \/ pending # << >>
              /\ UNCHANGED <<history, pending, shown>>
           \/ /\ Lookahead = 0 \/ pending # << >>
              /\ history' = LastOf(Append(history, r), span)
              /\ pending' = IF Lookahead > 0 THEN <<n>> ELSE << >>
              /\ shown' = shown \/ shown' = Append(shown, r)
    BY <1>1, <1>2, OnStreams
  <1> HIDE DEF r
  <1>4. AudioTypeInv'
    BY <1>1, <1>2, <1>3 DEF AudioTypeInv
  <1>5. /\ \A i \in DOMAIN shown' : shown'[i] <= n /\ shown'[i] > 0
        /\ \A i, k \in DOMAIN shown' : i < k => shown'[i] < shown'[k]
        /\ \A i \in DOMAIN history' : history'[i] > 0
        /\ pending' # << >> => /\ Head(pending') <= n
                               /\ \A i \in DOMAIN shown' : shown'[i] < Head(pending')
        /\ \A i \in DOMAIN pending' : pending'[i] > 0
        /\ Lookahead > 0 /\ pending' = << >> => shown' = << >>
    <2>1. CASE /\ Lookahead > 0 /\ pending = << >> /\ pending' = <<n>>
               /\ UNCHANGED <<history, shown>>
      BY <1>2, <2>1
    <2>2. CASE UNCHANGED <<history, pending, shown>> /\ (Lookahead = 0 \/ pending # << >>)
      <3>1. \A i \in DOMAIN pending : pending[i] = Head(pending) /\ pending # << >>
        BY <1>2
      <3> QED BY <1>2, <2>2, <3>1
    <2>3. CASE /\ Lookahead = 0 \/ pending # << >>
               /\ history' = LastOf(Append(history, r), span)
               /\ pending' = IF Lookahead > 0 THEN <<n>> ELSE << >>
               /\ shown' = shown \/ shown' = Append(shown, r)
      <3>1. /\ r \in Nat /\ r > 0 /\ r <= n /\ (Lookahead > 0 => r < n)
            /\ \A i \in DOMAIN shown : shown[i] < r
        <4>1. CASE Lookahead > 0
          BY <1>2, <2>3, <4>1 DEF r, InTurn
        <4>2. CASE Lookahead = 0
          BY <1>2, <2>3, <4>2 DEF r, InTurn
        <4> QED BY <1>2, <4>1, <4>2
      <3>2. /\ \A i \in DOMAIN shown' : shown'[i] <= r /\ shown'[i] > 0
            /\ \A i, k \in DOMAIN shown' : i < k => shown'[i] < shown'[k]
        <4>1. CASE shown' = shown
          BY <1>2, <3>1, <4>1
        <4>2. CASE shown' = Append(shown, r)
          <5>1. /\ DOMAIN shown = 1 .. Len(shown) /\ Len(shown) \in Nat
                /\ DOMAIN shown' = 1 .. Len(shown) + 1
                /\ \A i \in 1 .. Len(shown) : shown'[i] = shown[i]
                /\ shown'[Len(shown) + 1] = r
            BY <1>2, <3>1, <4>2
          <5>2. \A i \in DOMAIN shown' : i \in DOMAIN shown \/ i = Len(shown) + 1
            BY <5>1
          <5>3. \A i \in DOMAIN shown : /\ shown'[i] = shown[i] /\ shown[i] < r /\ shown[i] > 0
                                        /\ shown[i] \in Nat
            BY <1>2, <3>1, <5>1
          <5>4. \A i \in DOMAIN shown' : shown'[i] <= r /\ shown'[i] > 0
            BY <3>1, <5>1, <5>2, <5>3
          <5>5. ASSUME NEW i \in DOMAIN shown', NEW k \in DOMAIN shown', i < k
                PROVE  shown'[i] < shown'[k]
            <6>1. i \in DOMAIN shown
              BY <5>1, <5>5
            <6>2. CASE k \in DOMAIN shown
              BY <1>2, <5>3, <5>5, <6>1, <6>2
            <6>3. CASE k = Len(shown) + 1
              BY <5>1, <5>3, <6>1, <6>3
            <6> QED BY <5>2, <6>2, <6>3
          <5> QED BY <5>4, <5>5
        <4> QED BY <2>3, <4>1, <4>2
      <3>3. \A i \in DOMAIN history' : history'[i] > 0
        <4> DEFINE all == Append(history, r)
        <4>1. all \in Seq(Nat) /\ \A k \in DOMAIN all : all[k] > 0
          <5>1. /\ DOMAIN history = 1 .. Len(history) /\ Len(history) \in Nat
                /\ DOMAIN all = 1 .. Len(history) + 1
                /\ \A i \in 1 .. Len(history) : all[i] = history[i]
                /\ all[Len(history) + 1] = r /\ all \in Seq(Nat)
            BY <1>2, <3>1
          <5>2. \A i \in DOMAIN all : i \in DOMAIN history \/ i = Len(history) + 1
            BY <5>1
          <5> QED BY <1>2, <3>1, <5>1, <5>2
        <4> HIDE DEF all
        <4>2. \A i \in DOMAIN LastOf(all, span) :
                  \E k \in DOMAIN all : LastOf(all, span)[i] = all[k]
          BY <1>2, <4>1, OnLast
        <4>3. history' = LastOf(all, span)
          BY <2>3 DEF all
        <4> QED BY <4>1, <4>2, <4>3
      <3>4. Lookahead > 0 => /\ Head(pending') = n /\ pending' # << >> /\ n > 0
                             /\ \A i \in DOMAIN pending' : pending'[i] = n
        BY <1>2, <2>3
      <3>5. Lookahead = 0 => pending' = << >>
        BY <1>2, <2>3
      <3>6. \A i \in DOMAIN shown' : shown'[i] \in Nat
        BY <1>3
      <3>7. Lookahead = 0 \/ Lookahead > 0
        BY <1>2
      <3> HIDE DEF n
      <3> QED BY <1>2, <3>1, <3>2, <3>3, <3>4, <3>5, <3>6, <3>7
    <2> QED BY <1>3, <2>1, <2>2, <2>3
  <1>6. LooksAhead' /\ RenderedOnce' /\ WarmupForgotten'
    BY <1>1, <1>3, <1>5 DEF LooksAhead, RenderedOnce, WarmupForgotten
  <1>7. runtime' = "quicktalk"
    BY <1>1
  <1> QED BY <1>4, <1>6, <1>7 DEF AudioInv, CatchesUp, Latest, SpeechInStep

\* The warm-up and its end.
LEMMA WarmupKeeps ==
  ASSUME AudioInv, Warmup \/ Reset \/ PreloadAgain
  PROVE  AudioInv'
  <1>1. /\ AudioTypeInv /\ LooksAhead /\ runtime = "quicktalk" /\ ~live
        /\ UNCHANGED <<runtime, span, pushed>>
    BY DEF AudioInv, Warmup, Reset, PreloadAgain
  <1>2. CASE Warmup
    <2>1. live' = live /\ Streams(0)
      BY <1>2 DEF Warmup
    <2>2. /\ ok' \in BOOLEAN /\ emitted' \in Nat
          /\ history' \in Seq(Nat) /\ pending' \in Seq(Nat) /\ shown' \in Seq(Nat)
          /\ Len(pending') <= 1 /\ (Lookahead = 0 => pending' = << >>)
      BY <1>1, <2>1, OnStreams
    <2>3. AudioTypeInv' /\ LooksAhead'
      BY <1>1, <2>1, <2>2 DEF AudioTypeInv, LooksAhead
    <2> QED BY <1>1, <2>1, <2>3
      DEF AudioInv, CatchesUp, Latest, SpeechInStep, RenderedOnce, WarmupForgotten
  <1>3. CASE Reset \/ PreloadAgain
    <2>1. /\ history' = << >> /\ pending' = << >> /\ shown' = << >> /\ emitted' = 0
          /\ ok' \in BOOLEAN /\ live' \in BOOLEAN
      BY <1>1, <1>3 DEF Reset, PreloadAgain, Fresh, AudioTypeInv
    <2>2. AudioTypeInv' /\ LooksAhead' /\ RenderedOnce' /\ WarmupForgotten'
      BY <1>1, <2>1 DEF AudioTypeInv, LooksAhead, RenderedOnce, WarmupForgotten
    <2> QED BY <1>1, <2>2 DEF AudioInv, CatchesUp, Latest, SpeechInStep
  <1> QED BY <1>2, <1>3

\* What a session keeps of its audio is what its client pushed, for any length of the
\* context (0 as well), look-ahead and frame rate: through failed calls and the warm-up
\* (the stream state of the runtimes and of the MuseTalk server).
THEOREM AudioIsKept == StreamSpec => []AudioKept
  <1>1. StreamInit => AudioInv
    <2> SUFFICES ASSUME StreamInit PROVE AudioInv
      OBVIOUS
    <2>1. /\ AudioTypeInv /\ LooksAhead /\ RenderedOnce /\ WarmupForgotten
      BY StreamAssumption DEF StreamInit, AudioTypeInv, LooksAhead, RenderedOnce, WarmupForgotten
    <2>2. MelFrames(0) = 0
      BY MelFramesGrow
    <2>3. CatchesUp /\ SpeechInStep
      BY <2>2 DEF StreamInit, CatchesUp, SpeechInStep
    <2>4. Latest
      <3>1. Chunks(0, 0) = << >>
        BY DEF Chunks
      <3>2. Kept \in Nat
        BY StreamAssumption DEF StreamInit, Kept
      <3> QED BY <3>1, <3>2 DEF StreamInit, Latest
    <2> QED BY <2>1, <2>3, <2>4 DEF AudioInv
  <1>2. AudioInv /\ [StreamNext]_streamVars => AudioInv'
    <2> SUFFICES ASSUME AudioInv, [StreamNext]_streamVars PROVE AudioInv'
      OBVIOUS
    <2>1. CASE UNCHANGED streamVars
      BY <2>1 DEF streamVars, AudioInv, AudioTypeInv, CatchesUp, LooksAhead, Latest, SpeechInStep,
                  RenderedOnce, WarmupForgotten, MelFrames, Chunks, Kept
    <2> QED BY <2>1, Wav2LipKeeps, BufferKeeps, QuickTalkKeeps, WarmupKeeps DEF StreamNext
  <1>3. AudioInv => AudioKept
    <2> SUFFICES ASSUME AudioInv PROVE BufferIsLatest
      BY DEF AudioInv, AudioKept
    <2> SUFFICES ASSUME runtime \in {"portrait", "musetalk"}, ok
                 PROVE  history = LastOf([i \in 1 .. pushed |-> i], Kept)
      BY DEF BufferIsLatest
    <2>1. pushed \in Nat /\ Kept \in Nat
      BY DEF AudioInv, AudioTypeInv, Kept
    <2>2. history = Chunks(IF Kept > 0 /\ pushed > Kept THEN pushed - Kept ELSE 0, pushed)
      BY DEF AudioInv, Latest
    <2>3. [i \in 1 .. pushed |-> i] = Chunks(0, pushed)
      BY <2>1 DEF Chunks
    <2>4. LastOf(Chunks(0, pushed), Kept)
            = Chunks(IF Kept > 0 /\ pushed - 0 > Kept THEN pushed - Kept ELSE 0, pushed)
      BY <2>1, LastChunks
    <2>5. pushed - 0 = pushed
      BY <2>1
    <2> QED BY <2>2, <2>3, <2>4, <2>5
  <1> QED BY <1>1, <1>2, <1>3, PTL DEF StreamSpec
===============================================================================
