--------------------------- MODULE FlashTalkProofs ---------------------------
(***************************************************************************)
(* The ranks of the FlashTalk server, for any number of ranks, connections *)
(* and images: until two messages cross, no rank waits in a collective     *)
(* that rank 0 is not in, unless rank 0 gave it up, and then nothing is    *)
(* rendered any more (RanksInStep); and the ranks of a start-up over       *)
(* different images render the same banks (SameRender).                    *)
(*                                                                         *)
(* The audio of a session, for every size of the buffer and of the chunks, *)
(* any avatars and any bank: the circular buffer is a window on the latest *)
(* samples (WindowIsRecent), and a session shows its own avatar only       *)
(* (OwnAvatarOnly).                                                        *)
(***************************************************************************)
EXTENDS FlashTalkServer, IdlePreload, FlashTalkAudio, FlashTalkWorker, TLAPS

(* Until messages cross, only one handler is busy; Phase is where it is.   *)

Busy == {"init", "sendInit", "prepare", "warm", "chunk", "sendWarm", "sendChunk",
         "runWarm", "runChunk", "activate", "sendRest"}

OneBusy(k) == \A c, d \in Conn : k[c] \notin Idle /\ k[d] \notin Idle => c = d

Phase(k) ==
    IF \E c \in Conn : k[c] \notin Idle THEN k[CHOOSE c \in Conn : k[c] \notin Idle] ELSE "idle"

\* The invariant: RanksInStep, with what makes it inductive.  A rank that has not
\* seen the command file finds rank 0 waiting for it.
Waits(w) ==
    /\ worker[w].at = "recvInit" => Phase(conn) = "sendInit" /\ w \notin command.unseen
    /\ worker[w].at = "recvChunk" => /\ Phase(conn) \in {"sendWarm", "sendChunk"}
                                     /\ w \notin command.unseen
    /\ worker[w].at = "run" => left \/ Phase(conn) \in {"runWarm", "runChunk"}
    /\ Phase(conn) \in {"runWarm", "runChunk"} => ~ left /\ worker[w].at \in {"run", "dead"}
    /\ worker[w].at = "run" /\ ~ left => worker[w].shape /\ shared.shape
    /\ worker[w].at = "barrier" => server = "barrier" /\ w \notin command.unseen

Unseen(w) ==
    w \in command.unseen =>
        \/ left
        \/ command.cmd = "init" /\ Phase(conn) = "sendInit"
        \/ command.cmd = "generate" /\ Phase(conn) \in {"sendWarm", "sendChunk"}
        \/ command.cmd = "shutdown" /\ server = "barrier"

\* The shapes agree from the moment an init has loaded the image on all ranks.
Shapes(w) ==
    /\ Phase(conn) = "prepare" => /\ worker[w].at \in {"base", "poll", "dead"}
                                  /\ worker[w].at = "poll" => ~ worker[w].shape
    /\ shared.active \/ Phase(conn) \in {"warm", "sendWarm", "activate"} =>
          /\ worker[w].at \in {"poll", "recvChunk", "run"} => worker[w].shape = shared.shape
          /\ worker[w].at = "base" => ~ shared.shape

\* A session, and an init whose data were sent, have one image on all ranks.
Images(w) ==
    shared.active \/ Phase(conn) \in {"prepare", "warm", "sendWarm", "runWarm", "activate"} =>
        worker[w].image = shared.image

\* Once rank 0 gave up a command, a rank is still in it or died: the image of an
\* init given up is gone for good.
GivenUp(w) ==
    /\ worker[w].at = "recvRest" => left
    /\ left => /\ worker[w].at \in {"recvRest", "base", "run", "dead"}
               /\ worker[w].at \in {"recvRest", "base"} => worker[w].image \in used \ files

InStep(w) == Waits(w) /\ Unseen(w) /\ Shapes(w) /\ Images(w) /\ GivenUp(w)

Phases ==
    /\ Phase(conn) \in {"chunk", "sendChunk", "runChunk"} => shared.active
    /\ Phase(conn) \in Busy \ {"chunk", "sendChunk", "runChunk"} => ~ shared.active
    /\ Phase(conn) \in {"init", "sendInit"} => shared.image # NoImage
    /\ shared.image # NoImage => shared.image \in used
    /\ server # "serving" => Phase(conn) = "idle"

Steps == OneBusy(conn) /\ Phases /\ \A w \in Worker : InStep(w)

StepInv == ServerTypeOK /\ Steps

ServerLabels == {"closed", "ready"} \cup Busy

\* Where the busy handler is, when there is one.
LEMMA PhaseBusy ==
    ASSUME NEW k, OneBusy(k), NEW c \in Conn, k[c] \notin Idle
    PROVE  /\ Phase(k) = k[c]
           /\ \A d \in Conn \ {c} : k[d] \in Idle
<1> DEFINE b == CHOOSE d \in Conn : k[d] \notin Idle
<1>1. b \in Conn /\ k[b] \notin Idle
  OBVIOUS
<1>2. b = c
  BY <1>1 DEF OneBusy
<1> QED
  BY <1>1, <1>2 DEF Phase, OneBusy

\* When every handler is idle, so is the phase.
LEMMA PhaseIdle ==
    ASSUME NEW k, \A c \in Conn : k[c] \in Idle
    PROVE  Phase(k) = "idle" /\ OneBusy(k)
BY DEF Phase, OneBusy

\* A handler that moves while all others are idle takes the phase with it.
LEMMA PhaseTurns ==
    ASSUME NEW k \in [Conn -> ServerLabels], NEW c \in Conn, NEW label,
           \A d \in Conn \ {c} : k[d] \in Idle
    PROVE  /\ OneBusy([k EXCEPT ![c] = label])
           /\ Phase([k EXCEPT ![c] = label]) = IF label \in Idle THEN "idle" ELSE label
<1> DEFINE j == [k EXCEPT ![c] = label]
<1>1. j[c] = label /\ \A d \in Conn \ {c} : j[d] \in Idle
  OBVIOUS
<1> HIDE DEF j
<1>2. OneBusy(j)
  BY <1>1 DEF OneBusy
<1>3. ASSUME label \in Idle PROVE Phase(j) = "idle"
  <2>1. \A d \in Conn : j[d] \in Idle
    BY <1>1, <1>3
  <2> QED
    BY <2>1, PhaseIdle
<1>4. ASSUME label \notin Idle PROVE Phase(j) = label
  BY <1>1, <1>2, <1>4, PhaseBusy
<1>5. OneBusy(j) /\ Phase(j) = IF label \in Idle THEN "idle" ELSE label
  BY <1>2, <1>3, <1>4
<1> QED
  BY <1>5 DEF j

\* A step of the handler that has the turn takes the phase with it.
LEMMA BusyTurns ==
    ASSUME StepInv, NEW c \in Conn, conn[c] \in Busy, NEW label, Turn(c, label)
    PROVE  /\ Phase(conn) = conn[c] /\ server = "serving"
           /\ OneBusy(conn')
           /\ Phase(conn') = IF label \in Idle THEN "idle" ELSE label
<1>1. conn[c] \notin Idle
  BY DEF Busy, Idle
<1>2. OneBusy(conn) /\ conn \in [Conn -> ServerLabels] /\ Phases
  BY DEF StepInv, Steps, ServerTypeOK, ServerLabels, Busy
<1>3. Phase(conn) = conn[c] /\ \A d \in Conn \ {c} : conn[d] \in Idle
  BY <1>1, <1>2, PhaseBusy
<1>4. server = "serving"
  BY <1>2, <1>3 DEF Phases, Busy
<1> QED
  BY <1>2, <1>3, <1>4, PhaseTurns DEF Turn

\* A message is taken up when all are idle, and brings the phase of its handler.
LEMMA AnswerTurns ==
    ASSUME StepInv, ~ crossed', NEW c \in Conn, Answering(c)
    PROVE  /\ Phase(conn) = "idle" /\ server = "serving"
           /\ \A label : Turn(c, label) =>
                 /\ OneBusy(conn')
                 /\ Phase(conn') = IF label \in Idle THEN "idle" ELSE label
<1>1. server = "serving" /\ \A d \in Conn : conn[d] \in Idle
  BY DEF Answering
<1>2. conn \in [Conn -> ServerLabels]
  BY DEF StepInv, ServerTypeOK, ServerLabels, Busy
<1> QED
  BY <1>1, <1>2, PhaseIdle, PhaseTurns DEF Turn

\* The types of the variables.
LEMMA ServerTypeStep ==
    ASSUME ServerTypeOK, ServerNext
    PROVE  ServerTypeOK'
<1> USE FlashTalkServerAssumption
<1>1. ASSUME NEW c \in Conn, Open(c) PROVE ServerTypeOK'
  BY <1>1 DEF ServerTypeOK, Open, Turn
<1>2. ASSUME NEW c \in Conn, Disconnect(c) PROVE ServerTypeOK'
  <2>1. CASE shared.active
    <3>1. shared' = EmptySession /\ files' = files \ {shared.image}
      BY <1>2, <2>1 DEF Disconnect
    <3>2. shared' \in [active : BOOLEAN, image : Image \cup {NoImage}, shape : BOOLEAN]
      BY <3>1 DEF EmptySession
    <3> QED
      BY <1>2, <3>1, <3>2 DEF ServerTypeOK, Disconnect, Answering, Turn
  <2>2. CASE ~ shared.active
    BY <1>2, <2>2 DEF ServerTypeOK, Disconnect, Answering, Turn
  <2> QED
    BY <2>1, <2>2
<1>3. ASSUME NEW c \in Conn, Close(c) PROVE ServerTypeOK'
  BY <1>3 DEF ServerTypeOK, Answering, Close, EmptySession
<1>4. ASSUME NEW c \in Conn, InitRejected(c) PROVE ServerTypeOK'
  BY <1>4 DEF ServerTypeOK, Answering, InitRejected, EmptySession
<1>5. ASSUME NEW c \in Conn, InitMessage(c) PROVE ServerTypeOK'
  BY <1>5 DEF ServerTypeOK, Answering, InitMessage, Turn, EmptySession
<1>6. ASSUME NEW c \in Conn, PublishInit(c) PROVE ServerTypeOK'
  BY <1>6 DEF ServerTypeOK, PublishInit, Turn, WriteCommand
<1>7. ASSUME NEW c \in Conn, Audio(c) PROVE ServerTypeOK'
  BY <1>7 DEF ServerTypeOK, Answering, Audio, Turn
<1>8. ASSUME NEW c \in Conn, Activate(c) PROVE ServerTypeOK'
  BY <1>8 DEF ServerTypeOK, Activate, Turn
<1>0. ASSUME NEW c \in Conn, ReportError(c)
      PROVE  /\ shared' \in [active : BOOLEAN, image : Image \cup {NoImage}, shape : BOOLEAN]
             /\ files' \subseteq used /\ used' = used /\ UNCHANGED <<command, server, crossed>>
             /\ conn' = [conn EXCEPT ![c] = "ready"]
  BY <1>0 DEF ServerTypeOK, ReportError, Turn
<1>9. ASSUME NEW c \in Conn, PrepareFails(c) \/ EmbeddingFails(c) PROVE ServerTypeOK'
  BY <1>0, <1>9 DEF ServerTypeOK, PrepareFails, EmbeddingFails
<1>10. ASSUME NEW c \in Conn, Prepare(c) PROVE ServerTypeOK'
  BY <1>10 DEF ServerTypeOK, Prepare, Turn
<1>11. ASSUME NEW c \in Conn, BroadcastInit(c) PROVE ServerTypeOK'
  BY <1>11 DEF ServerTypeOK, BroadcastInit, Turn
<1>12. ASSUME NEW c \in Conn, Publish(c) PROVE ServerTypeOK'
  BY <1>12 DEF ServerTypeOK, Publish, Turn, WriteCommand
<1>13. ASSUME NEW c \in Conn, BroadcastEmbedding(c) PROVE ServerTypeOK'
  BY <1>13 DEF ServerTypeOK, BroadcastEmbedding, Turn
<1>14. ASSUME NEW c \in Conn, Rendered(c) PROVE ServerTypeOK'
  BY <1>14, ZenonT(60) DEF ServerTypeOK, Rendered, RunReturns, Turn
<1>15. ASSUME NEW c \in Conn, BroadcastInitFails(c) PROVE ServerTypeOK'
  <2>1. ReportError(c) /\ left' = TRUE
    BY <1>15 DEF BroadcastInitFails
  <2>2. worker' \in [Worker -> [at : {"poll", "recvInit", "recvRest", "base", "recvChunk", "run",
                                     "barrier", "exit", "dead"},
                               image : Image \cup {NoImage}, shape : BOOLEAN]]
    <3>1. shared.image \in Image \cup {NoImage}
      BY DEF ServerTypeOK
    <3>2. worker' = worker \/ worker' = [w \in Worker |->
                    [worker[w] EXCEPT !.at = "recvRest", !.image = shared.image]]
      BY <1>15 DEF BroadcastInitFails
    <3>3. CASE worker' = worker
      BY <3>3 DEF ServerTypeOK
    <3>4. CASE worker' = [w \in Worker |->
                    [worker[w] EXCEPT !.at = "recvRest", !.image = shared.image]]
      BY <3>1, <3>4, ZenonT(60) DEF ServerTypeOK
    <3> QED
      BY <3>2, <3>3, <3>4
  <2> QED
    BY <1>0, <2>1, <2>2 DEF ServerTypeOK
<1>16. ASSUME NEW c \in Conn, BroadcastInitMismatched(c) PROVE ServerTypeOK'
  BY <1>16 DEF ServerTypeOK, BroadcastInitMismatched, Turn
<1>17. ASSUME NEW c \in Conn, ResultFails(c) PROVE ServerTypeOK'
  <2>1. ReportError(c) /\ left' = left
    BY <1>17 DEF ResultFails
  <2>2. worker' \in [Worker -> [at : {"poll", "recvInit", "recvRest", "base", "recvChunk", "run",
                                     "barrier", "exit", "dead"},
                               image : Image \cup {NoImage}, shape : BOOLEAN]]
    BY <1>17 DEF ServerTypeOK, ResultFails, RunReturns
  <2> QED
    BY <1>0, <2>1, <2>2 DEF ServerTypeOK
<1>18. ASSUME NEW c \in Conn, RenderFails(c) PROVE ServerTypeOK'
  BY <1>0, <1>18 DEF ServerTypeOK, RenderFails
<1>19. ASSUME NEW w \in Worker, Poll(w) \/ BaseData(w) \/ RunDies(w) PROVE ServerTypeOK'
  BY <1>19 DEF ServerTypeOK, Poll, BaseData, RunDies, NextStop
<1>20. CASE Interrupt \/ PublishShutdown \/ Barrier
  <2>1. CASE Interrupt
    BY <2>1 DEF ServerTypeOK, Interrupt
  <2>2. CASE PublishShutdown
    BY <2>2 DEF ServerTypeOK, PublishShutdown, WriteCommand
  <2>3. CASE Barrier
    BY <2>3, ZenonT(60) DEF ServerTypeOK, Barrier
  <2> QED
    BY <1>20, <2>1, <2>2, <2>3
<1> QED
  BY <1>1, <1>2, <1>3, <1>4, <1>5, <1>6, <1>7, <1>8, <1>9, <1>10, <1>11, <1>12,
     <1>13, <1>14, <1>15, <1>16, <1>17,
     <1>18, <1>19, <1>20
     DEF ServerNext, MessageStep, WorkerStep, MainStep

\* A message that needs no other rank, and the first step of one that does.
LEMMA AnswerInStep ==
    ASSUME StepInv, ~ crossed', NEW c \in Conn,
           Disconnect(c) \/ Close(c) \/ InitRejected(c) \/ InitMessage(c) \/ Audio(c)
    PROVE  Steps'
<1>1. Answering(c) /\ UNCHANGED <<command, worker, server, left>>
  BY DEF Disconnect, Close, InitRejected, InitMessage, Audio, Answering
<1>2. Phase(conn) = "idle" /\ server = "serving"
  BY <1>1, AnswerTurns
<1>3. /\ OneBusy(conn')
      /\ \/ /\ Phase(conn') = "idle" /\ (shared' = shared \/ shared' = EmptySession)
            /\ files' \subseteq files /\ used' = used
         \/ /\ Phase(conn') = "init" /\ ~ shared'.active
            /\ shared'.image \in Image \ used /\ used' = used \cup {shared'.image}
            /\ files' \subseteq files \cup {shared'.image}
         \/ /\ Phase(conn') = "chunk" /\ shared.active /\ shared' = shared
            /\ files' = files /\ used' = used
  <2>1. CASE Disconnect(c)
    <3>1. OneBusy(conn') /\ Phase(conn') = "idle"
      BY <1>1, <2>1, AnswerTurns DEF Disconnect, Idle
    <3> QED
      BY <2>1, <3>1 DEF Disconnect, EmptySession
  <2>2. CASE Close(c) \/ InitRejected(c)
    BY <1>2, <2>2 DEF Close, InitRejected, EmptySession, StepInv, Steps
  <2>3. CASE InitMessage(c)
    <3>1. OneBusy(conn') /\ Phase(conn') = "init"
      BY <1>1, <2>3, AnswerTurns DEF InitMessage, Idle
    <3>2. /\ ~ shared'.active /\ shared'.image \in Image \ used
          /\ used' = used \cup {shared'.image} /\ files' \subseteq files \cup {shared'.image}
      BY <2>3 DEF InitMessage, EmptySession, StepInv, ServerTypeOK
    <3> QED
      BY <3>1, <3>2
  <2>4. CASE Audio(c)
    <3>1. OneBusy(conn') /\ Phase(conn') = "chunk"
      BY <1>1, <2>4, AnswerTurns DEF Audio, Idle
    <3> QED
      BY <2>4, <3>1 DEF Audio
  <2> QED
    BY <2>1, <2>2, <2>3, <2>4
<1>4. Phases'
  BY <1>1, <1>2, <1>3, FlashTalkServerAssumption DEF StepInv, Steps, Phases, Busy, EmptySession
<1>5. ASSUME NEW w \in Worker PROVE InStep(w)'
  <2>1. InStep(w)
    BY DEF StepInv, Steps
  <2>2. (Waits(w) /\ Unseen(w))'
    BY <1>1, <1>2, <1>3, <2>1, SMTT(30) DEF InStep, Waits, Unseen
  <2>3. (Shapes(w) /\ Images(w))'
    BY <1>1, <1>2, <1>3, <2>1 DEF InStep, Shapes, Images, EmptySession
  <2>4. GivenUp(w)'
    BY <1>1, <1>3, <2>1 DEF InStep, GivenUp
  <2> QED
    BY <2>2, <2>3, <2>4 DEF InStep
<1> QED
  BY <1>3, <1>4, <1>5 DEF Steps

\* A command is published: no rank has seen it, and rank 0 goes on to send.
LEMMA PublishInStep ==
    ASSUME StepInv, NEW c \in Conn, PublishInit(c) \/ Publish(c)
    PROVE  Steps'
<1>1. PICK label \in {"sendInit", "sendWarm", "sendChunk"}, cmd \in {"init", "generate"} :
         /\ Turn(c, label) /\ UNCHANGED <<shared, files, used, worker, server, left>>
         /\ command' = [cmd |-> cmd, unseen |-> Worker]
         /\ conn[c] \in {"init", "warm", "chunk"}
         /\ label = "sendInit" <=> conn[c] = "init"
         /\ label = "sendWarm" <=> conn[c] = "warm"
         /\ label = "sendChunk" <=> conn[c] = "chunk"
         /\ cmd = "init" <=> label = "sendInit"
  <2>1. CASE PublishInit(c)
    BY <2>1 DEF PublishInit, WriteCommand
  <2>2. CASE Publish(c)
    BY <2>2 DEF Publish, WriteCommand
  <2> QED
    BY <2>1, <2>2
<1>2. /\ Phase(conn) = conn[c] /\ server = "serving"
      /\ OneBusy(conn') /\ Phase(conn') = label
  BY <1>1, BusyTurns DEF Busy, Idle
<1>3. Phases'
  BY <1>1, <1>2 DEF StepInv, Steps, Phases, Busy
<1>4. ASSUME NEW w \in Worker PROVE InStep(w)'
  <2>1. InStep(w)
    BY DEF StepInv, Steps
  <2> QED
    BY <1>1, <1>2, <2>1 DEF InStep, Waits, Unseen, Shapes, Images, GivenUp
<1> QED
  BY <1>2, <1>3, <1>4 DEF Steps

\* A rank that waits in an init finds it under way, and then none was given up.
LEMMA NoneGivenUp ==
    ASSUME StepInv, NEW label \in {"recvInit", "recvChunk", "poll", "barrier"}, AllWorkers(label)
    PROVE  ~ left
  BY FlashTalkServerAssumption DEF StepInv, Steps, InStep, GivenUp, AllWorkers

\* The data of an init reach all ranks, which then load the image as rank 0 does.
LEMMA BroadcastInitInStep ==
    ASSUME StepInv, NEW c \in Conn, BroadcastInit(c)
    PROVE  Steps'
<1>1. /\ Phase(conn) = "sendInit" /\ server = "serving"
      /\ OneBusy(conn') /\ Phase(conn') = "prepare"
  <2>1. conn[c] = "sendInit" /\ Turn(c, "prepare")
    BY DEF BroadcastInit
  <2> QED
    BY <2>1, BusyTurns DEF Busy, Idle
<1>2. Phases'
  BY <1>1 DEF StepInv, Steps, Phases, Busy, BroadcastInit
<1>3. ~ left /\ left' = left
  BY NoneGivenUp DEF BroadcastInit
<1>4. ASSUME NEW w \in Worker PROVE InStep(w)'
  <2>1. /\ worker[w].at = "recvInit" /\ worker'[w].at = "base"
        /\ worker'[w].image = shared.image
    BY DEF BroadcastInit, AllWorkers, StepInv, ServerTypeOK
  <2>2. w \notin command'.unseen /\ shared' = shared
    BY <2>1 DEF BroadcastInit, StepInv, Steps, InStep, Waits
  <2>3. ~ shared'.active
    BY <1>1 DEF BroadcastInit, StepInv, Steps, Phases, Busy
  <2> QED
    BY <1>1, <1>3, <2>1, <2>2, <2>3 DEF InStep, Waits, Unseen, Shapes, Images, GivenUp
<1> QED
  BY <1>1, <1>2, <1>4 DEF Steps

\* An error is reported: no handler is busy then, and an init has lost its image.
LEMMA ReportTurns ==
    ASSUME StepInv, NEW c \in Conn, ReportError(c), conn[c] \in Busy \ {"sendChunk"}
    PROVE  /\ Phase(conn) = conn[c] /\ server = "serving" /\ UNCHANGED <<used, command, server>>
           /\ OneBusy(conn') /\ Phase(conn') = "idle" /\ Phases'
           /\ files' \subseteq files
           /\ \/ conn[c] \in {"chunk", "runChunk"} /\ shared' = shared
              \/ /\ conn[c] \notin {"chunk", "runChunk"}
                 /\ files' = files \ {shared.image}
                 /\ ~ shared'.active
<1>1. Turn(c, "ready")
  BY DEF ReportError
<1>2. /\ Phase(conn) = conn[c] /\ server = "serving"
      /\ OneBusy(conn') /\ Phase(conn') = "idle"
  BY <1>1, BusyTurns DEF Idle
<1>3. UNCHANGED <<used, command, server>>
  BY DEF ReportError
<1>4. CASE conn[c] \in {"chunk", "runChunk"}
  <2>1. shared' = shared /\ files' = files
    BY <1>4 DEF ReportError
  <2>2. Phases'
    BY <1>2, <1>3, <2>1 DEF StepInv, Steps, Phases, Busy
  <2> QED
    BY <1>2, <1>3, <1>4, <2>1, <2>2
<1>5. CASE conn[c] \notin {"chunk", "runChunk"}
  <2>1. files' = files \ {shared.image} /\ shared'.image = NoImage /\ shared'.active = shared.active
    BY <1>5 DEF ReportError, StepInv, ServerTypeOK
  <2>2. ~ shared.active
    BY <1>2, <1>5 DEF StepInv, Steps, Phases
  <2>3. Phases'
    BY <1>2, <1>3, <2>1, <2>2 DEF Phases, Busy
  <2> QED
    BY <1>2, <1>3, <1>5, <2>1, <2>2, <2>3
<1> QED
  BY <1>4, <1>5

\* Rank 0 gives up an init that the other ranks are in: they keep waiting, for an
\* image that is gone.
LEMMA GiveUpInStep ==
    ASSUME StepInv, NEW c \in Conn, BroadcastInitFails(c)
    PROVE  Steps'
<1>1. conn[c] = "sendInit" /\ ReportError(c) /\ left' = TRUE
  BY DEF BroadcastInitFails
<1>2. /\ Phase(conn) = "sendInit" /\ UNCHANGED <<used, command, server>> /\ server = "serving"
      /\ OneBusy(conn') /\ Phase(conn') = "idle" /\ Phases'
      /\ files' = files \ {shared.image} /\ ~ shared'.active
  BY <1>1, ReportTurns DEF Busy
<1>3. shared.image # NoImage /\ shared.image \in used
  BY <1>2 DEF StepInv, Steps, Phases
<1>4. ASSUME NEW w \in Worker PROVE InStep(w)'
  <2>1. /\ worker[w].at = "recvInit" /\ worker'[w].at = "recvRest"
        /\ worker'[w].image = shared.image
    <3>1. AllWorkers("recvInit") /\ worker' = [u \in Worker |->
                    [worker[u] EXCEPT !.at = "recvRest", !.image = shared.image]]
      BY <1>3 DEF BroadcastInitFails
    <3> QED
      BY <3>1 DEF AllWorkers, StepInv, ServerTypeOK
  <2>2. w \notin command.unseen
    BY <2>1 DEF StepInv, Steps, InStep, Waits
  <2> QED
    BY <1>1, <1>2, <1>3, <2>1, <2>2 DEF InStep, Waits, Unseen, Shapes, Images, GivenUp
<1> QED
  BY <1>2, <1>4 DEF Steps

\* A later init does not bring them back: they load the image that is gone.
LEMMA MismatchInStep ==
    ASSUME StepInv, NEW c \in Conn, BroadcastInitMismatched(c)
    PROVE  Steps'
<1>1. /\ Phase(conn) = "sendInit" /\ server = "serving"
      /\ OneBusy(conn') /\ Phase(conn') = "sendRest"
  <2>1. conn[c] = "sendInit" /\ Turn(c, "sendRest")
    BY DEF BroadcastInitMismatched
  <2> QED
    BY <2>1, BusyTurns DEF Busy, Idle
<1>2. UNCHANGED <<shared, files, used, command, server, left>>
  BY DEF BroadcastInitMismatched
<1>3. Phases' /\ ~ shared.active
  BY <1>1, <1>2 DEF StepInv, Steps, Phases, Busy
<1>4. ASSUME NEW w \in Worker PROVE InStep(w)'
  <2>1. InStep(w)
    BY DEF StepInv, Steps
  <2>2. /\ worker[w].at = "recvRest" /\ worker'[w].at = "base"
        /\ worker'[w].image = worker[w].image
    BY DEF BroadcastInitMismatched, AllWorkers, StepInv, ServerTypeOK
  <2>3. left /\ worker[w].image \in used \ files
    BY <2>1, <2>2 DEF InStep, GivenUp
  <2> QED
    BY <1>1, <1>2, <1>3, <2>2, <2>3 DEF InStep, Waits, Unseen, Shapes, Images, GivenUp
<1> QED
  BY <1>1, <1>3, <1>4 DEF Steps

\* Rank 0 prepares the session, or fails to, while the others load the image; or
\* it fails before the others hear of a chunk.
LEMMA PrepareInStep ==
    ASSUME StepInv, NEW c \in Conn,
           Prepare(c) \/ PrepareFails(c) \/ EmbeddingFails(c) \/ Activate(c)
    PROVE  Steps'
<1>1. UNCHANGED <<command, worker, server, left, used>> /\ files' \subseteq files
  BY DEF Prepare, PrepareFails, EmbeddingFails, Activate, ReportError
<1>2. /\ Phase(conn) \in {"prepare", "activate", "warm", "chunk"} /\ server = "serving"
      /\ OneBusy(conn') /\ Phases'
      /\ \/ /\ Phase(conn) = "prepare" /\ Phase(conn') \in {"warm", "activate"}
            /\ ~ shared'.shape /\ ~ shared'.active /\ shared'.image = shared.image
         \/ /\ Phase(conn) \in {"prepare", "warm"} /\ Phase(conn') = "idle"
            /\ ~ shared'.active
         \/ /\ Phase(conn) = "chunk" /\ Phase(conn') = "idle" /\ shared' = shared
         \/ /\ Phase(conn) = "activate" /\ Phase(conn') = "idle"
            /\ shared'.shape = shared.shape /\ shared'.image = shared.image
  <2>1. CASE Prepare(c)
    <3>1. /\ Phase(conn) = "prepare" /\ server = "serving"
          /\ OneBusy(conn') /\ Phase(conn') \in {"warm", "activate"}
      BY <2>1, BusyTurns DEF Prepare, Busy, Idle
    <3>2. ~ shared.active
      BY <3>1 DEF StepInv, Steps, Phases, Busy
    <3>3. ~ shared'.shape /\ ~ shared'.active /\ shared'.image = shared.image
      BY <2>1, <3>2 DEF Prepare, StepInv, ServerTypeOK
    <3>4. Phases'
      BY <1>1, <3>1, <3>3 DEF StepInv, Steps, Phases, Busy
    <3> QED
      BY <3>1, <3>3, <3>4
  <2>2. CASE PrepareFails(c) \/ EmbeddingFails(c)
    <3>1. ReportError(c) /\ conn[c] \in {"prepare", "warm", "chunk"}
      BY <2>2 DEF PrepareFails, EmbeddingFails
    <3> QED
      BY <3>1, ReportTurns DEF Busy
  <2>3. CASE Activate(c)
    <3>1. /\ Phase(conn) = "activate" /\ server = "serving"
          /\ OneBusy(conn') /\ Phase(conn') = "idle"
      BY <2>3, BusyTurns DEF Activate, Busy, Idle
    <3>2. shared'.shape = shared.shape /\ shared'.image = shared.image
      BY <2>3 DEF Activate, StepInv, ServerTypeOK
    <3>3. Phases'
      BY <1>1, <3>1, <3>2 DEF StepInv, Steps, Phases, Busy
    <3> QED
      BY <3>1, <3>2, <3>3
  <2> QED
    BY <2>1, <2>2, <2>3
<1>3. ASSUME NEW w \in Worker PROVE InStep(w)'
  <2>1. InStep(w)
    BY DEF StepInv, Steps
  <2>2. worker[w].shape \in BOOLEAN /\ shared.shape \in BOOLEAN /\ shared'.shape \in BOOLEAN
    <3>1. ServerTypeOK'
      BY ServerTypeStep DEF StepInv, ServerNext, MessageStep
    <3> QED
      BY <3>1 DEF StepInv, ServerTypeOK
  <2>3. worker[w].at = "run" => left
    BY <1>2, <2>1 DEF InStep, Waits
  <2>4. (Waits(w) /\ Unseen(w))'
    BY <1>1, <1>2, <2>1, <2>3 DEF InStep, Waits, Unseen
  <2>5. Shapes(w)'
    BY <1>1, <1>2, <2>1, <2>2, <2>3 DEF InStep, Shapes, GivenUp
  <2>6. (Images(w) /\ GivenUp(w))'
    BY <1>1, <1>2, <2>1 DEF InStep, Images, GivenUp
  <2> QED
    BY <2>4, <2>5, <2>6 DEF InStep
<1> QED
  BY <1>2, <1>3 DEF Steps

\* The audio embedding reaches all ranks, and the shape with it.
LEMMA EmbeddingInStep ==
    ASSUME StepInv, NEW c \in Conn, BroadcastEmbedding(c)
    PROVE  Steps'
<1>1. PICK label \in {"runWarm", "runChunk"} :
         /\ Turn(c, label) /\ conn[c] \in {"sendWarm", "sendChunk"}
         /\ label = "runWarm" <=> conn[c] = "sendWarm"
  BY DEF BroadcastEmbedding
<1>2. /\ Phase(conn) = conn[c] /\ server = "serving"
      /\ OneBusy(conn') /\ Phase(conn') = label
      /\ UNCHANGED <<files, used, command, server, left>>
  BY <1>1, BusyTurns DEF BroadcastEmbedding, Busy, Idle
<1>3. shared'.active = shared.active /\ shared'.shape = TRUE /\ shared'.image = shared.image
  BY DEF BroadcastEmbedding, StepInv, ServerTypeOK
<1>4. Phases'
  BY <1>1, <1>2, <1>3 DEF StepInv, Steps, Phases, Busy
<1>5. ~ left
  BY NoneGivenUp DEF BroadcastEmbedding
<1>6. ASSUME NEW w \in Worker PROVE InStep(w)'
  <2>1. /\ worker[w].at = "recvChunk" /\ worker'[w].at = "run" /\ worker'[w].shape = TRUE
        /\ worker'[w].image = worker[w].image
    BY DEF BroadcastEmbedding, AllWorkers, StepInv, ServerTypeOK
  <2>2. w \notin command'.unseen
    BY <2>1 DEF BroadcastEmbedding, StepInv, Steps, InStep, Waits
  <2>3. worker[w].image = shared.image
    BY <1>1, <1>2 DEF StepInv, Steps, InStep, Images, Phases
  <2> QED
    BY <1>1, <1>2, <1>3, <1>5, <2>1, <2>2, <2>3 DEF InStep, Waits, Unseen, Shapes, Images, GivenUp
<1> QED
  BY <1>2, <1>4, <1>6 DEF Steps

\* The run ends on all ranks; what rank 0 then does may fail.
LEMMA RenderInStep ==
    ASSUME StepInv, NEW c \in Conn, Rendered(c) \/ ResultFails(c)
    PROVE  Steps'
<1>1. /\ conn[c] \in {"runWarm", "runChunk"} /\ UNCHANGED <<used, command, server, left>>
      /\ \A w \in Worker : /\ worker[w].at = "run" /\ worker'[w].at = "poll"
                           /\ worker'[w].shape = worker[w].shape
                           /\ worker'[w].image = worker[w].image
  BY DEF Rendered, ResultFails, RunReturns, ReportError, AllWorkers, StepInv, ServerTypeOK
<1>2. /\ Phase(conn) = conn[c] /\ server = "serving" /\ OneBusy(conn') /\ Phases'
      /\ \/ Phase(conn') = "activate" /\ conn[c] = "runWarm" /\ shared' = shared
         \/ Phase(conn') = "idle" /\ (shared' = shared \/ ~ shared'.active)
  <2>1. CASE Rendered(c)
    <3>1. PICK label \in {"activate", "ready"} :
             Turn(c, label) /\ label = IF conn[c] = "runWarm" THEN "activate" ELSE "ready"
      BY <2>1 DEF Rendered
    <3>2. /\ Phase(conn) = conn[c] /\ server = "serving"
          /\ OneBusy(conn') /\ Phase(conn') = IF label = "ready" THEN "idle" ELSE label
      BY <1>1, <3>1, BusyTurns DEF Busy, Idle
    <3>3. shared' = shared
      BY <2>1 DEF Rendered
    <3>4. Phases'
      BY <1>1, <3>1, <3>2, <3>3 DEF StepInv, Steps, Phases, Busy
    <3> QED
      BY <1>1, <3>1, <3>2, <3>3, <3>4
  <2>2. CASE ResultFails(c)
    <3>1. ReportError(c)
      BY <2>2 DEF ResultFails
    <3> QED
      BY <1>1, <3>1, ReportTurns DEF Busy
  <2> QED
    BY <2>1, <2>2
<1>3. ASSUME NEW w \in Worker PROVE InStep(w)'
  <2>1. InStep(w) /\ ~ left
    BY <1>1, <1>2 DEF StepInv, Steps, InStep, Waits
  <2>2. worker[w].shape /\ shared.shape /\ worker[w].shape \in BOOLEAN /\ shared.shape \in BOOLEAN
    BY <1>1, <2>1 DEF InStep, Waits, StepInv, ServerTypeOK
  <2>3. w \notin command.unseen
    BY <1>1, <1>2, <2>1 DEF InStep, Unseen
  <2>4. shared.active \/ conn[c] = "runWarm" => worker[w].image = shared.image
    BY <1>2, <2>1 DEF InStep, Images
  <2> QED
    BY <1>1, <1>2, <2>1, <2>2, <2>3, <2>4 DEF InStep, Waits, Unseen, Shapes, Images, GivenUp
<1> QED
  BY <1>2, <1>3 DEF Steps

\* A run fails on rank 0: the others die in it or wait for it.
LEMMA RenderFailsInStep ==
    ASSUME StepInv, NEW c \in Conn, RenderFails(c)
    PROVE  Steps'
<1>1. conn[c] \in {"runWarm", "runChunk"} /\ ReportError(c)
  BY DEF RenderFails
<1>2. /\ Phase(conn) = conn[c] /\ UNCHANGED <<used, command, server>> /\ server = "serving"
      /\ OneBusy(conn') /\ Phase(conn') = "idle" /\ Phases'
      /\ (shared' = shared \/ ~ shared'.active)
  BY <1>1, ReportTurns DEF Busy
<1>3. ASSUME NEW w \in Worker PROVE InStep(w)'
  <2>1. InStep(w) /\ ~ left /\ worker[w].at \in {"run", "dead"}
    BY <1>1, <1>2 DEF StepInv, Steps, InStep, Waits
  <2>2. /\ worker'[w].at \in {"run", "dead"} /\ worker'[w].shape = worker[w].shape
        /\ worker'[w].image = worker[w].image
        /\ worker'[w].at = "run" => worker[w].at = "run" /\ left'
    <3>1. PICK dying \in SUBSET Worker :
             worker' = [u \in Worker |-> IF u \in dying THEN [worker[u] EXCEPT !.at = "dead"]
                                         ELSE worker[u]]
      BY DEF RenderFails
    <3>2. worker[w] \in [at : {"poll", "recvInit", "recvRest", "base", "recvChunk", "run",
                               "barrier", "exit", "dead"},
                         image : Image \cup {NoImage}, shape : BOOLEAN]
      BY DEF StepInv, ServerTypeOK
    <3>3. worker'[w] = IF w \in dying THEN [worker[w] EXCEPT !.at = "dead"] ELSE worker[w]
      BY <3>1
    <3>4. worker'[w].at = "run" => left'
      BY DEF RenderFails
    <3> QED
      BY <2>1, <3>2, <3>3, <3>4
  <2>3. w \notin command.unseen
    BY <1>1, <1>2, <2>1 DEF InStep, Unseen
  <2> QED
    BY <1>2, <2>1, <2>2, <2>3 DEF InStep, Waits, Unseen, Shapes, Images, GivenUp
<1> QED
  BY <1>2, <1>3 DEF Steps

\* A rank that sees a command goes where rank 0 waits for it.  One that loads the
\* image of an init given up does not find it, and one may die in a run.
LEMMA WorkerInStep ==
    ASSUME StepInv, NEW v \in Worker, Poll(v) \/ BaseData(v) \/ RunDies(v)
    PROVE  Steps'
<1>1. UNCHANGED <<conn, shared, files, used, server, left>> /\ command'.cmd = command.cmd
  BY DEF Poll, BaseData, RunDies, StepInv, ServerTypeOK
<1>2. OneBusy(conn') /\ Phases'
  BY <1>1 DEF StepInv, Steps, Phases
<1>3. ASSUME NEW w \in Worker PROVE InStep(w)'
  <2>0. InStep(w)
    BY DEF StepInv, Steps
  <2>1. CASE w # v
    <3>1. worker'[w] = worker[w] /\ (w \in command'.unseen <=> w \in command.unseen)
      BY <2>1 DEF Poll, BaseData, RunDies, StepInv, ServerTypeOK
    <3> QED
      BY <1>1, <2>0, <3>1 DEF InStep, Waits, Unseen, Shapes, Images, GivenUp
  <2>2. CASE w = v /\ Poll(v)
    <3>1. /\ worker[v].at = "poll" /\ v \in command.unseen /\ v \notin command'.unseen
          /\ worker'[v].at = NextStop(command.cmd) /\ worker'[v].shape = worker[v].shape
          /\ worker'[v].image = worker[v].image
      BY <2>2 DEF Poll, StepInv, ServerTypeOK
    <3>2. ~ left
      BY <2>0, <2>2, <3>1 DEF InStep, GivenUp
    <3>3. \/ command.cmd = "init" /\ Phase(conn) = "sendInit" /\ worker'[v].at = "recvInit"
          \/ /\ command.cmd = "generate" /\ Phase(conn) \in {"sendWarm", "sendChunk"}
             /\ worker'[v].at = "recvChunk"
          \/ command.cmd = "shutdown" /\ server = "barrier" /\ worker'[v].at = "barrier"
      BY <2>0, <2>2, <3>1, <3>2 DEF InStep, Unseen, NextStop
    <3>4. server = "barrier" => Phase(conn) = "idle"
      BY DEF StepInv, Steps, Phases
    <3>5. Phase(conn) \in {"sendInit", "init"} => ~ shared.active
      BY DEF StepInv, Steps, Phases, Busy
    <3>6. (Waits(w) /\ Unseen(w) /\ GivenUp(w))'
      BY <1>1, <2>0, <2>2, <3>1, <3>2, <3>3, <3>4 DEF InStep, Waits, Unseen, GivenUp
    <3>7. (Shapes(w) /\ Images(w))'
      BY <1>1, <2>0, <2>2, <3>1, <3>3, <3>4, <3>5 DEF InStep, Shapes, Images
    <3> QED
      BY <3>6, <3>7 DEF InStep
  <2>3. CASE w = v /\ BaseData(v)
    <3>1. /\ worker[v].at = "base" /\ command' = command /\ worker'[v].image = worker[v].image
          /\ \/ worker[v].image \in files /\ worker'[v].at = "poll" /\ worker'[v].shape = FALSE
             \/ worker'[v].at = "dead"
      BY <2>3 DEF BaseData, StepInv, ServerTypeOK
    <3>2. shared.shape \in BOOLEAN
      BY DEF StepInv, ServerTypeOK
    <3> QED
      BY <1>1, <2>0, <2>3, <3>1, <3>2 DEF InStep, Waits, Unseen, Shapes, Images, GivenUp
  <2>4. CASE w = v /\ RunDies(v)
    <3>1. /\ worker[v].at = "run" /\ command' = command /\ worker'[v].image = worker[v].image
          /\ worker'[v].at = "dead"
      BY <2>4 DEF RunDies, StepInv, ServerTypeOK
    <3> QED
      BY <1>1, <2>0, <2>4, <3>1 DEF InStep, Waits, Unseen, Shapes, Images, GivenUp
  <2> QED
    BY <2>1, <2>2, <2>3, <2>4
<1> QED
  BY <1>2, <1>3 DEF Steps

\* The main thread stops between messages, and the ranks meet it at the barrier.
LEMMA MainInStep ==
    ASSUME StepInv, ~ crossed', Interrupt \/ PublishShutdown \/ Barrier
    PROVE  Steps'
<1>1. UNCHANGED <<conn, shared, files, used, left>> /\ Phase(conn) = "idle"
  BY PhaseIdle DEF StepInv, Steps, Phases, Interrupt, PublishShutdown, Barrier
<1>2. OneBusy(conn') /\ Phases'
  BY <1>1 DEF StepInv, Steps, Phases, Busy
<1>3. ASSUME NEW w \in Worker PROVE InStep(w)'
  <2>0. InStep(w)
    BY DEF StepInv, Steps
  <2>1. CASE Interrupt
    BY <1>1, <2>0, <2>1 DEF Interrupt, InStep, Waits, Unseen, Shapes, Images, GivenUp
  <2>2. CASE PublishShutdown
    BY <1>1, <2>0, <2>2 DEF PublishShutdown, WriteCommand, InStep, Waits, Unseen, Shapes, Images,
                            GivenUp
  <2>3. CASE Barrier
    <3>1. /\ worker[w].at = "barrier" /\ worker'[w].at = "exit" /\ command' = command
          /\ worker'[w].image = worker[w].image
      BY <2>3 DEF Barrier, AllWorkers, StepInv, ServerTypeOK
    <3>2. w \notin command.unseen /\ ~ left
      BY <2>0, <3>1 DEF InStep, Waits, GivenUp
    <3> QED
      BY <1>1, <2>0, <3>1, <3>2 DEF InStep, Waits, Unseen, Shapes, Images, GivenUp
  <2> QED
    BY <2>1, <2>2, <2>3
<1> QED
  BY <1>2, <1>3 DEF Steps

\* A client connects.
LEMMA OpenInStep ==
    ASSUME StepInv, NEW c \in Conn, Open(c)
    PROVE  Steps'
<1>1. conn' = [conn EXCEPT ![c] = "ready"] /\ conn[c] = "closed"
      /\ UNCHANGED <<shared, files, used, command, worker, server, left>>
  BY DEF Open, Turn
<1>2. OneBusy(conn') /\ Phase(conn') = Phase(conn)
  <2>1. CASE \A d \in Conn : conn[d] \in Idle
    <3>1. \A d \in Conn : conn'[d] \in Idle
      BY <1>1, <2>1 DEF StepInv, ServerTypeOK, Idle
    <3> QED
      BY <2>1, <3>1, PhaseIdle
  <2>2. ASSUME NEW d \in Conn, conn[d] \notin Idle
        PROVE  OneBusy(conn') /\ Phase(conn') = Phase(conn)
    <3>1. conn'[d] = conn[d] /\ \A e \in Conn : conn'[e] \notin Idle => conn[e] \notin Idle
      BY <1>1, <2>2 DEF StepInv, ServerTypeOK, Idle
    <3>2. OneBusy(conn) /\ OneBusy(conn')
      BY <3>1 DEF StepInv, Steps, OneBusy
    <3> QED
      BY <2>2, <3>1, <3>2, PhaseBusy
  <2> QED
    BY <2>1, <2>2
<1>3. Phases'
  BY <1>1, <1>2 DEF StepInv, Steps, Phases
<1>4. ASSUME NEW w \in Worker PROVE InStep(w)'
  BY <1>1, <1>2 DEF StepInv, Steps, InStep, Waits, Unseen, Shapes, Images, GivenUp
<1> QED
  BY <1>2, <1>3, <1>4 DEF Steps

\* Until messages cross, every rank that waits in a collective finds rank 0 in it,
\* agrees with it on whether the shape is sent first and renders for the same image;
\* or rank 0 gave the command up, and no rank gets to another one.
THEOREM RanksInStepSafety == ServerSpec => []RanksInStep
<1> DEFINE Inv == ServerTypeOK /\ (crossed \/ Steps)
<1>1. ServerInit => Inv
  <2> SUFFICES ASSUME ServerInit PROVE Inv
    OBVIOUS
  <2>1. Phase(conn) = "idle" /\ OneBusy(conn)
    BY PhaseIdle DEF ServerInit, Idle
  <2>2. ServerTypeOK
    BY DEF ServerInit, ServerTypeOK, EmptySession
  <2> QED
    BY <2>1, <2>2 DEF ServerInit, Steps, Phases, InStep, Waits, Unseen, Shapes, Images, GivenUp, Busy,
                EmptySession
<1>2. Inv /\ [ServerNext]_serverVars => Inv'
  <2> SUFFICES ASSUME Inv, [ServerNext]_serverVars PROVE Inv'
    OBVIOUS
  <2>1. CASE UNCHANGED serverVars
    BY <2>1 DEF serverVars, ServerTypeOK, Steps, OneBusy, Phases, InStep, Waits, Unseen, Shapes,
                Images, GivenUp
  <2>2. CASE ServerNext
    <3>1. ServerTypeOK'
      BY <2>2, ServerTypeStep
    <3>2. crossed => crossed'
      <4>1. \A c \in Conn : Disconnect(c) \/ Close(c) \/ InitRejected(c) \/ InitMessage(c) \/ Audio(c)
                               => Answering(c)
        BY DEF Disconnect, Close, InitRejected, InitMessage, Audio
      <4>2. \A c \in Conn : Open(c) \/ MessageStep(c) => crossed' = crossed
        BY DEF Open, MessageStep, PublishInit, BroadcastInit, BroadcastInitFails,
               BroadcastInitMismatched, PrepareFails, Prepare, Activate, EmbeddingFails, Publish,
               BroadcastEmbedding, Rendered, ResultFails, RenderFails, ReportError
      <4>3. (\E w \in Worker : WorkerStep(w) \/ RunDies(w)) \/ MainStep => crossed' = crossed
        BY DEF WorkerStep, Poll, BaseData, RunDies, MainStep, PublishShutdown, Barrier
      <4> QED
        BY <2>2, <4>1, <4>2, <4>3 DEF ServerNext, Answering, Interrupt
    <3>3. ASSUME ~ crossed' PROVE Steps'
      <4>1. StepInv
        BY <3>2, <3>3 DEF StepInv
      <4> QED
        BY <2>2, <3>3, <4>1, OpenInStep, AnswerInStep, PublishInStep, BroadcastInitInStep,
           GiveUpInStep, MismatchInStep, PrepareInStep, EmbeddingInStep, RenderInStep,
           RenderFailsInStep, WorkerInStep, MainInStep
           DEF ServerNext, MessageStep, WorkerStep, MainStep
    <3> QED
      BY <3>1, <3>3
  <2> QED
    BY <2>1, <2>2
<1>3. Inv => RanksInStep
  <2> SUFFICES ASSUME Inv, ~ crossed PROVE RanksInStep
    BY DEF RanksInStep
  <2>1. \A L \in SUBSET Busy : Phase(conn) \in L <=> In(L)
    <3> SUFFICES ASSUME NEW L \in SUBSET Busy PROVE Phase(conn) \in L <=> In(L)
      OBVIOUS
    <3>1. ASSUME Phase(conn) \in L PROVE In(L)
      <4>1. PICK c \in Conn : conn[c] \notin Idle
        BY <3>1, PhaseIdle DEF Busy
      <4> QED
        BY <3>1, <4>1, PhaseBusy DEF Steps, In
    <3>2. ASSUME NEW c \in Conn, conn[c] \in L PROVE Phase(conn) \in L
      <4>1. conn[c] \notin Idle
        BY <3>2 DEF Busy, Idle
      <4> QED
        BY <3>2, <4>1, PhaseBusy DEF Steps
    <3> QED
      BY <3>1, <3>2 DEF In
  <2>2. ASSUME NEW w \in Worker, worker[w].at = "recvChunk"
        PROVE  worker[w].shape = shared.shape
    <3>1. Phase(conn) \in {"sendWarm", "sendChunk"}
      BY <2>2 DEF Steps, InStep, Waits
    <3>2. shared.active \/ Phase(conn) = "sendWarm"
      BY <3>1 DEF Steps, Phases
    <3> QED
      BY <2>2, <3>2 DEF Steps, InStep, Shapes
  <2>3. ASSUME NEW w \in Worker, Phase(conn) \in {"runWarm", "runChunk"}
        PROVE  worker[w].at \in {"run", "dead"} /\ worker[w].image = shared.image
    <3>1. shared.active \/ Phase(conn) = "runWarm"
      BY <2>3 DEF Steps, Phases
    <3> QED
      BY <2>3, <3>1 DEF Steps, InStep, Waits, Images
  <2>4. ASSUME NEW w \in Worker
        PROVE  /\ worker[w].at = "recvInit" => In({"sendInit"})
               /\ worker[w].at = "recvChunk" => In({"sendWarm", "sendChunk"})
               /\ worker[w].at = "run" => left \/ In({"runWarm", "runChunk"})
               /\ worker[w].at = "barrier" => server = "barrier"
               /\ left => worker[w].at \in {"recvRest", "base", "run", "dead"}
    BY <2>1 DEF Steps, InStep, Waits, GivenUp, Busy
  <2>5. In({"runWarm", "runChunk"}) => Phase(conn) \in {"runWarm", "runChunk"}
    BY <2>1 DEF Busy
  <2> QED
    BY <2>2, <2>3, <2>4, <2>5 DEF RanksInStep
<1> QED
  BY <1>1, <1>2, <1>3, PTL DEF ServerSpec
-------------------------------------------------------------------------------
(* The start-up.  The images are different, so a rank finds the bank of an *)
(* image in its memory only if it has been at that image.                  *)

Different == \A i, j \in 1 .. Len(Refs) : Refs[i] = Refs[j] => i = j

\* A rank has, or has not, decided what to do about an image; one that renders it
\* has done neither.
Past(r, k) == place[r] > k \/ (place[r] = k /\ step[r] \in {"save", "warm", "next"})
Undecided(r, k) == place[r] < k \/ (place[r] = k /\ step[r] = "look")

PastWarmUp(r) == place[r] > WarmTarget \/ (place[r] = WarmTarget /\ step[r] = "next")

\* Where the steps are taken, and what a rank remembers.
Places ==
    \A r \in Rank :
        /\ step[r] \notin {"look", "serve"} => place[r] \in 1 .. Len(Refs)
        /\ step[r] = "warm" => place[r] = WarmTarget
        /\ \A key \in memory[r] : \E k \in 1 .. Len(Refs) : Refs[k] = key /\ Past(r, k)

\* An image that one rank is past and another has not decided about is on disk.
OnDisk ==
    \A r, s \in Rank, k \in 1 .. Len(Refs) :
        Undecided(r, k) /\ Past(s, k) => disk[Refs[k]] = "good"

\* An image that a rank renders is not on disk, and nobody is past it.
Rendering ==
    \A r \in Rank : step[r] = "render" =>
        /\ disk[Refs[place[r]]] # "good"
        /\ \A s \in Rank : ~ Past(s, place[r])

Warming == \A r, s \in Rank : PastWarmUp(r) => PastWarmUp(s)

PreloadInv == PreloadTypeOK /\ Places /\ OnDisk /\ Rendering /\ Warming

\* Different images have different keys, and the keys of the images are keys.
LEMMA RefsFacts ==
    /\ Len(Refs) \in Nat /\ WarmTarget \in 0 .. Len(Refs)
    /\ \A k \in 1 .. Len(Refs) : Refs[k] \in Key
BY PreloadAssumption

\* The types of the variables of the preload.
LEMMA PreloadTypeStep ==
    ASSUME PreloadTypeOK, Places, PreloadNext
    PROVE  PreloadTypeOK'
<1>1. ASSUME NEW r \in Rank, Hit(r) PROVE PreloadTypeOK'
  <2>1. place[r] \in 1 .. Len(Refs)
    BY <1>1, RefsFacts DEF Hit, Looking, PreloadTypeOK
  <2> QED
    BY <1>1, <2>1, RefsFacts DEF Hit, PreloadTypeOK, StepAfterBank
<1>2. ASSUME NEW r \in Rank, Miss(r) PROVE PreloadTypeOK'
  BY <1>2 DEF Miss, PreloadTypeOK
<1>3. ASSUME NEW r \in Rank, SaveBank(r) PROVE PreloadTypeOK'
  <2>1. place[r] \in 1 .. Len(Refs)
    BY <1>3 DEF SaveBank, Places
  <2> QED
    BY <1>3, <2>1, RefsFacts DEF SaveBank, PreloadTypeOK, StepAfterBank
<1>4. ASSUME NEW r \in Rank, NextRef(r) PROVE PreloadTypeOK'
  <2>1. place[r] \in 1 .. Len(Refs)
    BY <1>4 DEF NextRef, Places
  <2> QED
    BY <1>4, <2>1, RefsFacts DEF NextRef, PreloadTypeOK
<1>5. CASE Collective
  BY <1>5 DEF Collective, PreloadTypeOK, StepAfterBank
<1>6. CASE StartUpEnds
  BY <1>6 DEF StartUpEnds, PreloadTypeOK
<1> QED
  BY <1>1, <1>2, <1>3, <1>4, <1>5, <1>6 DEF PreloadNext, PreloadStep

\* An image that a rank is past is not looked at by it again, so its memory does
\* not have the image it looks at.
LEMMA NotInMemory ==
    ASSUME PreloadInv, Different, NEW r \in Rank, Looking(r)
    PROVE  Refs[place[r]] \notin memory[r]
<1>1. place[r] \in 1 .. Len(Refs) /\ step[r] = "look"
  BY RefsFacts DEF PreloadInv, PreloadTypeOK, Looking
<1>2. ASSUME Refs[place[r]] \in memory[r] PROVE FALSE
  <2>1. PICK j \in 1 .. Len(Refs) : Refs[j] = Refs[place[r]] /\ Past(r, j)
    BY <1>2 DEF PreloadInv, Places
  <2>2. j = place[r]
    BY <1>1, <2>1 DEF Different
  <2> QED
    BY <1>1, <2>1, <2>2, SMT DEF Past
<1> QED
  BY <1>2

\* A rank finds the bank: the image is on disk, so nobody renders it.
LEMMA HitSame ==
    ASSUME PreloadInv, Different, NEW r \in Rank, Hit(r)
    PROVE  (Places /\ OnDisk /\ Rendering /\ Warming)'
<1> DEFINE k == place[r]
<1>1. /\ k \in 1 .. Len(Refs) /\ step[r] = "look" /\ disk[Refs[k]] = "good"
      /\ place' = place /\ disk' = disk
      /\ step' = [step EXCEPT ![r] = StepAfterBank(r)]
      /\ memory' = [memory EXCEPT ![r] = @ \cup {Refs[k]}]
  BY NotInMemory, RefsFacts DEF Hit, Looking, PreloadInv, PreloadTypeOK
<1>2. /\ step'[r] \in {"warm", "next"} /\ (step'[r] = "warm" <=> k = WarmTarget)
      /\ \A s \in Rank \ {r} : step'[s] = step[s] /\ memory'[s] = memory[s]
      /\ memory'[r] = memory[r] \cup {Refs[k]}
  BY <1>1 DEF PreloadInv, PreloadTypeOK, StepAfterBank
<1>3. \A s \in Rank, j \in 1 .. Len(Refs) : /\ Past(s, j)' <=> Past(s, j) \/ (s = r /\ j = k)
                                            /\ Undecided(s, j)' => Undecided(s, j)
  BY <1>1, <1>2 DEF Past, Undecided
<1> HIDE DEF k
<1>4. Places'
  BY <1>1, <1>2, <1>3 DEF PreloadInv, Places, k
<1>5. OnDisk'
  BY <1>1, <1>3 DEF PreloadInv, OnDisk
<1>6. Rendering'
  BY <1>1, <1>2, <1>3 DEF PreloadInv, Rendering, Places
<1>7. Warming'
  BY <1>1, <1>2 DEF PreloadInv, Warming, PastWarmUp, k
<1> QED
  BY <1>4, <1>5, <1>6, <1>7

\* A rank does not find the bank: nobody is past the image.
LEMMA MissSame ==
    ASSUME PreloadInv, Different, NEW r \in Rank, Miss(r)
    PROVE  (Places /\ OnDisk /\ Rendering /\ Warming)'
<1> DEFINE k == place[r]
<1>1. /\ k \in 1 .. Len(Refs) /\ step[r] = "look" /\ disk[Refs[k]] # "good"
      /\ place' = place /\ memory' = memory
      /\ step'[r] = "render" /\ \A s \in Rank \ {r} : step'[s] = step[s]
      /\ disk' = [disk EXCEPT ![Refs[k]] = "none"]
  BY RefsFacts DEF Miss, Looking, PreloadInv, PreloadTypeOK
<1>2. \A s \in Rank : ~ Past(s, k)
  BY <1>1 DEF PreloadInv, OnDisk, Undecided
<1>3. \A j \in 1 .. Len(Refs) : disk'[Refs[j]] = IF j = k THEN "none" ELSE disk[Refs[j]]
  BY <1>1, RefsFacts DEF PreloadInv, PreloadTypeOK, Different
<1>4. \A s \in Rank, j \in 1 .. Len(Refs) : /\ Past(s, j)' <=> Past(s, j)
                                            /\ Undecided(s, j)' => Undecided(s, j)
  BY <1>1 DEF Past, Undecided
<1> HIDE DEF k
<1>5. Places'
  BY <1>1, <1>4 DEF PreloadInv, Places, k
<1>6. OnDisk'
  BY <1>2, <1>3, <1>4 DEF PreloadInv, OnDisk
<1>7. Rendering'
  BY <1>1, <1>2, <1>3, <1>4 DEF PreloadInv, Rendering, Places, k
<1>8. Warming'
  BY <1>1 DEF PreloadInv, Warming, PastWarmUp
<1> QED
  BY <1>5, <1>6, <1>7, <1>8

\* Rank 0 saves the bank that all ranks have rendered: nobody renders it now.
LEMMA SaveSame ==
    ASSUME PreloadInv, Different, NEW r \in Rank, SaveBank(r)
    PROVE  (Places /\ OnDisk /\ Rendering /\ Warming)'
<1> DEFINE k == place[r]
<1>1. /\ k \in 1 .. Len(Refs) /\ step[r] = "save" /\ place' = place
      /\ disk' = [disk EXCEPT ![Refs[k]] = "good"]
      /\ step' = [step EXCEPT ![r] = StepAfterBank(r)]
      /\ memory' = [memory EXCEPT ![r] = @ \cup {Refs[k]}]
  BY DEF SaveBank, PreloadInv, Places
<1>2. /\ step'[r] \in {"warm", "next"} /\ (step'[r] = "warm" <=> k = WarmTarget)
      /\ \A s \in Rank \ {r} : step'[s] = step[s] /\ memory'[s] = memory[s]
      /\ memory'[r] = memory[r] \cup {Refs[k]}
  BY <1>1 DEF PreloadInv, PreloadTypeOK, StepAfterBank
<1>3. \A j \in 1 .. Len(Refs) : disk'[Refs[j]] = IF j = k THEN "good" ELSE disk[Refs[j]]
  BY <1>1, RefsFacts DEF PreloadInv, PreloadTypeOK, Different
<1>4. /\ Past(r, k)
      /\ \A s \in Rank, j \in 1 .. Len(Refs) : /\ Past(s, j)' <=> Past(s, j)
                                               /\ Undecided(s, j)' => Undecided(s, j)
  BY <1>1, <1>2 DEF Past, Undecided
<1> HIDE DEF k
<1>5. Places'
  BY <1>1, <1>2, <1>4 DEF PreloadInv, Places, k
<1>6. OnDisk'
  BY <1>3, <1>4 DEF PreloadInv, OnDisk
<1>7. Rendering'
  <2> SUFFICES ASSUME NEW q \in Rank, step'[q] = "render"
               PROVE  disk'[Refs[place[q]]] # "good" /\ \A s \in Rank : ~ Past(s, place[q])'
    BY <1>1 DEF Rendering
  <2>1. step[q] = "render" /\ place[q] \in 1 .. Len(Refs)
    BY <1>1, <1>2 DEF PreloadInv, Places
  <2>2. disk[Refs[place[q]]] # "good" /\ \A s \in Rank : ~ Past(s, place[q])
    BY <2>1 DEF PreloadInv, Rendering
  <2>3. place[q] # k
    BY <1>4, <2>2
  <2>4. disk'[Refs[place[q]]] # "good"
    BY <1>3, <2>1, <2>2, <2>3
  <2>5. \A s \in Rank : ~ Past(s, place[q])'
    BY <1>1, <1>2, <2>2 DEF Past
  <2> QED
    BY <2>4, <2>5
<1>8. Warming'
  BY <1>1, <1>2 DEF PreloadInv, Warming, PastWarmUp, k
<1> QED
  BY <1>5, <1>6, <1>7, <1>8

\* A rank goes on to the next image.
LEMMA NextSame ==
    ASSUME PreloadInv, NEW r \in Rank, NextRef(r)
    PROVE  (Places /\ OnDisk /\ Rendering /\ Warming)'
<1> DEFINE k == place[r]
<1>1. /\ k \in 1 .. Len(Refs) /\ step[r] = "next"
      /\ place' = [place EXCEPT ![r] = k + 1] /\ step' = [step EXCEPT ![r] = "look"]
      /\ disk' = disk /\ memory' = memory
  BY DEF NextRef, PreloadInv, Places
<1>2. /\ place'[r] = k + 1 /\ step'[r] = "look"
      /\ \A s \in Rank \ {r} : place'[s] = place[s] /\ step'[s] = step[s]
      /\ \A s \in Rank : place[s] \in Nat
  BY <1>1, RefsFacts DEF PreloadInv, PreloadTypeOK
<1>3. \A s \in Rank, j \in 1 .. Len(Refs) : /\ Past(s, j)' <=> Past(s, j)
                                            /\ Undecided(s, j)' => Undecided(s, j)
  BY <1>1, <1>2 DEF Past, Undecided
<1>4. \A s \in Rank : PastWarmUp(s)' <=> PastWarmUp(s)
  BY <1>1, <1>2, RefsFacts DEF PastWarmUp
<1> HIDE DEF k
<1>5. Places'
  BY <1>1, <1>2, <1>3 DEF PreloadInv, Places
<1>6. OnDisk'
  BY <1>1, <1>3 DEF PreloadInv, OnDisk
<1>7. Rendering'
  BY <1>1, <1>2, <1>3 DEF PreloadInv, Rendering, Places
<1>8. Warming'
  BY <1>4 DEF PreloadInv, Warming
<1> QED
  BY <1>5, <1>6, <1>7, <1>8

\* Ranks in a render are in the same render.
LEMMA SameFromInv == PreloadInv => SameRender
<1> SUFFICES ASSUME PreloadInv, NEW r \in Rank, NEW s \in Rank,
                    step[r] \in {"render", "warm"}, step[s] \in {"render", "warm"}
             PROVE  place[r] = place[s] /\ step[r] = step[s]
  BY DEF SameRender
<1>1. /\ place[r] \in 1 .. Len(Refs) /\ place[s] \in 1 .. Len(Refs)
      /\ Len(Refs) \in Nat /\ WarmTarget \in 0 .. Len(Refs)
      /\ step[r] = "warm" => place[r] = WarmTarget
      /\ step[s] = "warm" => place[s] = WarmTarget
  BY RefsFacts DEF PreloadInv, Places
<1>2. /\ step[r] = "render" => ~ Past(s, place[r])
      /\ step[s] = "render" => ~ Past(r, place[s])
      /\ PastWarmUp(r) <=> PastWarmUp(s)
  BY DEF PreloadInv, Rendering, Warming
<1> QED
  BY <1>1, <1>2 DEF Past, PastWarmUp

\* A render ends on all ranks at the same image.
LEMMA CollectiveSame ==
    ASSUME PreloadInv, Collective
    PROVE  (Places /\ OnDisk /\ Rendering /\ Warming)'
<1>1. /\ place' = place /\ memory' = memory /\ disk' = disk
      /\ \A r \in Rank : step'[r] = IF step[r] = "warm" THEN "next"
                                    ELSE IF r = RankZero THEN "save" ELSE StepAfterBank(r)
  BY DEF Collective
<1>2. PICK k \in 1 .. Len(Refs), kind \in {"render", "warm"} :
         /\ kind = "warm" => k = WarmTarget
         /\ \A r \in Rank : place[r] = k /\ step[r] = kind
  <2>1. \A r \in Rank : place[r] = place[RankZero] /\ step[r] = step[RankZero]
    BY SameFromInv, PreloadAssumption DEF SameRender, Collective
  <2> QED
    BY <2>1, PreloadAssumption DEF PreloadInv, Places, Collective
<1>3. \A r \in Rank : step'[r] \in {"save", "warm", "next"}
                      /\ (step'[r] = "warm" => k = WarmTarget /\ kind = "render")
                      /\ (step'[r] = "next" => k # WarmTarget \/ kind = "warm")
                      /\ (kind = "warm" => step'[r] = "next")
  BY <1>1, <1>2 DEF StepAfterBank
<1>4. \A r \in Rank, j \in 1 .. Len(Refs) : /\ Past(r, j)' <=> j <= k
                                            /\ Undecided(r, j)' <=> k < j
                                            /\ Past(r, j) => Past(r, j)'
  BY <1>1, <1>2, <1>3 DEF Past, Undecided
<1>5. Places'
  BY <1>1, <1>2, <1>3, <1>4 DEF PreloadInv, Places
<1>6. OnDisk'
  BY <1>4 DEF OnDisk
<1>7. Rendering'
  BY <1>3 DEF Rendering
<1>8. Warming'
  BY <1>1, <1>2, <1>3, RefsFacts DEF Warming, PastWarmUp
<1> QED
  BY <1>5, <1>6, <1>7, <1>8

\* The start-up is over, and with it the renders.
LEMMA EndSame ==
    ASSUME PreloadInv, StartUpEnds
    PROVE  (Places /\ OnDisk /\ Rendering /\ Warming)'
<1>1. /\ UNCHANGED <<place, memory, disk>>
      /\ \A r \in Rank : step'[r] = "serve" /\ place[r] \in Nat /\ place[r] > Len(Refs)
  BY RefsFacts DEF StartUpEnds, PreloadInv, PreloadTypeOK
<1>2. \A r \in Rank, j \in 1 .. Len(Refs) : Past(r, j)' /\ ~ Undecided(r, j)'
  BY <1>1, RefsFacts DEF Past, Undecided
<1>3. \A r \in Rank : PastWarmUp(r)'
  BY <1>1, RefsFacts DEF PastWarmUp
<1> QED
  BY <1>1, <1>2, <1>3 DEF PreloadInv, Places, OnDisk, Rendering, Warming

\* Although each rank decides for itself, and rank 0 saves while the others go
\* on, no rank skips an image that another renders: of images with different
\* keys, whatever files an earlier server left.
THEOREM SameRenderSafety == Different => (PreloadSpec => []SameRender)
<1> SUFFICES ASSUME Different PROVE PreloadSpec => []SameRender
  OBVIOUS
<1>1. PreloadInit => PreloadInv
  BY RefsFacts DEF PreloadInit, PreloadInv, PreloadTypeOK, Places, OnDisk, Rendering, Warming,
                   Past, PastWarmUp
<1>2. PreloadInv /\ [PreloadNext]_preloadVars => PreloadInv'
  <2> SUFFICES ASSUME PreloadInv, [PreloadNext]_preloadVars PROVE PreloadInv'
    OBVIOUS
  <2>1. CASE UNCHANGED preloadVars
    BY <2>1 DEF preloadVars, PreloadInv, PreloadTypeOK, Places, OnDisk, Rendering, Warming,
                Past, Undecided, PastWarmUp
  <2>2. CASE PreloadNext
    <3>1. PreloadTypeOK'
      BY <2>2, PreloadTypeStep DEF PreloadInv
    <3>2. (Places /\ OnDisk /\ Rendering /\ Warming)'
      BY <2>2, HitSame, MissSame, SaveSame, NextSame, CollectiveSame, EndSame
         DEF PreloadNext, PreloadStep
    <3> QED
      BY <3>1, <3>2 DEF PreloadInv
  <2> QED
    BY <2>1, <2>2
<1> QED
  BY <1>1, <1>2, SameFromInv, PTL DEF PreloadSpec

-------------------------------------------------------------------------------
(* The audio of a session.                                                 *)

\* The write position stays inside the array, so the next append of a shorter
\* chunk never indexes outside of it.
LEMMA PosInRange ==
    ASSUME NEW pos \in Index, NEW len \in Nat
    PROVE  AppendPos(pos, len) \in Index
BY BufLenAssumption, SMT DEF AppendPos, Index

\* Appending a chunk and reading the buffer from the write position returned is
\* shifting the window by the length of the chunk: the oldest samples are gone,
\* the newest are the end of the chunk, the order is kept.
THEOREM AppendShiftsWindow ==
    ASSUME NEW S, NEW now \in [Index -> S], NEW pos \in Index,
           NEW len \in Nat, NEW chunk \in [0 .. len - 1 -> S]
    PROVE  Linearize(AppendRing(now, pos, chunk, len), AppendPos(pos, len))
              = Heard(Linearize(now, pos), chunk, len)
<1> DEFINE new == AppendRing(now, pos, chunk, len)
           at  == AppendPos(pos, len)
           old == Linearize(now, pos)
<1>1. SUFFICES ASSUME NEW i \in Index
               PROVE  Linearize(new, at)[i] = Heard(old, chunk, len)[i]
  BY DEF Linearize, Heard
<1>2. CASE len >= BufLen
  <2>1. /\ at = 0
        /\ \A k \in Index : new[k] = chunk[len - BufLen + k]
    BY <1>2 DEF AppendRing, AppendPos
  <2>2. Linearize(new, at)[i] = new[i]
    BY <2>1, BufLenAssumption, SMT DEF Linearize, Index
  <2>3. Heard(old, chunk, len)[i] = chunk[i + len - BufLen]
    BY <1>2, BufLenAssumption, SMT DEF Heard, Index
  <2>4. len - BufLen + i = i + len - BufLen
    BY BufLenAssumption, SMT DEF Index
  <2> QED
    BY <2>1, <2>2, <2>3, <2>4
<1>3. CASE len < BufLen
  <2>1. \A k \in Index : new[k] = IF pos <= k /\ k < pos + len THEN chunk[k - pos]
                                  ELSE IF k < pos + len - BufLen THEN chunk[k + BufLen - pos]
                                  ELSE now[k]
    BY <1>3, BufLenAssumption, SMT DEF AppendRing
  <2>2. \A k \in Index : old[k] = IF k < BufLen - pos THEN now[pos + k]
                                  ELSE now[k - (BufLen - pos)]
    BY DEF Linearize
  <2>3. Linearize(new, at)[i] = IF i < BufLen - at THEN new[at + i] ELSE new[i - (BufLen - at)]
    BY DEF Linearize
  <2>4. Heard(old, chunk, len)[i] = IF i + len < BufLen THEN old[i + len]
                                    ELSE chunk[i + len - BufLen]
    BY DEF Heard
  <2> HIDE DEF new, old
  <2>5. CASE pos + len < BufLen
    <3>1. at = pos + len
      BY <1>3, <2>5, BufLenAssumption, SMT DEF AppendPos
    <3> QED
      BY <1>3, <2>1, <2>2, <2>3, <2>4, <2>5, <3>1, BufLenAssumption, SMT DEF Index
  <2>6. CASE pos + len >= BufLen
    <3>1. at = pos + len - BufLen
      BY <1>3, <2>6, BufLenAssumption, SMT DEF AppendPos, Index
    <3>2. CASE i >= BufLen - at
      <4>1. /\ i - (BufLen - at) \in Index
            /\ i - (BufLen - at) < pos /\ i - (BufLen - at) < pos + len - BufLen
            /\ (i - (BufLen - at)) + BufLen - pos = i + len - BufLen
            /\ ~ (i + len < BufLen)
        BY <1>3, <2>6, <3>1, <3>2, BufLenAssumption, SMT DEF Index
      <4>2. new[i - (BufLen - at)] = chunk[(i - (BufLen - at)) + BufLen - pos]
        BY <2>1, <3>1, <4>1, BufLenAssumption, SMT DEF Index
      <4> QED
        BY <2>3, <2>4, <3>1, <3>2, <4>1, <4>2, BufLenAssumption, SMT DEF Index
    <3>3. CASE i < BufLen - at /\ i + len < BufLen
      <4>1. /\ at + i \in Index /\ i + len \in Index
            /\ at + i < pos /\ ~ (at + i < pos + len - BufLen)
            /\ ~ (i + len < BufLen - pos)
            /\ i + len - (BufLen - pos) = at + i
        BY <1>3, <2>6, <3>1, <3>3, BufLenAssumption, SMT DEF Index
      <4>2. new[at + i] = now[at + i]
        BY <2>1, <3>1, <4>1, BufLenAssumption, SMT DEF Index
      <4>3. old[i + len] = now[i + len - (BufLen - pos)]
        BY <2>2, <3>1, <4>1, BufLenAssumption, SMT DEF Index
      <4> QED
        BY <2>3, <2>4, <3>3, <4>1, <4>2, <4>3, Zenon
    <3>4. CASE i < BufLen - at /\ ~ (i + len < BufLen)
      <4>1. /\ at + i \in Index
            /\ pos <= at + i /\ at + i < pos + len
            /\ at + i - pos = i + len - BufLen
        BY <1>3, <2>6, <3>1, <3>4, BufLenAssumption, SMT DEF Index
      <4>2. new[at + i] = chunk[at + i - pos]
        BY <2>1, <3>1, <4>1, BufLenAssumption, SMT DEF Index
      <4> QED
        BY <2>3, <2>4, <3>4, <4>1, <4>2, Zenon
    <3> QED
      BY <3>1, <3>2, <3>3, <3>4, BufLenAssumption, SMT DEF Index
  <2> QED
    BY <2>5, <2>6, BufLenAssumption, SMT DEF Index
<1> QED
  BY <1>2, <1>3, BufLenAssumption, SMT
-------------------------------------------------------------------------------
(* The buffer of a session.                                                *)

\* WindowIsRecent is inductive with the types of the three arrays.
WindowInv ==
    /\ ring \in [buffer : [Index -> BOOLEAN], pos : Index]
    /\ heard \in [Index -> BOOLEAN]
    /\ WindowIsRecent

\* An append of booleans gives an array of booleans.
LEMMA AppendRingType ==
    ASSUME NEW S, NEW ringNow \in [Index -> S], NEW pos \in Index,
           NEW len \in Nat, NEW chunk \in [0 .. len - 1 -> S]
    PROVE  AppendRing(ringNow, pos, chunk, len) \in [Index -> S]
<1>1. CASE len >= BufLen
  <2>1. \A i \in Index : len - BufLen + i \in 0 .. len - 1
    BY <1>1, BufLenAssumption, SMT DEF Index
  <2> QED
    BY <1>1, <2>1 DEF AppendRing
<1>2. CASE ~ (len >= BufLen)
  <2>1. \A i \in Index : /\ pos <= i /\ i < pos + len => i - pos \in 0 .. len - 1
                         /\ i < pos + len - BufLen => i + BufLen - pos \in 0 .. len - 1
    BY <1>2, BufLenAssumption, SMT DEF Index
  <2> QED
    BY <1>2, <2>1 DEF AppendRing
<1> QED
  BY <1>1, <1>2

\* What the client is heard to say is an array of booleans too.
LEMMA HeardType ==
    ASSUME NEW S, NEW window \in [Index -> S],
           NEW len \in Nat, NEW chunk \in [0 .. len - 1 -> S]
    PROVE  Heard(window, chunk, len) \in [Index -> S]
<1>1. \A i \in Index : /\ i + len < BufLen => i + len \in Index
                       /\ ~ (i + len < BufLen) => i + len - BufLen \in 0 .. len - 1
  BY BufLenAssumption, SMT DEF Index
<1> QED
  BY <1>1 DEF Heard

\* A new session starts with an empty window and an empty buffer.
LEMMA EmptyWindow ==
    ASSUME NEW r, NEW h, r = [buffer |-> Quiet, pos |-> 0], h = Quiet
    PROVE  /\ r \in [buffer : [Index -> BOOLEAN], pos : Index]
           /\ h \in [Index -> BOOLEAN]
           /\ Linearize(r.buffer, r.pos) = h
<1>1. 0 \in Index /\ Quiet \in [Index -> BOOLEAN]
  BY BufLenAssumption, SMT DEF Index, Quiet
<1>2. \A i \in Index : /\ i < BufLen - 0 => 0 + i \in Index
                       /\ ~ (i < BufLen - 0) => i - (BufLen - 0) \in Index
  BY BufLenAssumption, SMT DEF Index
<1>3. Linearize(Quiet, 0) = Quiet
  BY <1>2 DEF Linearize, Quiet
<1> QED
  BY <1>1, <1>3

\* A chunk, whether it is rendered, answered from the bank or fails, moves
\* the buffer and the window alike.
LEMMA ListenKeepsWindow ==
    ASSUME WindowInv, NEW silent \in BOOLEAN, Listen(silent)
    PROVE  WindowInv'
<1> DEFINE chunk == [i \in 0 .. ChunkLen - 1 |-> silent]
<1>1. ChunkLen \in Nat /\ chunk \in [0 .. ChunkLen - 1 -> BOOLEAN]
  BY AudioAssumption
<1>2. /\ ring' = [buffer |-> AppendRing(ring.buffer, ring.pos, chunk, ChunkLen),
                  pos    |-> AppendPos(ring.pos, ChunkLen)]
      /\ heard' = Heard(heard, chunk, ChunkLen)
  BY DEF Listen
<1>3. /\ ring.buffer \in [Index -> BOOLEAN] /\ ring.pos \in Index
      /\ heard \in [Index -> BOOLEAN]
      /\ Linearize(ring.buffer, ring.pos) = heard
  BY DEF WindowInv, WindowIsRecent
<1> HIDE DEF chunk
<1>4. AppendRing(ring.buffer, ring.pos, chunk, ChunkLen) \in [Index -> BOOLEAN]
  BY <1>1, <1>3, AppendRingType
<1>5. AppendPos(ring.pos, ChunkLen) \in Index
  BY <1>1, <1>3, PosInRange
<1>6. Heard(heard, chunk, ChunkLen) \in [Index -> BOOLEAN]
  BY <1>1, <1>3, HeardType
<1>7. Linearize(AppendRing(ring.buffer, ring.pos, chunk, ChunkLen), AppendPos(ring.pos, ChunkLen))
         = Heard(heard, chunk, ChunkLen)
  <2>1. \A r \in [Index -> BOOLEAN], p \in Index, c \in [0 .. ChunkLen - 1 -> BOOLEAN] :
           Linearize(AppendRing(r, p, c, ChunkLen), AppendPos(p, ChunkLen))
              = Heard(Linearize(r, p), c, ChunkLen)
    BY <1>1, AppendShiftsWindow
  <2> QED
    BY <1>1, <1>3, <2>1
<1> QED
  BY <1>2, <1>4, <1>5, <1>6, <1>7 DEF WindowInv, WindowIsRecent

\* No step of the session takes the buffer and the window apart.
LEMMA StepKeepsWindow ==
    ASSUME WindowInv, [AudioNext]_audioVars
    PROVE  WindowInv'
<1>1. CASE Stop
  BY <1>1 DEF Stop, WindowInv, WindowIsRecent
<1>2. ASSUME NEW a \in Avatar, StartSession(a) PROVE WindowInv'
  <2>1. ring' = [buffer |-> Quiet, pos |-> 0] /\ heard' = Quiet
    BY <1>2 DEF StartSession
  <2> QED
    BY <2>1, EmptyWindow DEF WindowInv, WindowIsRecent
<1>3. CASE Chunk
  <2>1. PICK silent \in BOOLEAN : Listen(silent)
    BY <1>3 DEF Chunk, Live, Replay, Refresh, ChunkFails
  <2> QED
    BY <2>1, ListenKeepsWindow
<1>4. CASE UNCHANGED audioVars
  BY <1>4 DEF audioVars, WindowInv, WindowIsRecent
<1> QED
  BY <1>1, <1>2, <1>3, <1>4 DEF AudioNext

\* The audio a render sees is what the client sent last, in order, through any
\* number of wraps, failed renders, refreshes and sessions.
THEOREM WindowSafety == AudioSpec => []WindowIsRecent
<1>1. AudioInit => WindowInv
  BY EmptyWindow DEF AudioInit, WindowInv, WindowIsRecent
<1>2. WindowInv /\ [AudioNext]_audioVars => WindowInv'
  BY StepKeepsWindow
<1>3. WindowInv => WindowIsRecent
  BY DEF WindowInv
<1> QED
  BY <1>1, <1>2, <1>3, PTL DEF AudioSpec
-------------------------------------------------------------------------------
(* The frames.  A reply reads and a refresh writes the slot the cursor is  *)
(* at, so that the cursor is inside the bank is part of the argument.      *)

Fields == {"active", "avatar", "bank", "index", "direction", "hold", "using",
           "silence", "refresh", "output", "locked"}

CursorInBank ==
    session.active =>
        /\ session.avatar \in Avatar
        /\ DOMAIN session.bank = 0 .. BankSize[session.avatar] - 1
        /\ BankSize[session.avatar] > 0 => session.index \in 0 .. BankSize[session.avatar] - 1
        /\ session.direction \in {-1, 1}

FramesInv == DOMAIN session = Fields /\ CursorInBank /\ OwnAvatarOnly

\* What a chunk hands to Shown: the session but for the fields of the cursor and
\* the counters, with the cursor inside the bank.
SameShow(s) ==
    /\ DOMAIN s = Fields
    /\ s.active = session.active /\ s.avatar = session.avatar /\ s.bank = session.bank
    /\ BankSize[session.avatar] > 0 => s.index \in 0 .. BankSize[session.avatar] - 1
    /\ s.direction \in {-1, 1}

\* The cursor stays inside the bank, whichever way the bank is played.
LEMMA AdvanceInBank ==
    ASSUME NEW size \in Nat \ {0}, NEW index \in 0 .. size - 1, NEW direction \in {-1, 1},
           NEW n \in Advance(index, direction, size)
    PROVE  n[1] \in 0 .. size - 1 /\ n[2] \in {-1, 1}
<1>1. CASE size <= 1
  BY <1>1 DEF Advance
<1>2. CASE ~ (size <= 1) /\ Playback \in {"loop", "random"}
  <2>1. \A k \in Nat : k % size \in 0 .. size - 1
    BY SMT
  <2>2. \A skip \in 1 .. size - 1 : index + skip \in Nat
    BY SMT
  <2>3. index + 1 \in Nat
    BY SMT
  <2> QED
    BY <1>2, <2>1, <2>2, <2>3 DEF Advance
<1>3. CASE ~ (size <= 1) /\ Playback \notin {"loop", "random"}
  BY <1>3 DEF Advance
<1> QED
  BY <1>1, <1>2, <1>3

\* The hold runs down or the cursor moves on: either way the session shows what
\* it showed and the cursor is in its bank.
LEMMA NextSlotInBank ==
    ASSUME FramesInv, session.active, BankSize[session.avatar] > 0,
           NEW silence, NEW refresh,
           NEW moved \in NextSlot([session EXCEPT !.silence = silence, !.refresh = refresh])
    PROVE  SameShow(moved)
<1> DEFINE t == [session EXCEPT !.silence = silence, !.refresh = refresh]
<1>1. /\ DOMAIN session = Fields
      /\ session.avatar \in Avatar /\ BankSize[session.avatar] \in Nat \ {0}
      /\ session.index \in 0 .. BankSize[session.avatar] - 1 /\ session.direction \in {-1, 1}
  BY AudioAssumption DEF FramesInv, CursorInBank
<1>2. /\ DOMAIN t = Fields /\ t.active = session.active /\ t.avatar = session.avatar
      /\ t.bank = session.bank /\ t.index = session.index /\ t.direction = session.direction
  BY <1>1 DEF Fields
<1>3. Size(t) = BankSize[session.avatar]
  BY <1>1, <1>2 DEF Size
<1>4. moved \in NextSlot(t)
  OBVIOUS
<1> HIDE DEF t
<1>5. CASE moved = HoldOn(t)
  BY <1>1, <1>2, <1>5 DEF SameShow, Fields, HoldOn
<1>6. ASSUME NEW n \in Advance(t.index, t.direction, Size(t)), NEW h, moved = MoveTo(t, n, h)
      PROVE  SameShow(moved)
  <2>1. n[1] \in 0 .. BankSize[session.avatar] - 1 /\ n[2] \in {-1, 1}
    BY <1>1, <1>2, <1>3, AdvanceInBank
  <2>2. /\ DOMAIN moved = Fields /\ moved.active = t.active /\ moved.avatar = t.avatar
        /\ moved.bank = t.bank /\ moved.index = n[1] /\ moved.direction = n[2]
    BY <1>2, <1>6 DEF Fields, MoveTo
  <2> QED
    BY <1>2, <2>1, <2>2 DEF SameShow
<1>7. \/ moved = HoldOn(t)
      \/ \E n \in Advance(t.index, t.direction, Size(t)), h \in HoldSamples(Size(t)) :
            moved = MoveTo(t, n, h)
  BY <1>4, SMT DEF NextSlot
<1> QED
  BY <1>5, <1>6, <1>7

\* Blending frames of the session with frames of the session shows no other avatar.
LEMMA BlendIsOwn ==
    ASSUME FramesInv, session.active, NEW mode
    PROVE  Blend({session.avatar}, mode) = {session.avatar}
BY DEF Blend, FramesInv, OwnAvatarOnly

\* A chunk that ends in Shown with frames of the session's avatar keeps the
\* invariant: it writes the slot the cursor was at, which is in the bank.
LEMMA ShownIsOwn ==
    ASSUME FramesInv, session.active, NEW s, SameShow(s), NEW mode,
           session' = Shown(s, {session.avatar}, mode)
    PROVE  FramesInv'
<1>1. /\ DOMAIN session = Fields /\ DOMAIN s = Fields
      /\ s.active /\ s.avatar = session.avatar /\ s.bank = session.bank
  BY DEF FramesInv, SameShow
<1>2. /\ DOMAIN session' = Fields
      /\ session'.active = s.active /\ session'.avatar = s.avatar
      /\ session'.index = s.index /\ session'.direction = s.direction
      /\ session'.output = {session.avatar}
      /\ session'.locked = (IF mode = "live" THEN {} ELSE {session.avatar})
      /\ session'.bank = IF mode = "live" THEN session.bank
                         ELSE [session.bank EXCEPT ![session.index] = {session.avatar}]
  BY <1>1 DEF Shown, Fields
<1>3. DOMAIN session'.bank = DOMAIN session.bank
  BY <1>2
<1>4. \A slot \in DOMAIN session.bank : session'.bank[slot] = {session.avatar}
  BY <1>2 DEF FramesInv, OwnAvatarOnly
<1>5. CursorInBank'
  BY <1>1, <1>2, <1>3 DEF FramesInv, CursorInBank, SameShow
<1>6. OwnAvatarOnly'
  BY <1>1, <1>2, <1>3, <1>4 DEF OwnAvatarOnly
<1> QED
  BY <1>2, <1>5, <1>6 DEF FramesInv

\* A session that is not there, or has just begun, has nobody else's frames.
LEMMA StartIsOwn ==
    /\ session = Cleared => FramesInv
    /\ \A a \in Avatar : StartSession(a) => FramesInv'
<1>1. ASSUME session = Cleared PROVE FramesInv
  BY <1>1 DEF Cleared, FramesInv, CursorInBank, OwnAvatarOnly, Fields
<1>2. ASSUME NEW a \in Avatar, StartSession(a) PROVE FramesInv'
  <2>1. PICK h : session' = [Cleared EXCEPT !.active = TRUE, !.avatar = a,
                                            !.bank = LoadBank(a), !.hold = h]
    BY <1>2 DEF StartSession
  <2>2. /\ DOMAIN session' = Fields
        /\ session'.active /\ session'.avatar = a /\ session'.bank = LoadBank(a)
        /\ session'.index = 0 /\ session'.direction = 1
        /\ session'.output = {} /\ session'.locked = {}
    BY <2>1 DEF Cleared, Fields
  <2>3. BankSize[a] \in Nat
    BY AudioAssumption
  <2>4. CursorInBank'
    BY <2>2, <2>3 DEF CursorInBank, LoadBank
  <2>5. OwnAvatarOnly'
    BY <2>2 DEF OwnAvatarOnly, LoadBank
  <2> QED
    BY <2>2, <2>4, <2>5 DEF FramesInv
<1> QED
  BY <1>1, <1>2

\* A chunk is answered with frames of the session's avatar.
LEMMA ChunkIsOwn ==
    ASSUME FramesInv, Chunk
    PROVE  FramesInv'
<1>0. /\ session.active /\ DOMAIN session = Fields /\ session.avatar \in Avatar
      /\ BankSize[session.avatar] \in Nat /\ Size(session) = BankSize[session.avatar]
  BY AudioAssumption
     DEF Chunk, Live, Replay, Refresh, ChunkFails, FramesInv, CursorInBank, Size
<1>1. CASE Live
  <2>1. PICK silent \in BOOLEAN, h \in HoldSamples(Size(session)) :
           session' = Shown([session EXCEPT !.silence = SilenceRun(silent), !.hold = h,
                                            !.refresh = 0],
                            Blend({session.avatar}, "live"), "live")
    BY <1>1 DEF Live
  <2> DEFINE s == [session EXCEPT !.silence = SilenceRun(silent), !.hold = h, !.refresh = 0]
  <2>2. /\ DOMAIN s = Fields /\ s.active = session.active /\ s.avatar = session.avatar
        /\ s.bank = session.bank /\ s.index = session.index /\ s.direction = session.direction
    BY <1>0 DEF Fields
  <2>3. session' = Shown(s, {session.avatar}, "live")
    BY <1>0, <2>1, BlendIsOwn
  <2> HIDE DEF s
  <2>4. SameShow(s)
    BY <1>0, <2>2 DEF SameShow, FramesInv, CursorInBank
  <2> QED
    BY <1>0, <2>3, <2>4, ShownIsOwn
<1>2. CASE Replay
  <2>1. BankSize[session.avatar] > 0
    BY <1>0, <1>2 DEF Replay, AnswersFromBank
  <2>2. session.bank[session.index] = {session.avatar}
    BY <1>0, <2>1 DEF FramesInv, CursorInBank, OwnAvatarOnly
  <2>3. PICK s \in NextSlot([session EXCEPT !.silence = SilenceRun(TRUE),
                              !.refresh = IF session.using THEN @ + 1 ELSE @]) :
           session' = Shown(s, Blend(session.bank[session.index], "idle"), "idle")
    BY <1>2 DEF Replay
  <2>4. session' = Shown(s, {session.avatar}, "idle")
    BY <1>0, <2>2, <2>3, BlendIsOwn
  <2>5. SameShow(s)
    BY <1>0, <2>1, <2>3, NextSlotInBank
  <2> QED
    BY <1>0, <2>4, <2>5, ShownIsOwn
<1>3. CASE Refresh
  <2>1. BankSize[session.avatar] > 0
    BY <1>0, <1>3 DEF Refresh, AnswersFromBank
  <2>2. PICK s \in NextSlot([session EXCEPT !.silence = SilenceRun(TRUE), !.refresh = 0]) :
           session' = Shown(s, Blend({session.avatar}, "idle_refresh"), "idle_refresh")
    BY <1>3 DEF Refresh
  <2>3. session' = Shown(s, {session.avatar}, "idle_refresh")
    BY <1>0, <2>2, BlendIsOwn
  <2>4. SameShow(s)
    BY <1>0, <2>1, <2>2, NextSlotInBank
  <2> QED
    BY <1>0, <2>3, <2>4, ShownIsOwn
<1>4. CASE ChunkFails
  <2>1. PICK silent \in BOOLEAN : session' = [session EXCEPT !.silence = SilenceRun(silent)]
    BY <1>4 DEF ChunkFails
  <2>2. /\ DOMAIN session' = Fields /\ session'.active = session.active
        /\ session'.avatar = session.avatar /\ session'.bank = session.bank
        /\ session'.index = session.index /\ session'.direction = session.direction
        /\ session'.output = session.output /\ session'.locked = session.locked
    BY <1>0, <2>1 DEF Fields
  <2> QED
    BY <2>2 DEF FramesInv, CursorInBank, OwnAvatarOnly
<1> QED
  BY <1>1, <1>2, <1>3, <1>4 DEF Chunk

\* However the sessions of different avatars follow one another on the
\* connection, and whatever is faded, locked and written back into the bank, a
\* session shows its own avatar only.
THEOREM OwnAvatarSafety == AudioSpec => []OwnAvatarOnly
<1>1. AudioInit => FramesInv
  BY StartIsOwn DEF AudioInit
<1>2. FramesInv /\ [AudioNext]_audioVars => FramesInv'
  <2>1. ASSUME Stop PROVE FramesInv'
    BY <2>1 DEF Stop, Cleared, FramesInv, CursorInBank, OwnAvatarOnly, Fields
  <2>2. ASSUME FramesInv, UNCHANGED audioVars PROVE FramesInv'
    BY <2>2 DEF audioVars, FramesInv, CursorInBank, OwnAvatarOnly
  <2> QED
    BY <2>1, <2>2, StartIsOwn, ChunkIsOwn DEF AudioNext
<1>3. FramesInv => OwnAvatarOnly
  BY DEF FramesInv
<1> QED
  BY <1>1, <1>2, <1>3, PTL DEF AudioSpec

(***************************************************************************)
(* The handlers, coordinators and the shutdown of the FlashTalk worker     *)
(* implement the work pool (ServesWorkPool), for any requests and any      *)
(* number of coordinators: however old and new coordinators, the drain and *)
(* late handlers meet, a request is with one of them, is run at most once, *)
(* and is done only afterwards.                                            *)
(*                                                                         *)
(* The mapping needs to know that a request is in one place (Apart), that  *)
(* who is not done waits (HeldWaits), and that what waits was not run      *)
(* (NotRunYet); Fresh is what makes a queued request new.                  *)
(***************************************************************************)

Item == Request \cup {Sentinel}

Before == {"idle", "start", "loading", "ready", "route", "put"}

HandTypeOK ==
    /\ queue \in Seq(Item)
    /\ coordinator \in [Coordinator -> [at : {"unborn", "loop", "get", "begin", "run", "dead"},
                                        item : Request \cup {NoItem}]]
    /\ main \in [at : {"serving", "sentinel", "join", "drain", "fail", "dist", "loaded",
                       "started", "over"}, item : Request \cup {NoItem}]
    /\ call \in [Request -> Before \cup {"wait", "returned"}]
    /\ reply \in [Request -> {"none", "result", "error"}]
    /\ runs \in [Request -> {0, 1}]

\* What is in a sequence, and that no request is in it twice.
Occurs(s) == {s[i] : i \in DOMAIN s}
Once(s) == \A i, j \in DOMAIN s : s[i] = s[j] /\ s[i] \in Request => i = j

Holding == {"begin", "run"}

HandsFull ==
    /\ \A k \in Coordinator : coordinator[k].item \in Request <=> coordinator[k].at \in Holding
    /\ main.item \in Request <=> main.at = "fail"

Apart ==
    /\ Once(queue)
    /\ \A k \in Coordinator : coordinator[k].item \in Request =>
          /\ coordinator[k].item \notin Queued /\ coordinator[k].item # main.item
          /\ \A l \in Coordinator : coordinator[l].item = coordinator[k].item => l = k
    /\ main.item \in Request => main.item \notin Queued

Held(r) ==
    r \in Queued \/ main.item = r \/ \E k \in Coordinator : coordinator[k].item = r

HeldWaits == \A r \in Request : Held(r) => call[r] = "wait" /\ reply[r] = "none"

InRun(r) == \E k \in Coordinator : coordinator[k].at = "run" /\ coordinator[k].item = r

NotRunYet == \A r \in Request : Held(r) /\ ~ InRun(r) => runs[r] = 0

Fresh ==
    \A r \in Request : call[r] \in Before => reply[r] = "none" /\ runs[r] = 0

WorkerInv == HandTypeOK /\ HandsFull /\ Apart /\ HeldWaits /\ NotRunYet /\ Fresh

--------------------------------------------------------------------------------
(* Sequences.                                                              *)

\* What append adds to the queue.
LEMMA OnAppend ==
    ASSUME NEW s \in Seq(Item), NEW x \in Item
    PROVE  /\ Append(s, x) \in Seq(Item) /\ Occurs(Append(s, x)) = Occurs(s) \cup {x}
           /\ Once(s) /\ (x \in Request => x \notin Occurs(s)) => Once(Append(s, x))
<1>1. /\ DOMAIN s = 1 .. Len(s) /\ Len(s) \in Nat /\ Append(s, x) \in Seq(Item)
      /\ DOMAIN Append(s, x) = DOMAIN s \cup {Len(s) + 1}
      /\ \A k \in DOMAIN s : Append(s, x)[k] = s[k]
      /\ Append(s, x)[Len(s) + 1] = x
  OBVIOUS
<1>2. Occurs(Append(s, x)) = Occurs(s) \cup {x}
  BY <1>1 DEF Occurs
<1>3. ASSUME Once(s), x \in Request => x \notin Occurs(s) PROVE Once(Append(s, x))
  BY <1>1, <1>3 DEF Occurs, Once
<1> QED BY <1>1, <1>2, <1>3

\* What taking the head leaves.
LEMMA OnTail ==
    ASSUME NEW s \in Seq(Item), s # << >>
    PROVE  /\ Head(s) \in Item /\ Tail(s) \in Seq(Item)
           /\ Occurs(s) = Occurs(Tail(s)) \cup {Head(s)}
           /\ Once(s) => Once(Tail(s)) /\ (Head(s) \in Request => Head(s) \notin Occurs(Tail(s)))
<1>1. /\ Head(s) = s[1] /\ Head(s) \in Item /\ Tail(s) \in Seq(Item)
      /\ Len(s) \in Nat \ {0} /\ DOMAIN s = 1 .. Len(s)
      /\ DOMAIN Tail(s) = 1 .. (Len(s) - 1)
      /\ \A k \in 1 .. (Len(s) - 1) : Tail(s)[k] = s[k + 1]
  OBVIOUS
<1>2. Occurs(s) = Occurs(Tail(s)) \cup {Head(s)}
  <2>1. \A k \in DOMAIN s : k = 1 \/ (k - 1 \in DOMAIN Tail(s) /\ Tail(s)[k - 1] = s[k])
    BY <1>1
  <2>2. \A k \in DOMAIN Tail(s) : k + 1 \in DOMAIN s
    BY <1>1
  <2>3. \A k \in DOMAIN s : s[k] \in Occurs(Tail(s)) \cup {Head(s)}
    BY <1>1, <2>1 DEF Occurs
  <2>4. \A k \in DOMAIN Tail(s) : Tail(s)[k] \in Occurs(s)
    BY <1>1, <2>2 DEF Occurs
  <2>5. Head(s) \in Occurs(s)
    BY <1>1 DEF Occurs
  <2> QED BY <2>3, <2>4, <2>5 DEF Occurs
<1>3. ASSUME Once(s)
      PROVE  Once(Tail(s)) /\ (Head(s) \in Request => Head(s) \notin Occurs(Tail(s)))
  <2>1. \A k \in DOMAIN Tail(s) : k + 1 \in DOMAIN s /\ k + 1 # 1 /\ 1 \in DOMAIN s
    BY <1>1
  <2> QED BY <1>1, <1>3, <2>1 DEF Occurs, Once
<1> QED BY <1>1, <1>2, <1>3

\* The set of queued requests is what occurs in the queue.
LEMMA QueuedOccurs == Queued = Occurs(queue) /\ Queued' = Occurs(queue')
BY DEF Queued, Occurs

--------------------------------------------------------------------------------
(* The invariant.                                                          *)

\* Nobody has anything when the worker was started.
LEMMA InitWorker == FlashTalkInit => WorkerInv
<1> SUFFICES ASSUME FlashTalkInit PROVE WorkerInv
  OBVIOUS
<1>1. First \in Coordinator
  BY FlashTalkAssumption DEF First
<1>2. /\ \A k \in Coordinator : coordinator[k].item = NoItem
                               /\ coordinator[k].at \in {"unborn", "loop"}
      /\ main.item = NoItem /\ main.at = "serving" /\ NoItem \notin Request
      /\ queue = << >> /\ Queued = {}
  BY FlashTalkAssumption DEF FlashTalkInit, Off, Queued
<1>3. HandTypeOK
  BY <1>2 DEF FlashTalkInit, HandTypeOK, Off, Item, Before
<1>4. HandsFull /\ Apart
  BY <1>2 DEF HandsFull, Apart, Once, Holding
<1>5. HeldWaits /\ NotRunYet
  <2>1. \A r \in Request : ~ Held(r)
    BY <1>2 DEF Held
  <2> QED BY <2>1 DEF HeldWaits, NotRunYet
<1>6. Fresh
  BY DEF FlashTalkInit, Fresh, Before
<1> QED BY <1>3, <1>4, <1>5, <1>6 DEF WorkerInv

\* A step after which everybody has in hand what he had.
LEMMA SameHands ==
    ASSUME WorkerInv, HandTypeOK', UNCHANGED <<main.item, reply, runs>>,
           \/ UNCHANGED queue
           \/ Once(queue') /\ \A x \in Request : x \in Queued' <=> x \in Queued,
           main'.at = "fail" <=> main.at = "fail",
           \A k \in Coordinator : /\ coordinator'[k].item = coordinator[k].item
                                  /\ coordinator'[k].at \in Holding <=> coordinator[k].at \in Holding
                                  /\ coordinator'[k].at = "run" <=> coordinator[k].at = "run",
           \A x \in Request : \/ call'[x] = call[x]
                              \/ /\ call[x] # "wait" \/ reply[x] # "none"
                                 /\ call'[x] \in Before => call[x] \in Before
    PROVE  WorkerInv' /\ \A x \in Request : Held(x)' <=> Held(x)
<1>0. Once(queue') /\ \A x \in Request : x \in Queued' <=> x \in Queued
  <2>1. CASE UNCHANGED queue
    BY <2>1 DEF WorkerInv, Apart, Queued, Once
  <2> QED BY <2>1
<1>1. \A x \in Request : (Held(x)' <=> Held(x)) /\ (InRun(x)' <=> InRun(x))
  BY <1>0 DEF Held, InRun
<1>2. HandsFull'
  BY DEF WorkerInv, HandsFull
<1>3. Apart'
  BY <1>0 DEF WorkerInv, Apart
<1>4. HeldWaits'
  BY <1>1 DEF WorkerInv, HeldWaits
<1>5. NotRunYet'
  BY <1>1 DEF WorkerInv, NotRunYet
<1>6. Fresh'
  BY DEF WorkerInv, Fresh
<1> QED BY <1>1, <1>2, <1>3, <1>4, <1>5, <1>6 DEF WorkerInv

\* submit
LEMMA HandlerKeeps ==
    ASSUME WorkerInv, NEW r \in Request, Submit(r) \/ HandlerStep(r)
    PROVE  WorkerInv'
<1>0. HandTypeOK /\ HandTypeOK'
  <2>1. HandTypeOK
    BY DEF WorkerInv
  <2>2. CASE Submit(r) \/ Start(r) \/ LoadFails(r) \/ Ready(r) \/ Route(r) \/ Return(r)
    BY <2>1, <2>2 DEF HandTypeOK, Submit, Start, LoadFails, Ready, Route, Return, Go, Before
  <2>3. CASE Put(r)
    BY <2>1, <2>3, OnAppend DEF HandTypeOK, Put, Go, Before, Item
  <2>4. CASE \E k \in Coordinator : Load(r, k)
    BY <2>1, <2>4 DEF HandTypeOK, Load, Go, Before
  <2> QED BY <2>1, <2>2, <2>3, <2>4 DEF HandlerStep
<1>1. CASE Submit(r) \/ Start(r) \/ LoadFails(r) \/ Ready(r) \/ Route(r) \/ Return(r)
  BY <1>0, <1>1, SameHands, ZenonT(60)
  DEF HandTypeOK, Submit, Start, LoadFails, Ready, Route, Return, Go, Before
<1>2. ASSUME NEW k \in Coordinator, Load(r, k) PROVE WorkerInv'
  <2>1. \A l \in Coordinator : /\ coordinator'[l].item = coordinator[l].item
                               /\ coordinator'[l].at \in Holding <=> coordinator[l].at \in Holding
                               /\ coordinator'[l].at = "run" <=> coordinator[l].at = "run"
    BY <1>0, <1>2 DEF HandTypeOK, Load, Holding
  <2> QED BY <1>0, <1>2, <2>1, SameHands DEF HandTypeOK, Load, Go, Before
<1>3. CASE Put(r)
  <2>1. /\ call[r] = "put" /\ queue \in Seq(Item) /\ r \in Item /\ queue' = Append(queue, r)
        /\ UNCHANGED <<coordinator, main, reply, runs>>
        /\ call' = [call EXCEPT ![r] = "wait"] /\ call \in [Request -> Before \cup {"wait", "returned"}]
    BY <1>0, <1>3 DEF HandTypeOK, Put, Go, Item
  <2>2. ~ Held(r) /\ reply[r] = "none" /\ runs[r] = 0
    BY <2>1 DEF WorkerInv, HeldWaits, Fresh, Before
  <2>3. Queued' = Queued \cup {r} /\ Once(queue')
    BY <2>1, <2>2, OnAppend, QueuedOccurs DEF WorkerInv, Apart, Held
  <2>4. \A x \in Request : (Held(x)' <=> Held(x) \/ x = r) /\ (InRun(x)' <=> InRun(x))
    BY <2>1, <2>3 DEF Held, InRun
  <2>5. HandsFull' /\ Fresh'
    BY <2>1 DEF WorkerInv, HandsFull, Fresh, Before
  <2>6. Apart'
    BY <2>1, <2>2, <2>3 DEF WorkerInv, Apart, Held
  <2>7. HeldWaits' /\ NotRunYet'
    BY <2>1, <2>2, <2>4 DEF WorkerInv, HeldWaits, NotRunYet
  <2> QED BY <1>0, <2>5, <2>6, <2>7 DEF WorkerInv
<1> QED BY <1>1, <1>2, <1>3 DEF HandlerStep

\* A coordinator lets go of the request it has, which may be answered.
LEMMA LetsGo ==
    ASSUME WorkerInv, HandTypeOK', UNCHANGED <<queue, main, call, runs>>,
           NEW k \in Coordinator, coordinator[k].at \in Holding,
           coordinator'[k].item = NoItem, coordinator'[k].at \notin Holding,
           \A l \in Coordinator \ {k} : coordinator'[l] = coordinator[l],
           \A x \in Request \ {coordinator[k].item} : reply'[x] = reply[x]
    PROVE  WorkerInv'
<1> PICK h \in Request : h = coordinator[k].item
  BY DEF WorkerInv, HandsFull
<1>0. h = coordinator[k].item /\ h \in Request /\ NoItem \notin Request /\ Held(h) /\ call[h] = "wait"
  BY FlashTalkAssumption DEF WorkerInv, HeldWaits, Held
<1>1. Queued' = Queued
  BY DEF Queued
<1>2. ~ Held(h)' /\ \A x \in Request \ {h} : (Held(x)' => Held(x)) /\ (InRun(x) => InRun(x)')
  <2>1. ~ Held(h)'
    BY <1>0, <1>1 DEF WorkerInv, Apart, Held
  <2>2. \A x \in Request \ {h} : (Held(x)' => Held(x)) /\ (InRun(x) => InRun(x)')
    BY <1>0, <1>1 DEF Held, InRun
  <2> QED BY <2>1, <2>2
<1>3. HandsFull'
  BY <1>0 DEF WorkerInv, HandsFull
<1>4. Apart'
  BY <1>0, <1>1 DEF WorkerInv, Apart
<1>5. HeldWaits' /\ NotRunYet'
  BY <1>0, <1>2 DEF WorkerInv, HeldWaits, NotRunYet
<1>6. Fresh'
  BY <1>0 DEF WorkerInv, Fresh, Before
<1> QED BY <1>3, <1>4, <1>5, <1>6 DEF WorkerInv

\* _coordinator_loop
LEMMA CoordinatorKeeps ==
    ASSUME WorkerInv, NEW k \in Coordinator, CoordinatorStep(k)
    PROVE  WorkerInv'
<1>0. HandTypeOK /\ coordinator[k].item \in Request \cup {NoItem} /\ NoItem \notin Request
  BY FlashTalkAssumption DEF WorkerInv, HandTypeOK
<1>1. CASE LookAtFlag(k) \/ GetTimesOut(k)
  <2>1. HandTypeOK'
    BY <1>0, <1>1 DEF HandTypeOK, LookAtFlag, GetTimesOut, Become
  <2>2. coordinator[k].item = NoItem
    BY <1>0, <1>1 DEF WorkerInv, HandsFull, Holding, LookAtFlag, GetTimesOut
  <2> QED
    BY <1>0, <1>1, <2>1, <2>2, SameHands
    DEF HandTypeOK, LookAtFlag, GetTimesOut, Become, Holding
<1>2. CASE Get(k)
  <2>0. /\ coordinator[k].at = "get" /\ queue \in Seq(Item) /\ queue # << >> /\ queue' = Tail(queue)
        /\ UNCHANGED <<main, call, reply, runs>> /\ coordinator[k].item = NoItem
        /\ \A l \in Coordinator \ {k} : coordinator'[l] = coordinator[l]
    BY <1>0, <1>2 DEF Get, Become, HandTypeOK, WorkerInv, HandsFull, Holding
  <2>1. /\ Head(queue) \in Item /\ queue' \in Seq(Item) /\ Queued = Queued' \cup {Head(queue)}
        /\ Once(queue') /\ (Head(queue) \in Request => Head(queue) \notin Queued')
    BY <2>0, OnTail, QueuedOccurs DEF WorkerInv, Apart
  <2>2. CASE Head(queue) = Sentinel
    <3>1. /\ coordinator'[k] = [at |-> "dead", item |-> NoItem] /\ Sentinel \notin Request
          /\ HandTypeOK'
      BY <1>0, <1>2, <2>0, <2>1, <2>2, FlashTalkAssumption DEF Get, Become, HandTypeOK
    <3> QED BY <2>0, <2>1, <2>2, <3>1, SameHands DEF Holding
  <2>3. CASE Head(queue) # Sentinel
    <3> PICK h \in Request : h = Head(queue)
      BY <2>1, <2>3 DEF Item
    <3>1. /\ coordinator' = [coordinator EXCEPT ![k] = [at |-> "begin", item |-> h]]
          /\ coordinator'[k] = [at |-> "begin", item |-> h]
      BY <1>0, <1>2, <2>3 DEF Get, Become, HandTypeOK
    <3>6. HandTypeOK'
      BY <1>0, <2>0, <2>1, <3>1 DEF HandTypeOK
    <3>2. \A x \in Request : (Held(x)' <=> Held(x)) /\ (InRun(x)' <=> InRun(x))
      BY <1>0, <2>0, <2>1, <3>1 DEF Held, InRun
    <3>3. HandsFull' /\ Fresh'
      BY <2>0, <3>1 DEF WorkerInv, HandsFull, Holding, Fresh
    <3>4. Apart'
      BY <1>0, <2>0, <2>1, <3>1 DEF WorkerInv, Apart
    <3>5. HeldWaits' /\ NotRunYet'
      BY <2>0, <3>2 DEF WorkerInv, HeldWaits, NotRunYet
    <3> QED BY <3>3, <3>4, <3>5, <3>6 DEF WorkerInv
  <2> QED BY <2>2, <2>3
<1>3. CASE Begin(k)
  <2>0. coordinator[k].at = "begin" /\ coordinator[k].item \in Request
    BY <1>3 DEF Begin, WorkerInv, HandsFull, Holding
  <2>1. CASE dist
    <3> PICK h \in Request : h = coordinator[k].item
      BY <2>0
    <3>1. /\ UNCHANGED <<queue, main, call, reply>> /\ coordinator'[k] = [at |-> "run", item |-> h]
          /\ \A l \in Coordinator \ {k} : coordinator'[l] = coordinator[l]
          /\ runs' = [runs EXCEPT ![h] = @ + 1] /\ runs \in [Request -> {0, 1}]
      BY <1>0, <1>3, <2>0, <2>1 DEF Begin, HandTypeOK
    <3>2. Held(h) /\ call[h] = "wait" /\ ~ InRun(h) /\ runs[h] = 0
      <4>1. ~ InRun(h)
        BY <2>0 DEF WorkerInv, Apart, InRun
      <4> QED BY <2>0, <4>1 DEF WorkerInv, Held, HeldWaits, NotRunYet
    <3>3. HandTypeOK'
      <4>1. coordinator' = [coordinator EXCEPT ![k].at = "run"]
        BY <1>3, <2>1 DEF Begin
      <4>2. coordinator' \in [Coordinator -> [at : {"unborn", "loop", "get", "begin", "run", "dead"},
                                              item : Request \cup {NoItem}]]
        BY <1>0, <4>1 DEF HandTypeOK
      <4>3. runs' \in [Request -> {0, 1}]
        BY <3>1, <3>2
      <4> QED BY <1>0, <3>1, <4>2, <4>3 DEF HandTypeOK
    <3>4. /\ Queued' = Queued /\ InRun(h)' /\ \A x \in Request : Held(x)' <=> Held(x)
          /\ \A x \in Request \ {h} : runs'[x] = runs[x] /\ (InRun(x) => InRun(x)')
      BY <2>0, <3>1 DEF Held, InRun, Queued
    <3>5. HandsFull' /\ Apart'
      BY <2>0, <3>1, <3>4 DEF WorkerInv, HandsFull, Apart, Holding
    <3>6. HeldWaits' /\ NotRunYet' /\ Fresh'
      BY <3>1, <3>2, <3>4 DEF WorkerInv, HeldWaits, NotRunYet, Fresh, Before
    <3> QED BY <3>3, <3>5, <3>6 DEF WorkerInv
  <2>2. CASE ~ dist
    <3>1. HandTypeOK'
      BY <1>0, <1>3, <2>2 DEF Begin, Become, HandTypeOK
    <3> QED BY <1>0, <1>3, <2>0, <2>2, <3>1, LetsGo DEF Begin, Become, HandTypeOK, Holding
  <2> QED BY <2>1, <2>2
<1>4. CASE RunEnds(k) \/ BroadcastFails(k)
  <2>0. coordinator[k].at = "run" /\ coordinator[k].item \in Request
    BY <1>4 DEF RunEnds, BroadcastFails, WorkerInv, HandsFull, Holding
  <2>1. HandTypeOK'
    <3>1. /\ coordinator' \in {[coordinator EXCEPT ![k] = [at |-> a, item |-> NoItem]] :
                               a \in {"loop", "dead"}}
          /\ UNCHANGED <<queue, main, call, runs>>
          /\ \/ UNCHANGED reply
             \/ \E a \in {"result", "error"} : reply' = [reply EXCEPT ![coordinator[k].item] = a]
      BY <1>4 DEF RunEnds, BroadcastFails, Answer, Become
    <3>2. coordinator' \in [Coordinator -> [at : {"unborn", "loop", "get", "begin", "run", "dead"},
                                            item : Request \cup {NoItem}]]
      BY <1>0, <3>1 DEF HandTypeOK
    <3>3. reply' \in [Request -> {"none", "result", "error"}]
      BY <1>0, <3>1 DEF HandTypeOK
    <3> QED BY <1>0, <3>1, <3>2, <3>3 DEF HandTypeOK
  <2> QED
    BY <1>0, <1>4, <2>0, <2>1, LetsGo
    DEF RunEnds, BroadcastFails, Answer, Become, HandTypeOK, Holding
<1> QED BY <1>1, <1>2, <1>3, <1>4 DEF CoordinatorStep

\* shutdown
LEMMA ShutdownKeeps ==
    ASSUME WorkerInv, Shutdown \/ ShutdownStep
    PROVE  WorkerInv'
<1>0. HandTypeOK /\ main.item \in Request \cup {NoItem} /\ NoItem \notin Request
  BY FlashTalkAssumption DEF WorkerInv, HandTypeOK
<1>1. CASE Shutdown \/ Join \/ DrainEnds \/ Clear
  <2>1. HandTypeOK'
    BY <1>0, <1>1 DEF HandTypeOK, Shutdown, Join, DrainEnds, Clear, Proceed
  <2>2. main.item = NoItem
    BY <1>0, <1>1 DEF WorkerInv, HandsFull, Shutdown, Join, DrainEnds, Clear
  <2> QED
    BY <1>0, <1>1, <2>1, <2>2, SameHands DEF HandTypeOK, Shutdown, Join, DrainEnds, Clear, Proceed
<1>2. CASE PutSentinel
  <2>1. /\ queue \in Seq(Item) /\ Sentinel \in Item /\ Sentinel \notin Request
        /\ queue' = Append(queue, Sentinel) /\ main.item = NoItem
    BY <1>0, <1>2, FlashTalkAssumption DEF PutSentinel, HandTypeOK, Item, WorkerInv, HandsFull
  <2>2. queue' \in Seq(Item) /\ Once(queue') /\ \A x \in Request : x \in Queued' <=> x \in Queued
    BY <2>1, OnAppend, QueuedOccurs DEF WorkerInv, Apart
  <2>3. HandTypeOK'
    BY <1>0, <1>2, <2>2 DEF HandTypeOK, PutSentinel, Proceed
  <2> QED BY <1>0, <1>2, <2>1, <2>2, <2>3, SameHands DEF HandTypeOK, PutSentinel, Proceed
<1>3. CASE DrainTakes
  <2>0. /\ main.at = "drain" /\ queue \in Seq(Item) /\ queue # << >> /\ queue' = Tail(queue)
        /\ UNCHANGED <<coordinator, call, reply, runs>> /\ main.item = NoItem
    BY <1>0, <1>3 DEF DrainTakes, HandTypeOK, WorkerInv, HandsFull
  <2>1. /\ Head(queue) \in Item /\ queue' \in Seq(Item) /\ Queued = Queued' \cup {Head(queue)}
        /\ Once(queue') /\ (Head(queue) \in Request => Head(queue) \notin Queued')
    BY <2>0, OnTail, QueuedOccurs DEF WorkerInv, Apart
  <2>2. CASE Head(queue) = Sentinel
    <3>1. UNCHANGED main /\ Sentinel \notin Request /\ HandTypeOK'
      BY <1>0, <1>3, <2>0, <2>1, <2>2, FlashTalkAssumption DEF DrainTakes, HandTypeOK
    <3> QED BY <2>0, <2>1, <2>2, <3>1, SameHands
  <2>3. CASE Head(queue) # Sentinel
    <3> PICK h \in Request : h = Head(queue)
      BY <2>1, <2>3 DEF Item
    <3>1. main' = [at |-> "fail", item |-> h] /\ HandTypeOK'
      BY <1>0, <1>3, <2>0, <2>1, <2>3 DEF DrainTakes, HandTypeOK
    <3>2. \A x \in Request : (Held(x)' <=> Held(x)) /\ (InRun(x)' <=> InRun(x))
      BY <1>0, <2>0, <2>1, <3>1 DEF Held, InRun
    <3>3. HandsFull' /\ Fresh'
      BY <2>0, <3>1 DEF WorkerInv, HandsFull, Fresh
    <3>4. Apart'
      BY <1>0, <2>0, <2>1, <3>1 DEF WorkerInv, Apart
    <3>5. HeldWaits' /\ NotRunYet'
      BY <2>0, <3>2 DEF WorkerInv, HeldWaits, NotRunYet
    <3> QED BY <3>1, <3>3, <3>4, <3>5 DEF WorkerInv
  <2> QED BY <2>2, <2>3
<1>4. CASE DrainFails
  <2> PICK h \in Request : h = main.item
    BY <1>4 DEF DrainFails, WorkerInv, HandsFull
  <2>0. /\ h = main.item /\ main' = [at |-> "drain", item |-> NoItem]
        /\ UNCHANGED <<queue, coordinator, call, runs>> /\ HandTypeOK'
        /\ \A x \in Request \ {h} : reply'[x] = reply[x]
    BY <1>0, <1>4 DEF DrainFails, Proceed, HandTypeOK
  <2>1. Queued' = Queued /\ Held(h) /\ call[h] = "wait"
    BY <2>0 DEF WorkerInv, HeldWaits, Held, Queued
  <2>2. ~ Held(h)' /\ \A x \in Request \ {h} : (Held(x)' => Held(x)) /\ (InRun(x)' <=> InRun(x))
    <3>1. ~ Held(h)'
      BY <1>0, <2>0, <2>1 DEF WorkerInv, Apart, Held
    <3>2. \A x \in Request \ {h} : (Held(x)' => Held(x)) /\ (InRun(x)' <=> InRun(x))
      BY <1>0, <2>0, <2>1 DEF Held, InRun
    <3> QED BY <3>1, <3>2
  <2>3. HandsFull' /\ Apart'
    BY <1>0, <2>0, <2>1 DEF WorkerInv, HandsFull, Apart
  <2>4. HeldWaits' /\ NotRunYet' /\ Fresh'
    BY <2>0, <2>1, <2>2 DEF WorkerInv, HeldWaits, NotRunYet, Fresh, Before
  <2> QED BY <2>0, <2>3, <2>4 DEF WorkerInv
<1> QED BY <1>1, <1>2, <1>3, <1>4 DEF ShutdownStep

\* Every step keeps the invariant.
LEMMA NextWorker == WorkerInv /\ [FlashTalkNext]_vars => WorkerInv'
<1> SUFFICES ASSUME WorkerInv, [FlashTalkNext]_vars PROVE WorkerInv'
  OBVIOUS
<1>1. CASE UNCHANGED vars
  <2>1. HandTypeOK' /\ UNCHANGED <<queue, coordinator, main, call, reply, runs>>
    BY <1>1 DEF vars, WorkerInv, HandTypeOK
  <2> QED BY <2>1, SameHands
<1> QED BY <1>1, HandlerKeeps, CoordinatorKeeps, ShutdownKeeps DEF FlashTalkNext

--------------------------------------------------------------------------------
(* The refinement: handlers submit, coordinators and the main thread take. *)

Agent == Coordinator \cup {Main}

Has(a, r) ==
    \/ a \in Coordinator /\ coordinator[a].item = r
    \/ a = Main /\ main.item = r

Over(r) == call[r] = "wait" \/ reply[r] # "none"

\* What is held is queued or in the hand of one agent.
LEMMA HeldIs ==
    ASSUME NEW r
    PROVE  /\ Held(r) <=> r \in Queued \/ \E a \in Agent : Has(a, r)
           /\ Held(r)' <=> r \in Queued' \/ \E a \in Agent : Has(a, r)'
BY DEF Held, Has, Agent

\* The place of a request is who has it, or else says where it is.
LEMMA PlaceIs ==
    ASSUME WorkerInv, NEW r \in Request
    PROVE  /\ r \in Queued => PlaceOf(r) = "waiting"
           /\ \A a \in Agent : Has(a, r) <=> PlaceOf(r) = a
           /\ ~ Held(r) => PlaceOf(r) = IF Over(r) THEN "done" ELSE "absent"
<1>1. /\ \A a \in Agent : a \notin {"absent", "waiting", "done"}
      /\ Main \notin Coordinator /\ NoItem \notin Request
  BY PlaceAssumption, FlashTalkAssumption DEF Agent
<1>2. CASE r \in Queued
  <2>1. \A a \in Agent : ~ Has(a, r)
    BY <1>2 DEF WorkerInv, Apart, Has
  <2>2. PlaceOf(r) = "waiting" /\ Held(r)
    BY <1>2 DEF PlaceOf, Held
  <2> QED BY <1>1, <2>1, <2>2
<1>3. ASSUME r \notin Queued, NEW k \in Coordinator, coordinator[k].item = r
      PROVE  PlaceOf(r) = k /\ Held(r) /\ \A a \in Agent : Has(a, r) <=> a = k
  <2>1. \A l \in Coordinator : coordinator[l].item = r <=> l = k
    BY <1>3 DEF WorkerInv, Apart
  <2>2. PlaceOf(r) = CHOOSE l \in Coordinator : coordinator[l].item = r
    BY <1>3 DEF PlaceOf
  <2>3. PlaceOf(r) = k
    BY <2>1, <2>2
  <2>4. main.item # r
    BY <1>3 DEF WorkerInv, Apart
  <2> QED BY <1>3, <2>1, <2>3, <2>4 DEF Held, Has, Agent
<1>4. CASE r \notin Queued /\ (\A k \in Coordinator : coordinator[k].item # r) /\ main.item = r
  BY <1>1, <1>4 DEF PlaceOf, Held, Has, Agent
<1>5. CASE ~ Held(r)
  <2>1. PlaceOf(r) = IF Over(r) THEN "done" ELSE "absent"
    BY <1>5 DEF PlaceOf, Held, Over
  <2> QED BY <1>1, <1>5, <2>1, HeldIs
<1> QED BY <1>2, <1>3, <1>4, <1>5 DEF Held

\* The same after a step.
LEMMA PlaceIsNext ==
    ASSUME WorkerInv', NEW r \in Request
    PROVE  /\ r \in Queued' => PlaceOf(r)' = "waiting"
           /\ \A a \in Agent : Has(a, r)' <=> PlaceOf(r)' = a
           /\ ~ Held(r)' => PlaceOf(r)' = IF Over(r)' THEN "done" ELSE "absent"
<1>1. /\ \A a \in Agent : a \notin {"absent", "waiting", "done"}
      /\ Main \notin Coordinator /\ NoItem \notin Request
  BY PlaceAssumption, FlashTalkAssumption DEF Agent
<1>2. CASE r \in Queued'
  <2>1. \A a \in Agent : ~ Has(a, r)'
    BY <1>2 DEF WorkerInv, Apart, Has
  <2>2. PlaceOf(r)' = "waiting" /\ Held(r)'
    BY <1>2 DEF PlaceOf, Held
  <2> QED BY <1>1, <2>1, <2>2
<1>3. ASSUME r \notin Queued', NEW k \in Coordinator, coordinator'[k].item = r
      PROVE  PlaceOf(r)' = k /\ Held(r)' /\ \A a \in Agent : Has(a, r)' <=> a = k
  <2>1. \A l \in Coordinator : coordinator'[l].item = r <=> l = k
    BY <1>3 DEF WorkerInv, Apart
  <2>2. PlaceOf(r)' = CHOOSE l \in Coordinator : coordinator'[l].item = r
    BY <1>3 DEF PlaceOf
  <2>3. PlaceOf(r)' = k
    BY <2>1, <2>2
  <2>4. main'.item # r
    BY <1>3 DEF WorkerInv, Apart
  <2> QED BY <1>3, <2>1, <2>3, <2>4 DEF Held, Has, Agent
<1>4. CASE r \notin Queued' /\ (\A k \in Coordinator : coordinator'[k].item # r) /\ main'.item = r
  BY <1>1, <1>4 DEF PlaceOf, Held, Has, Agent
<1>5. CASE ~ Held(r)'
  <2>1. PlaceOf(r)' = IF Over(r)' THEN "done" ELSE "absent"
    BY <1>5 DEF PlaceOf, Held, Over
  <2> QED BY <1>1, <1>5, <2>1, HeldIs
<1> QED BY <1>2, <1>3, <1>4, <1>5 DEF Held

\* What nobody touches stays where it is.
LEMMA PlaceStays ==
    ASSUME WorkerInv, WorkerInv', NEW r \in Request,
           r \in Queued' <=> r \in Queued, \A a \in Agent : Has(a, r)' <=> Has(a, r),
           ~ Held(r) => (Over(r)' <=> Over(r))
    PROVE  PlaceOf(r)' = PlaceOf(r)
<1>1. Held(r)' <=> Held(r)
  BY HeldIs
<1>2. CASE r \in Queued
  BY <1>2, PlaceIs, PlaceIsNext
<1>3. ASSUME NEW a \in Agent, Has(a, r) PROVE PlaceOf(r)' = PlaceOf(r)
  BY <1>3, PlaceIs, PlaceIsNext
<1>4. CASE ~ Held(r)
  BY <1>1, <1>4, PlaceIs, PlaceIsNext
<1> QED BY <1>2, <1>3, <1>4, HeldIs

\* A step that puts a request somewhere is a move of the work pool.
LEMMA IsMove ==
    ASSUME NEW S, NEW target, runs' = runs,
           \A r \in Request : PlaceOf(r)' = IF r \in S THEN target ELSE PlaceOf(r)
    PROVE  Pool!Move(S, target)
BY DEF Pool!Move

\* An agent takes a queued request.
LEMMA IsTake ==
    ASSUME WorkerInv, WorkerInv', NEW a \in Agent, NEW h \in Request, h \in Queued, Has(a, h)',
           UNCHANGED <<call, reply, runs>>,
           \A r \in Request \ {h} : /\ r \in Queued' <=> r \in Queued
                                    /\ \A b \in Agent : Has(b, r)' <=> Has(b, r)
    PROVE  Pool!WorkPoolNext
<1>1. PlaceOf(h) = "waiting" /\ PlaceOf(h)' = a
  BY PlaceIs, PlaceIsNext
<1>2. \A r \in Request \ {h} : PlaceOf(r)' = PlaceOf(r)
  BY PlaceStays DEF Over
<1>3. Pool!Move({h}, a)
  BY <1>1, <1>2, IsMove
<1>4. Pool!TakeItem(a, h)
  BY <1>1, <1>3 DEF Pool!TakeItem
<1> QED BY <1>4 DEF Pool!WorkPoolNext, Agent

\* An agent gives up the request it has: it is done, answered or not.
LEMMA IsFinish ==
    ASSUME WorkerInv, WorkerInv', NEW a \in Agent, NEW h \in Request, Has(a, h), ~ Held(h)',
           UNCHANGED <<queue, call, runs>>,
           \A r \in Request \ {h} : /\ reply'[r] = reply[r]
                                    /\ \A b \in Agent : Has(b, r)' <=> Has(b, r)
    PROVE  Pool!WorkPoolNext
<1>1. PlaceOf(h) = a /\ call[h] = "wait" /\ Queued' = Queued
  BY PlaceIs, HeldIs DEF WorkerInv, HeldWaits, Queued
<1>2. PlaceOf(h)' = "done"
  BY <1>1, PlaceIsNext DEF Over
<1>3. ASSUME NEW r \in Request \ {h} PROVE PlaceOf(r)' = PlaceOf(r) /\ PlaceOf(r) # a
  <2>1. PlaceOf(r)' = PlaceOf(r)
    BY <1>1, PlaceStays DEF Over
  <2>2. ~ Has(a, r)
    BY FlashTalkAssumption DEF WorkerInv, Apart, Has
  <2> QED BY <2>1, <2>2, PlaceIs
<1> DEFINE S == {r \in Request : [x \in Request |-> PlaceOf(x)][r] = a}
<1>4. \A r \in Request : r \in S <=> r = h
  BY <1>1, <1>3
<1>5. Pool!Move(S, "done")
  BY <1>2, <1>3, <1>4, IsMove
<1>6. Pool!FinishAll(a)
  BY <1>5 DEF Pool!FinishAll
<1> QED BY <1>6 DEF Pool!WorkPoolNext, Agent

\* The pool's view of a step.
PoolStep == Pool!WorkPoolNext \/ UNCHANGED <<[r \in Request |-> PlaceOf(r)], runs>>

\* A step that moves no request is none of the work pool.
LEMMA IsStutter ==
    ASSUME WorkerInv, WorkerInv', runs' = runs,
           \A r \in Request : /\ r \in Queued' <=> r \in Queued
                              /\ \A a \in Agent : Has(a, r)' <=> Has(a, r)
                              /\ ~ Held(r) => (Over(r)' <=> Over(r))
    PROVE  PoolStep
<1>1. \A r \in Request : PlaceOf(r)' = PlaceOf(r)
  BY PlaceStays
<1> QED BY <1>1 DEF PoolStep

\* submit: the handler queues its request; before and after that it moves nothing.
LEMMA HandlerIsPool ==
    ASSUME WorkerInv, WorkerInv', NEW r \in Request, Submit(r) \/ HandlerStep(r)
    PROVE  PoolStep
<1>0. HandTypeOK
  BY DEF WorkerInv
<1>1. CASE Submit(r) \/ Start(r) \/ LoadFails(r) \/ Ready(r) \/ Route(r) \/ Return(r)
  <2>1. /\ UNCHANGED <<queue, coordinator, main, reply, runs>>
        /\ \A x \in Request : Over(x)' <=> Over(x)
    BY <1>0, <1>1
    DEF HandTypeOK, Over, Submit, Start, LoadFails, Ready, Route, Return, Go
  <2>2. Queued' = Queued /\ \A x \in Request : \A a \in Agent : Has(a, x)' <=> Has(a, x)
    BY <2>1 DEF Queued, Has
  <2> QED BY <2>1, <2>2, IsStutter
<1>2. ASSUME NEW k \in Coordinator, Load(r, k) PROVE PoolStep
  <2>1. /\ UNCHANGED <<queue, main, reply, runs>>
        /\ \A l \in Coordinator : coordinator'[l].item = coordinator[l].item
        /\ \A x \in Request : Over(x)' <=> Over(x)
    BY <1>0, <1>2 DEF HandTypeOK, Over, Load, Go
  <2>2. Queued' = Queued /\ \A x \in Request : \A a \in Agent : Has(a, x)' <=> Has(a, x)
    BY <2>1 DEF Queued, Has
  <2> QED BY <2>1, <2>2, IsStutter
<1>3. CASE Put(r)
  <2>1. /\ call[r] = "put" /\ queue \in Seq(Item) /\ queue' = Append(queue, r)
        /\ UNCHANGED <<coordinator, main, reply, runs>> /\ r \in Item
        /\ \A x \in Request \ {r} : call'[x] = call[x]
    BY <1>0, <1>3 DEF HandTypeOK, Put, Go, Item
  <2>2. ~ Held(r) /\ reply[r] = "none"
    BY <2>1 DEF WorkerInv, HeldWaits, Fresh, Before
  <2>3. Queued' = Queued \cup {r}
    BY <2>1, OnAppend, QueuedOccurs
  <2>4. PlaceOf(r) = "absent" /\ PlaceOf(r)' = "waiting"
    BY <2>1, <2>2, <2>3, PlaceIs, PlaceIsNext DEF Over
  <2>5. \A x \in Request \ {r} : PlaceOf(x)' = PlaceOf(x)
    BY <2>1, <2>3, PlaceStays DEF Has, Over
  <2>6. Pool!Move({r}, "waiting")
    BY <2>1, <2>4, <2>5, IsMove
  <2>7. Pool!Submit(r)
    BY <2>4, <2>6 DEF Pool!Submit
  <2> QED BY <2>7 DEF PoolStep, Pool!WorkPoolNext
<1> QED BY <1>1, <1>2, <1>3 DEF HandlerStep

\* _coordinator_loop: a coordinator takes a request, runs it once, and gives it up.
LEMMA CoordinatorIsPool ==
    ASSUME WorkerInv, WorkerInv', NEW k \in Coordinator, CoordinatorStep(k)
    PROVE  PoolStep
<1>0. HandTypeOK /\ k \in Agent /\ k # Main /\ NoItem \notin Request
      /\ (coordinator[k].at \notin Holding => coordinator[k].item \notin Request)
  BY FlashTalkAssumption DEF WorkerInv, HandsFull, Agent
<1>1. \A l \in Coordinator \ {k} : coordinator'[l] = coordinator[l]
  BY <1>0
  DEF HandTypeOK, CoordinatorStep, LookAtFlag, Get, GetTimesOut, Begin, RunEnds, BroadcastFails, Become
<1>2. UNCHANGED <<main, call>>
  BY DEF CoordinatorStep, LookAtFlag, Get, GetTimesOut, Begin, RunEnds, BroadcastFails
<1>3. CASE LookAtFlag(k) \/ GetTimesOut(k)
  <2>1. /\ coordinator[k].item \notin Request /\ coordinator'[k].item \notin Request
        /\ UNCHANGED <<queue, reply, runs>>
    BY <1>0, <1>3 DEF HandTypeOK, LookAtFlag, GetTimesOut, Become, Holding
  <2>2. Queued' = Queued /\ \A x \in Request : \A a \in Agent : Has(a, x)' <=> Has(a, x)
    BY <1>1, <1>2, <2>1 DEF Queued, Has
  <2> QED BY <1>2, <2>1, <2>2, IsStutter DEF Over
<1>4. CASE Get(k)
  <2>0. /\ queue \in Seq(Item) /\ queue # << >> /\ queue' = Tail(queue)
        /\ UNCHANGED <<reply, runs>> /\ coordinator[k].item \notin Request
    BY <1>0, <1>4 DEF HandTypeOK, Get, Holding
  <2>1. Head(queue) \in Item /\ Queued = Queued' \cup {Head(queue)}
    BY <2>0, OnTail, QueuedOccurs
  <2>2. CASE Head(queue) = Sentinel
    <3>1. coordinator'[k].item = NoItem /\ Sentinel \notin Request
      BY <1>0, <1>4, <2>2, FlashTalkAssumption DEF HandTypeOK, Get, Become
    <3>2. \A x \in Request : \A a \in Agent : Has(a, x)' <=> Has(a, x)
      BY <1>0, <1>1, <1>2, <2>0, <3>1 DEF Has
    <3> QED BY <1>2, <2>0, <2>1, <2>2, <3>1, <3>2, IsStutter DEF Over
  <2>3. CASE Head(queue) # Sentinel
    <3> PICK h \in Request : h = Head(queue)
      BY <2>1, <2>3 DEF Item
    <3>1. coordinator'[k].item = h
      BY <1>0, <1>4, <2>3 DEF HandTypeOK, Get, Become
    <3>2. \A x \in Request \ {h} : \A a \in Agent : Has(a, x)' <=> Has(a, x)
      BY <1>0, <1>1, <1>2, <2>0, <3>1 DEF Has
    <3> QED BY <1>0, <1>2, <2>0, <2>1, <3>1, <3>2, IsTake DEF Has, PoolStep
  <2> QED BY <2>2, <2>3
<1>5. CASE Begin(k) /\ dist
  <2>1. /\ UNCHANGED <<queue, reply>> /\ coordinator'[k].item = coordinator[k].item
        /\ coordinator[k].at = "begin" /\ runs \in [Request -> {0, 1}]
        /\ runs' = [runs EXCEPT ![coordinator[k].item] = @ + 1]
    BY <1>0, <1>5 DEF HandTypeOK, Begin
  <2> PICK h \in Request : h = coordinator[k].item
    BY <2>1 DEF WorkerInv, HandsFull, Holding
  <2>2. Queued' = Queued /\ \A x \in Request : \A a \in Agent : Has(a, x)' <=> Has(a, x)
    BY <1>1, <1>2, <2>1 DEF Queued, Has
  <2>3. \A x \in Request : PlaceOf(x)' = PlaceOf(x)
    BY <1>2, <2>1, <2>2, PlaceStays DEF Over
  <2>4. Has(k, h) /\ Held(h) /\ ~ InRun(h)
    BY <1>0, <2>1 DEF Has, Held, InRun, WorkerInv, Apart
  <2>5. PlaceOf(h) = k /\ runs[h] = 0
    BY <1>0, <2>4, PlaceIs DEF WorkerInv, NotRunYet
  <2>6. runs' = [x \in Request |-> IF x \in {h} THEN 1 ELSE runs[x]]
    <3>1. runs' = [runs EXCEPT ![h] = runs[h] + 1] /\ runs \in [Request -> {0, 1}]
      BY <2>1
    <3>2. runs' = [runs EXCEPT ![h] = 1]
      BY <2>5, <3>1
    <3>3. DOMAIN runs = Request
      BY <3>1
    <3> QED BY <3>1, <3>2, <3>3
  <2>7. Pool!RunItems(k, {h})
    BY <2>3, <2>5, <2>6 DEF Pool!RunItems
  <2> QED BY <1>0, <2>7 DEF PoolStep, Pool!WorkPoolNext, Agent
<1>6. CASE (Begin(k) /\ ~ dist) \/ RunEnds(k) \/ BroadcastFails(k)
  <2>1. /\ UNCHANGED <<queue, runs>> /\ coordinator'[k].item = NoItem
        /\ coordinator[k].at \in Holding
        /\ \A x \in Request \ {coordinator[k].item} : reply'[x] = reply[x]
    BY <1>0, <1>6 DEF HandTypeOK, Begin, RunEnds, BroadcastFails, Answer, Become, Holding
  <2> PICK h \in Request : h = coordinator[k].item
    BY <2>1 DEF WorkerInv, HandsFull
  <2>2. /\ Queued' = Queued /\ Has(k, h) /\ ~ Has(k, h)'
        /\ \A x \in Request \ {h} : \A a \in Agent : Has(a, x)' <=> Has(a, x)
    BY <1>0, <1>1, <1>2, <2>1 DEF Queued, Has
  <2>3. ~ Held(h)'
    BY <1>0, <1>1, <1>2, <2>1, <2>2 DEF Held, WorkerInv, Apart
  <2> QED BY <1>0, <1>2, <2>1, <2>2, <2>3, IsFinish DEF PoolStep
<1> QED BY <1>3, <1>4, <1>5, <1>6 DEF CoordinatorStep, Begin

\* shutdown: the main thread takes what it drains and fails it.
LEMMA ShutdownIsPool ==
    ASSUME WorkerInv, WorkerInv', Shutdown \/ ShutdownStep
    PROVE  PoolStep
<1>0. HandTypeOK /\ Main \in Agent /\ Main \notin Coordinator /\ NoItem \notin Request
      /\ (main.at # "fail" => main.item \notin Request)
  BY FlashTalkAssumption DEF WorkerInv, HandsFull, Agent
<1>1. UNCHANGED <<coordinator, call, runs>>
  BY DEF ShutdownStep, Shutdown, PutSentinel, Join, DrainTakes, DrainFails, DrainEnds, Clear
<1>2. CASE Shutdown \/ PutSentinel \/ Join \/ DrainEnds \/ Clear
  <2>1. /\ main.item \notin Request /\ main'.item \notin Request /\ UNCHANGED reply
        /\ queue' \in {queue, Append(queue, Sentinel)} /\ queue \in Seq(Item)
        /\ Sentinel \in Item /\ Sentinel \notin Request
    BY <1>0, <1>2, FlashTalkAssumption
    DEF HandTypeOK, Shutdown, PutSentinel, Join, DrainEnds, Clear, Proceed, Item
  <2>2. \A x \in Request : x \in Queued' <=> x \in Queued
    BY <2>1, OnAppend, QueuedOccurs, ZenonT(60)
  <2>3. \A x \in Request : \A a \in Agent : Has(a, x)' <=> Has(a, x)
    BY <1>1, <2>1 DEF Has
  <2> QED BY <1>1, <2>1, <2>2, <2>3, IsStutter DEF Over
<1>3. CASE DrainTakes
  <2>0. /\ queue \in Seq(Item) /\ queue # << >> /\ queue' = Tail(queue)
        /\ UNCHANGED reply /\ main.item \notin Request
    BY <1>0, <1>3 DEF HandTypeOK, DrainTakes
  <2>1. Head(queue) \in Item /\ Queued = Queued' \cup {Head(queue)}
    BY <2>0, OnTail, QueuedOccurs
  <2>2. CASE Head(queue) = Sentinel
    <3>1. UNCHANGED main /\ Sentinel \notin Request
      BY <1>3, <2>2, FlashTalkAssumption DEF DrainTakes
    <3> QED BY <1>1, <2>0, <2>1, <2>2, <3>1, IsStutter DEF Has, Over
  <2>3. CASE Head(queue) # Sentinel
    <3> PICK h \in Request : h = Head(queue)
      BY <2>1, <2>3 DEF Item
    <3>1. main'.item = h
      BY <1>3, <2>3 DEF DrainTakes
    <3>2. \A x \in Request \ {h} : \A a \in Agent : Has(a, x)' <=> Has(a, x)
      BY <1>0, <1>1, <2>0, <3>1 DEF Has
    <3> QED BY <1>0, <1>1, <2>0, <2>1, <3>1, <3>2, IsTake DEF Has, PoolStep
  <2> QED BY <2>2, <2>3
<1>4. CASE DrainFails
  <2>1. /\ UNCHANGED queue /\ main'.item = NoItem /\ main.at = "fail"
        /\ \A x \in Request \ {main.item} : reply'[x] = reply[x]
    BY <1>0, <1>4 DEF HandTypeOK, DrainFails, Proceed
  <2> PICK h \in Request : h = main.item
    BY <2>1 DEF WorkerInv, HandsFull
  <2>2. /\ Queued' = Queued /\ Has(Main, h)
        /\ \A x \in Request \ {h} : \A a \in Agent : Has(a, x)' <=> Has(a, x)
    BY <1>0, <1>1, <2>1 DEF Queued, Has
  <2>3. ~ Held(h)'
    BY <1>0, <1>1, <2>1, <2>2 DEF Held, WorkerInv, Apart
  <2> QED BY <1>0, <1>1, <2>1, <2>2, <2>3, IsFinish DEF PoolStep
<1> QED BY <1>2, <1>3, <1>4 DEF ShutdownStep

\* Every step of the worker is a step of the work pool or none.
LEMMA StepIsPool ==
    WorkerInv /\ WorkerInv' /\ [FlashTalkNext]_vars => [Pool!WorkPoolNext]_Pool!poolVars
<1> SUFFICES ASSUME WorkerInv, WorkerInv', [FlashTalkNext]_vars PROVE PoolStep
  BY DEF PoolStep, Pool!poolVars
<1>1. CASE UNCHANGED vars
  <2>1. UNCHANGED <<queue, coordinator, main, call, reply, runs>>
    BY <1>1 DEF vars
  <2>2. Queued' = Queued /\ \A x \in Request : \A a \in Agent : Has(a, x)' <=> Has(a, x)
    BY <2>1 DEF Queued, Has
  <2> QED BY <2>1, <2>2, IsStutter DEF Over
<1> QED BY <1>1, HandlerIsPool, CoordinatorIsPool, ShutdownIsPool DEF FlashTalkNext

\* Handlers, coordinators old and new, and the drain implement the work pool: a
\* request is taken by one of them, run at most once and done only then.
THEOREM WorkerIsPool == FlashTalkSpec => ServesWorkPool
<1>1. FlashTalkInit => Pool!WorkPoolInit
  <2> SUFFICES ASSUME FlashTalkInit PROVE Pool!WorkPoolInit
    OBVIOUS
  <2>1. WorkerInv /\ First \in Coordinator /\ NoItem \notin Request
    BY InitWorker, FlashTalkAssumption DEF First
  <2>2. \A r \in Request : ~ Held(r) /\ ~ Over(r)
    BY <2>1 DEF FlashTalkInit, Held, Over, Queued, Off
  <2>3. \A r \in Request : PlaceOf(r) = "absent"
    BY <2>1, <2>2, PlaceIs
  <2> QED BY <2>3 DEF FlashTalkInit, Pool!WorkPoolInit
<1> QED
  BY <1>1, InitWorker, NextWorker, StepIsPool, PTL
  DEF FlashTalkSpec, ServesWorkPool, Pool!WorkPoolSpec
===============================================================================
