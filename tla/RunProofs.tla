------------------------------ MODULE RunProofs --------------------------------
(***************************************************************************)
(* What the result of a job is made of: a render of the Diffusers          *)
(* pipelines (RenderIsOwn), the files it leaves (ArtifactsAreOwn) and the  *)
(* output of an external program (OutputIsOwn).  The tables of pipeline    *)
(* classes and programs are not expanded: what is proved does not depend   *)
(* on what is in them.                                                     *)
(***************************************************************************)
EXTENDS PipelineRun, ExternalRun, SequenceTheorems, FiniteSetTheorems, TLAPS

--------------------------------------------------------------------------------
(* Jobs of the Diffusers pipelines.                                        *)

\* Where a run is while it holds the lock of its executor, from the seed on, from the
\* text on, from the render on, and with a file.
Busy == {"prepare", "latents", "lookup", "encode", "render", "export", "written"}
Seeded == {"lookup", "encode", "render", "export", "written"}
Conditioned == {"latents", "lookup", "encode", "render", "export", "written", "done"}
Drawn == {"export", "written", "done"}
Filed == {"written", "done"}
Stage == Busy \union {"waiting", "done", "failed"}

\* What RenderIsOwn says of the text and of the settings of a job.
TextIsOwn(j) ==
    /\ conditioning[j].prompt = requests[j].prompt
    /\ conditioning[j].weights = Own(j).weights
    /\ \/ conditioning[j].guided = requests[j].guided \/ OtherTwin(j)
       \/ Modular(j) /\ conditioning[j].guided
    /\ \/ conditioning[j].negative = requests[j].negative
       \/ conditioning[j].negative = NoText /\ ~(conditioning[j].guided /\ Class(j).negates)
FitsSetting(setting, j) ==
    /\ \A f \in IF engine THEN Setting ELSE Class(j).key :
          \/ ((setting = f) = (requests[j].setting = f))
          \/ (Modular(j) /\ f \in {"default", "scheduler"})
    /\ Modular(j) => setting # "scheduler"

\* What the pipeline of an executor of the engine was built with.
ServedBy(e) ==
    IF PipelineClass[e[1]].mode = "modular" /\ e[3] = "scheduler" THEN "default" ELSE e[3]

\* The bundles tasks can make, under the keys of these tasks.
Bundle == {[key |-> EmbeddingKey(k), bundle |-> Encoded(k)] : k \in Task}

PipelineTypeInv ==
    /\ engine \in BOOLEAN
    /\ \A j \in Task :
         requests[j] \in [class: ClassName, prompt: {1, 2}, negative: {NoText, 1}, guided: BOOLEAN,
                          seed: {NoSeed, 1, 2}, setting: Setting, given: {requests[j].given}]
    /\ \A j \in Task : asked \in Class(j).models
    /\ leader \in [Task -> Task \union {0}] /\ stage \in [Task -> Stage]
    /\ conditioning = [j \in Task |-> conditioning[j]]
    /\ rendered = [j \in Task |-> rendered[j]] /\ artifacts = [j \in Task |-> artifacts[j]]
    /\ bundles \in Seq(Bundle)

\* A job runs for itself or with the first of its batch, which it is like and keeps up with.
KeepsUp(k) ==
    LET j == leader[k] IN
    IF j = 0 THEN stage[k] = "waiting"
    ELSE /\ leader[j] = j
         /\ stage[k] = stage[j] \/ (stage[k] \in {"export", "written"} /\ stage[j] \in {"export", "written"})
         /\ k # j => Modular(j) /\ Signature(requests[k]) = Signature(requests[j])

\* Who runs holds the lock of its executor.
HoldsLock(j) ==
    leader[j] = j /\ stage[j] \in Busy =>
      Executor(j) \in DOMAIN holder /\ holder[Executor(j)] = j

BatchesTogether == \A k \in Task : KeepsUp(k)
LocksHeld == \A j \in Task : HoldsLock(j)

\* What a run finds in its executor is what it needs.
PipelineFits(j) ==
    leader[j] = j =>
      /\ Modular(j) /\ stage[j] \in Busy => Executor(j) \in DOMAIN built
      /\ stage[j] \in {"lookup", "encode", "render"} =>
           Executor(j) \in DOMAIN built /\ FitsSetting(built[Executor(j)], j)
      /\ stage[j] = "latents" => ~Modular(j)
      /\ ~Modular(j) /\ stage[j] \in Seeded =>
           Executor(j) \in DOMAIN lastSeed /\ lastSeed[Executor(j)] = requests[j].seed
PipelinesFit ==
    /\ engine => \A e \in DOMAIN built : built[e] = ServedBy(e)
    /\ \A j \in Task : PipelineFits(j)

\* What a job has been given, rendered and left is its own.
ResultIsOwn(k) ==
    /\ stage[k] \in Conditioned \/ Called(k) => TextIsOwn(k)
    /\ stage[k] \in Drawn => Called(k)
    /\ Called(k) => rendered[k].seed = requests[k].seed /\ FitsSetting(rendered[k].setting, k)
    /\ stage[k] \in Filed =>
         /\ artifacts[k][2] = requests[k].seed
         /\ leader[1] = leader[2] => artifacts[k][3] = k
ResultsAreOwn ==
    /\ \A k \in Task : ResultIsOwn(k)
    /\ \A n \in DOMAIN saved : saved[n].seed = n[2]

PipelineInv == PipelineTypeInv /\ BatchesTogether /\ LocksHeld /\ PipelinesFit /\ ResultsAreOwn

\* The invariant says what a finished job promises.
LEMMA ResultsAsPromised == PipelineInv => RenderIsOwn /\ ArtifactsAreOwn
<1> SUFFICES ASSUME PipelineInv PROVE RenderIsOwn /\ ArtifactsAreOwn
  OBVIOUS
<1>1. RenderIsOwn
  BY DEF PipelineInv, ResultsAreOwn, ResultIsOwn, RenderIsOwn, TextIsOwn, FitsSetting
<1>2. \A n \in DOMAIN saved : saved[n].seed = n[2]
  BY DEF PipelineInv, ResultsAreOwn
<1>3. \A j \in Task : stage[j] = "done" => artifacts[j][2] = requests[j].seed
  BY DEF PipelineInv, ResultsAreOwn, ResultIsOwn, Filed
<1>4. leader[1] = leader[2] /\ stage[1] = "done" => artifacts[1] # artifacts[2]
  <2> SUFFICES ASSUME leader[1] = leader[2], stage[1] = "done" PROVE artifacts[1] # artifacts[2]
    OBVIOUS
  <2>1. stage[2] = "done"
    BY DEF PipelineInv, PipelineTypeInv, BatchesTogether, KeepsUp, Task
  <2>2. artifacts[1][3] = 1 /\ artifacts[2][3] = 2
    BY <2>1 DEF PipelineInv, ResultsAreOwn, ResultIsOwn, Filed, Task
  <2> QED BY <2>2
<1> QED BY <1>1, <1>2, <1>3, <1>4 DEF ArtifactsAreOwn

\* No step changes what was asked.
SameRequests == UNCHANGED <<asked, engine, requests>>

\* What follows from the requests alone stays.
LEMMA RequestsStay ==
    ASSUME SameRequests
    PROVE  /\ asked' = asked /\ engine' = engine /\ requests' = requests
           /\ \A j : /\ Class(j)' = Class(j) /\ Modular(j)' = Modular(j)
                     /\ Executor(j)' = Executor(j) /\ Own(j)' = Own(j)
                     /\ Encoded(j)' = Encoded(j) /\ EmbeddingKey(j)' = EmbeddingKey(j)
                     /\ OtherTwin(j)' = OtherTwin(j)
           /\ \A s, j : FitsSetting(s, j)' = FitsSetting(s, j)
           /\ Bundle' = Bundle
<1>1. asked' = asked /\ engine' = engine /\ requests' = requests
  BY DEF SameRequests
<1>2. \A j : Class(j)' = Class(j)
  BY <1>1 DEF Class
<1>3. \A j : Modular(j)' = Modular(j)
  BY <1>1, <1>2 DEF Modular
<1>4. \A j : Executor(j)' = Executor(j) /\ Own(j)' = Own(j)
  BY <1>1 DEF Executor, Own
<1>5. \A j : Encoded(j)' = Encoded(j)
  BY <1>1, <1>3, <1>4 DEF Encoded
<1>6. \A j : EmbeddingKey(j)' = EmbeddingKey(j)
  BY <1>1, <1>2 DEF EmbeddingKey
<1>7. \A j : OtherTwin(j)' = OtherTwin(j)
  BY <1>1, <1>6 DEF OtherTwin
<1>8. \A s, j : FitsSetting(s, j)' = FitsSetting(s, j)
  BY <1>1, <1>2, <1>3 DEF FitsSetting
<1>9. Bundle' = Bundle
  BY <1>5, <1>6 DEF Bundle
<1> QED BY <1>1, <1>2, <1>3, <1>4, <1>5, <1>6, <1>7, <1>8, <1>9

\* The jobs of a batch are alike.
LEMMA RidersAlike ==
    ASSUME PipelineInv, NEW j \in Task, leader[j] = j, NEW k \in Riders(j)
    PROVE  /\ k \in Task /\ leader[k] = j
           /\ stage[k] = stage[j] \/ (stage[k] \in {"export", "written"} /\ stage[j] \in {"export", "written"})
           /\ k # j => Modular(j)
           /\ Class(k) = Class(j) /\ Modular(k) = Modular(j) /\ Executor(k) = Executor(j)
           /\ requests[k].setting = requests[j].setting
<1>1. k \in Task /\ leader[k] = j /\ j # 0
  BY DEF Riders, Task
<1>2. /\ stage[k] = stage[j] \/ (stage[k] \in {"export", "written"} /\ stage[j] \in {"export", "written"})
      /\ k # j => Modular(j) /\ Signature(requests[k]) = Signature(requests[j])
  BY <1>1 DEF PipelineInv, BatchesTogether, KeepsUp
<1>3. ASSUME Signature(requests[k]) = Signature(requests[j])
      PROVE  /\ requests[k].class = requests[j].class /\ requests[k].guided = requests[j].guided
             /\ requests[k].setting = requests[j].setting
  <2>1. /\ requests[k] \in [class: ClassName, prompt: {1, 2}, negative: {NoText, 1}, guided: BOOLEAN,
                            seed: {NoSeed, 1, 2}, setting: Setting, given: {requests[k].given}]
        /\ requests[j] \in [class: ClassName, prompt: {1, 2}, negative: {NoText, 1}, guided: BOOLEAN,
                            seed: {NoSeed, 1, 2}, setting: Setting, given: {requests[j].given}]
    BY <1>1 DEF PipelineInv, PipelineTypeInv
  <2>2. \A h \in {j, k} :
          /\ Signature(requests[h]).class = requests[h].class
          /\ Signature(requests[h]).guided = requests[h].guided
          /\ Signature(requests[h]).setting = requests[h].setting
    BY <2>1 DEF Signature
  <2> QED BY <2>2, <1>3
<1>4. /\ requests[k].class = requests[j].class /\ requests[k].guided = requests[j].guided
      /\ requests[k].setting = requests[j].setting
  BY <1>2, <1>3
<1>5. Class(k) = Class(j)
  BY <1>4 DEF Class
<1>6. Modular(k) = Modular(j) /\ Executor(k) = Executor(j)
  BY <1>4, <1>5 DEF Modular, Executor
<1> QED BY <1>1, <1>2, <1>4, <1>5, <1>6

\* One job at a time runs in an executor.
LEMMA OneHolder ==
    ASSUME PipelineInv, NEW i \in Task, NEW j \in Task, leader[i] = i, leader[j] = j,
           stage[i] \in Busy, stage[j] \in Busy, Executor(i) = Executor(j)
    PROVE  i = j
BY DEF PipelineInv, LocksHeld, HoldsLock

\* A job that is given nothing and draws and writes nothing keeps its result.
LEMMA ResultStays ==
    ASSUME PipelineInv, SameRequests, NEW k \in Task,
           conditioning'[k] = conditioning[k], rendered'[k] = rendered[k], artifacts'[k] = artifacts[k],
           stage'[k] \in Conditioned => stage[k] \in Conditioned,
           stage'[k] \in Drawn => stage[k] \in Drawn,
           stage'[k] \in Filed => stage[k] \in Filed /\ (leader'[1] = leader'[2] => leader[1] = leader[2])
    PROVE  ResultIsOwn(k)'
<1>1. ResultIsOwn(k)
  BY DEF PipelineInv, ResultsAreOwn
<1>2. TextIsOwn(k)' = TextIsOwn(k) /\ Called(k)' = Called(k) /\ requests' = requests
  BY RequestsStay DEF TextIsOwn, Called
<1>3. FitsSetting(rendered[k].setting, k)' = FitsSetting(rendered[k].setting, k)
  BY RequestsStay DEF FitsSetting
<1> QED BY <1>1, <1>2, <1>3 DEF ResultIsOwn

\* A job finds what it needs as long as nobody changes it.
LEMMA FitStays ==
    ASSUME PipelineInv, SameRequests, NEW i \in Task,
           leader'[i] = i =>
             /\ leader[i] = i
             /\ stage'[i] \in Busy => stage[i] \in Busy
             /\ stage'[i] = "latents" => stage[i] = "latents"
             /\ stage'[i] \in Seeded => stage[i] \in Seeded
             /\ stage'[i] \in {"lookup", "encode", "render"} => stage[i] \in {"lookup", "encode", "render"},
           stage'[i] \in Busy /\ Executor(i) \in DOMAIN built =>
             Executor(i) \in DOMAIN built' /\ built'[Executor(i)] = built[Executor(i)],
           stage'[i] \in Busy /\ Executor(i) \in DOMAIN lastSeed =>
             Executor(i) \in DOMAIN lastSeed' /\ lastSeed'[Executor(i)] = lastSeed[Executor(i)]
    PROVE  PipelineFits(i)'
<1>1. PipelineFits(i)
  BY DEF PipelineInv, PipelinesFit
<1>2. Executor(i)' = Executor(i) /\ Modular(i)' = Modular(i) /\ requests' = requests
  BY RequestsStay
<1>3. FitsSetting(built[Executor(i)], i) /\ built'[Executor(i)] = built[Executor(i)] =>
        FitsSetting(built[Executor(i)], i)'
  BY RequestsStay DEF FitsSetting
<1> QED BY <1>1, <1>2, <1>3 DEF PipelineFits, Busy, Seeded

\* The part of the invariant that says who runs for whom and under which lock.
Orderly ==
    /\ leader \in [Task -> Task \union {0}] /\ stage \in [Task -> Stage]
    /\ BatchesTogether /\ LocksHeld

\* A job and the rest of its batch go on.
LEMMA MoveKeeps ==
    ASSUME PipelineInv, SameRequests, NEW j \in Task, NEW s \in Stage,
           leader[j] = j, stage[j] \in Busy, Move(j, s), leader' = leader,
           IF s \in Busy THEN holder' = holder ELSE Unlock(j)
    PROVE  /\ Orderly' /\ stage'[j] = s
           /\ \A k \in Task : stage'[k] = IF k \in Riders(j) THEN s ELSE stage[k]
           /\ \A k \in Task \ Riders(j) : leader[k] # j
<1>1. /\ \A k \in Task : stage'[k] = IF leader[k] = j THEN s ELSE stage[k]
      /\ stage' = [k \in Task |-> stage'[k]] /\ stage'[j] = s
  BY DEF Move, Riders
<1>2. leader' \in [Task -> Task \union {0}] /\ stage' \in [Task -> Stage]
  BY <1>1 DEF PipelineInv, PipelineTypeInv
<1>3. j # 0 /\ 0 \notin Task
  BY DEF Task
<1>4. ASSUME NEW k \in Task PROVE KeepsUp(k)'
  <2>1. KeepsUp(k) /\ Modular(leader[k])' = Modular(leader[k]) /\ requests' = requests
    BY RequestsStay DEF PipelineInv, BatchesTogether, Modular, Class
  <2>2. CASE leader[k] = j
    BY <2>1, <2>2, <1>1, <1>3 DEF KeepsUp, Signature
  <2>3. CASE leader[k] # j
    <3>1. leader[k] # 0 => leader[leader[k]] = leader[k] /\ leader[k] \in Task
      BY <2>1, <2>3 DEF KeepsUp, PipelineInv, PipelineTypeInv
    <3>2. leader[k] # 0 => stage'[leader[k]] = stage[leader[k]]
      BY <3>1, <2>3, <1>1
    <3> QED BY <2>1, <2>3, <3>1, <3>2, <1>1 DEF KeepsUp, Signature
  <2> QED BY <2>2, <2>3
<1>5. ASSUME NEW i \in Task PROVE HoldsLock(i)'
  <2> SUFFICES ASSUME leader[i] = i, stage'[i] \in Busy
               PROVE  Executor(i) \in DOMAIN holder' /\ holder'[Executor(i)] = i
    BY RequestsStay DEF HoldsLock
  <2>1. stage[i] \in Busy
    BY <1>1
  <2>2. Executor(i) \in DOMAIN holder /\ holder[Executor(i)] = i
    BY <2>1 DEF PipelineInv, LocksHeld, HoldsLock
  <2>3. CASE s \in Busy
    BY <2>2, <2>3
  <2>4. CASE s \notin Busy
    <3>1. i # j
      BY <2>4, <1>1
    <3>2. Executor(i) # Executor(j)
      BY <2>1, <3>1, OneHolder
    <3>3. holder' = Put(holder, Executor(j), 0)
      BY <2>4 DEF Unlock
    <3> QED BY <3>2, <3>3, <2>2 DEF Put
  <2> QED BY <2>3, <2>4
<1>6. BatchesTogether' /\ LocksHeld'
  BY <1>4, <1>5 DEF BatchesTogether, LocksHeld
<1> QED BY <1>1, <1>2, <1>6 DEF Orderly, Riders

\* Requests stay and texts, renders, files and bundles stay as they are.
LEMMA TypesStay ==
    ASSUME PipelineInv, SameRequests, Orderly', bundles' \in Seq(Bundle),
           conditioning' = [j \in Task |-> conditioning'[j]],
           rendered' = [j \in Task |-> rendered'[j]], artifacts' = [j \in Task |-> artifacts'[j]]
    PROVE  PipelineTypeInv'
<1>1. Bundle' = Bundle /\ engine' = engine /\ requests' = requests
  BY RequestsStay
<1>2. bundles' \in Seq(Bundle')
  BY <1>1
<1>3. \A j \in Task : asked' \in Class(j)'.models
  BY RequestsStay DEF PipelineInv, PipelineTypeInv
<1> QED BY <1>1, <1>2, <1>3 DEF PipelineInv, PipelineTypeInv, Orderly

\* A job ends without a result and gives the lock back.
LEMMA FailKeeps ==
    ASSUME PipelineInv, SameRequests, NEW j \in Task, leader[j] = j, stage[j] \in Busy, Fail(j)
    PROVE  PipelineInv'
<1>1. /\ Orderly' /\ \A k \in Task : stage'[k] \in {"failed", stage[k]}
  <2>1. "failed" \in Stage /\ "failed" \notin Busy
    BY DEF Stage, Busy
  <2> QED BY <2>1, MoveKeeps DEF Fail
<1>2. /\ leader' = leader /\ built' = built /\ lastSeed' = lastSeed /\ bundles' = bundles
      /\ conditioning' = conditioning /\ rendered' = rendered /\ saved' = saved
      /\ artifacts' = artifacts
  BY DEF Fail, outputs
<1>3. PipelineTypeInv'
  BY <1>1, <1>2, TypesStay DEF PipelineInv, PipelineTypeInv
<1>4. PipelinesFit'
  <2>1. ASSUME NEW i \in Task PROVE PipelineFits(i)'
    BY <1>1, <1>2, FitStays DEF Busy, Seeded
  <2> QED BY <2>1, <1>2, RequestsStay DEF PipelineInv, PipelinesFit
<1>5. ResultsAreOwn'
  <2>1. ASSUME NEW k \in Task PROVE ResultIsOwn(k)'
    BY <1>1, <1>2, ResultStays DEF Conditioned, Drawn, Filed
  <2> QED BY <2>1, <1>2 DEF PipelineInv, ResultsAreOwn
<1> QED BY <1>1, <1>3, <1>4, <1>5 DEF PipelineInv, Orderly

\* The jobs of a batch are put together.
LEMMA CombineKeeps ==
    ASSUME PipelineInv, SameRequests, Combine PROVE PipelineInv'
<1>1. /\ \A j \in Task : stage[j] = "waiting" /\ leader[j] = 0 /\ Modular(j)
      /\ Signature(requests[1]) = Signature(requests[2])
      /\ leader' = [j \in Task |-> 1] /\ stage' = stage /\ holder' = holder
      /\ built' = built /\ lastSeed' = lastSeed /\ bundles' = bundles
      /\ conditioning' = conditioning /\ rendered' = rendered /\ saved' = saved
      /\ artifacts' = artifacts
  BY DEF Combine, outputs
<1>2. requests' = requests /\ \A j : Modular(j)' = Modular(j)
  BY RequestsStay
<1>3. "waiting" \notin Busy \union Conditioned \union Drawn \union Filed
  BY DEF Busy, Conditioned, Drawn, Filed
<1>4. Orderly'
  <2>1. leader' \in [Task -> Task \union {0}] /\ stage' \in [Task -> Stage]
    BY <1>1 DEF PipelineInv, PipelineTypeInv, Task
  <2>2. ASSUME NEW k \in Task PROVE KeepsUp(k)'
    BY <1>1, <1>2 DEF KeepsUp, Task, Signature
  <2>3. ASSUME NEW k \in Task PROVE HoldsLock(k)'
    BY <1>1, <1>3 DEF HoldsLock
  <2> QED BY <2>1, <2>2, <2>3 DEF Orderly, BatchesTogether, LocksHeld
<1>5. PipelineTypeInv'
  BY <1>1, <1>4, TypesStay DEF PipelineInv, PipelineTypeInv
<1>6. PipelinesFit'
  <2>1. ASSUME NEW i \in Task PROVE PipelineFits(i)'
    BY <1>1 DEF PipelineFits, Busy, Seeded
  <2> QED BY <2>1, <1>1, RequestsStay DEF PipelineInv, PipelinesFit
<1>7. ResultsAreOwn'
  <2>1. ASSUME NEW k \in Task PROVE ResultIsOwn(k)'
    BY <1>1, <1>3, ResultStays
  <2> QED BY <2>1, <1>1 DEF PipelineInv, ResultsAreOwn
<1> QED BY <1>4, <1>5, <1>6, <1>7 DEF PipelineInv, Orderly

\* Jobs that have not begun are taken from the queue by the first of them.
LEMMA TakenKeeps ==
    ASSUME PipelineInv, SameRequests, NEW j \in Task, NEW s \in {"prepare", "failed"},
           stage[j] = "waiting", leader[j] \in {0, j},
           leader' = [leader EXCEPT ![j] = j],
           stage' = [k \in Task |-> IF leader'[k] = j THEN s ELSE stage[k]]
    PROVE  /\ leader' \in [Task -> Task \union {0}] /\ stage' \in [Task -> Stage] /\ BatchesTogether'
           /\ leader'[j] = j /\ \A k \in Task : k # j => leader'[k] = leader[k]
           /\ \A k \in Task : IF leader'[k] = j THEN stage[k] = "waiting" /\ stage'[k] = s
                             ELSE stage'[k] = stage[k]
           /\ leader'[1] = leader'[2] => leader[1] = leader[2] \/ \A k \in Task : stage[k] = "waiting"
<1>1. leader'[j] = j /\ \A k \in Task : k # j => leader'[k] = leader[k]
  BY DEF PipelineInv, PipelineTypeInv
<1>2. leader' \in [Task -> Task \union {0}] /\ stage' \in [Task -> Stage]
  BY DEF PipelineInv, PipelineTypeInv, Stage, Busy
<1>3. requests' = requests /\ \A k : Modular(k)' = Modular(k)
  BY RequestsStay
<1>4. j # 0 /\ 0 \notin Task
  BY DEF Task
<1>5. ASSUME NEW k \in Task
      PROVE  IF leader'[k] = j THEN stage[k] = "waiting" /\ stage'[k] = s
             ELSE stage'[k] = stage[k]
  <2>1. CASE k = j
    BY <2>1, <1>1
  <2>2. CASE k # j
    <3>1. leader'[k] = j => stage[k] = "waiting"
      BY <2>2, <1>1, <1>4 DEF PipelineInv, BatchesTogether, KeepsUp
    <3> QED BY <3>1
  <2> QED BY <2>1, <2>2
<1>6. ASSUME NEW k \in Task PROVE KeepsUp(k)'
  <2>1. KeepsUp(k)
    BY DEF PipelineInv, BatchesTogether
  <2>2. CASE k = j
    BY <2>2, <1>1, <1>3, <1>4 DEF KeepsUp
  <2>3. CASE k # j /\ leader[k] = j
    <3>1. leader[j] = j
      BY <2>1, <2>3, <1>4 DEF KeepsUp
    <3>2. Modular(j) /\ Signature(requests[k]) = Signature(requests[j])
      BY <2>1, <2>3, <1>4 DEF KeepsUp
    <3> QED BY <3>2, <2>3, <1>1, <1>3, <1>4, <1>5 DEF KeepsUp, Signature
  <2>4. CASE k # j /\ leader[k] = 0
    BY <2>1, <2>4, <1>1, <1>4, <1>5 DEF KeepsUp
  <2>5. CASE k # j /\ leader[k] \notin {0, j}
    <3>1. PICK l \in Task : l = leader[k]
      BY <2>5 DEF PipelineInv, PipelineTypeInv
    <3>2. leader[l] = l /\ l # j /\ l # 0
      BY <2>1, <2>5, <3>1 DEF KeepsUp
    <3>3. leader'[k] = l /\ leader'[l] = l /\ stage'[k] = stage[k] /\ stage'[l] = stage[l]
      BY <3>1, <3>2, <2>5, <1>1, <1>5
    <3>4. /\ stage[k] = stage[l] \/ (stage[k] \in {"export", "written"} /\ stage[l] \in {"export", "written"})
          /\ k # l => Modular(l) /\ Signature(requests[k]) = Signature(requests[l])
      BY <2>1, <3>1, <3>2 DEF KeepsUp
    <3>5. k # l => Modular(l)' /\ Signature(requests'[k]) = Signature(requests'[l])
      BY <3>4, <1>3
    <3> QED BY <3>2, <3>3, <3>4, <3>5, <1>3 DEF KeepsUp
  <2> QED BY <2>2, <2>3, <2>4, <2>5
<1>7. leader'[1] = leader'[2] => leader[1] = leader[2] \/ \A k \in Task : stage[k] = "waiting"
  <2>1. leader'[1] = leader'[2] => \A k \in Task : leader'[k] = j
    BY <1>1 DEF Task
  <2> QED BY <2>1, <1>5
<1> QED BY <1>1, <1>2, <1>5, <1>6, <1>7 DEF BatchesTogether

\* The lock of the executor.
LEMMA AcquireKeeps ==
    ASSUME PipelineInv, SameRequests, NEW j \in Task, Acquire(j) PROVE PipelineInv'
<1>1. /\ Held(j) = 0 /\ stage[j] = "waiting" /\ leader[j] \in {0, j}
      /\ holder' = Put(holder, Executor(j), j)
      /\ built' = IF Modular(j) THEN Put(built, Executor(j), BuiltFor(j)) ELSE built
      /\ lastSeed' = lastSeed /\ bundles' = bundles /\ conditioning' = conditioning
      /\ rendered' = rendered /\ saved' = saved /\ artifacts' = artifacts
      /\ stage' = [k \in Task |-> IF leader'[k] = j THEN "prepare" ELSE stage[k]]
  BY DEF Acquire, outputs
<1>2. leader' = [leader EXCEPT ![j] = j]
  BY DEF Acquire, PipelineInv, PipelineTypeInv
<1>3. /\ leader' \in [Task -> Task \union {0}] /\ stage' \in [Task -> Stage] /\ BatchesTogether'
      /\ leader'[j] = j /\ \A k \in Task : k # j => leader'[k] = leader[k]
      /\ \A k \in Task : IF leader'[k] = j THEN stage[k] = "waiting" /\ stage'[k] = "prepare"
                        ELSE stage'[k] = stage[k]
      /\ leader'[1] = leader'[2] => leader[1] = leader[2] \/ \A k \in Task : stage[k] = "waiting"
  BY <1>1, <1>2, TakenKeeps
<1>4. /\ "waiting" \notin Busy \union Conditioned \union Drawn \union Filed
      /\ "prepare" \notin Seeded \union Conditioned \union Drawn \union Filed
      /\ "prepare" \in Busy /\ {"lookup", "encode", "render"} \subseteq Seeded /\ Seeded \subseteq Busy
  BY DEF Busy, Seeded, Conditioned, Drawn, Filed
<1>5. ASSUME NEW i \in Task, i # j, leader'[i] = i, stage'[i] \in Busy
      PROVE  Executor(i) # Executor(j) /\ leader[i] = i /\ stage[i] \in Busy /\ stage'[i] = stage[i]
  <2>1. leader[i] = i /\ stage'[i] = stage[i]
    BY <1>3, <1>5
  <2>2. Executor(i) \in DOMAIN holder /\ holder[Executor(i)] = i
    BY <2>1, <1>5 DEF PipelineInv, LocksHeld, HoldsLock
  <2> QED BY <2>1, <2>2, <1>1, <1>5 DEF Held, Task
<1>6. ASSUME NEW i \in Task PROVE HoldsLock(i)'
  <2> SUFFICES ASSUME leader'[i] = i, stage'[i] \in Busy
               PROVE  Executor(i) \in DOMAIN holder' /\ holder'[Executor(i)] = i
    BY RequestsStay DEF HoldsLock
  <2>1. CASE i = j
    BY <2>1, <1>1 DEF Put
  <2>2. CASE i # j
    <3>1. /\ Executor(i) # Executor(j) /\ Executor(i) \in DOMAIN holder
          /\ holder[Executor(i)] = i
      BY <2>2, <1>5 DEF PipelineInv, LocksHeld, HoldsLock
    <3> QED BY <3>1, <1>1 DEF Put
  <2> QED BY <2>1, <2>2
<1>7. Orderly'
  BY <1>3, <1>6 DEF Orderly, LocksHeld
<1>8. PipelineTypeInv'
  BY <1>1, <1>7, TypesStay DEF PipelineInv, PipelineTypeInv
<1>9. PipelinesFit'
  <2>1. ASSUME NEW i \in Task, i # j PROVE PipelineFits(i)'
    <3>1. leader'[i] = i /\ stage'[i] \in Busy =>
            /\ leader[i] = i /\ stage'[i] = stage[i]
            /\ Executor(i) \in DOMAIN built =>
                 Executor(i) \in DOMAIN built' /\ built'[Executor(i)] = built[Executor(i)]
      BY <2>1, <1>1, <1>5 DEF Put
    <3>2. CASE leader'[i] = i /\ stage'[i] \in Busy
      BY <3>1, <3>2, <1>1, FitStays
    <3>3. CASE ~(leader'[i] = i /\ stage'[i] \in Busy)
      BY <3>3, <1>4 DEF PipelineFits, Busy
    <3> QED BY <3>2, <3>3
  <2>2. PipelineFits(j)'
    <3>1. Modular(j) => Executor(j) \in DOMAIN built'
      BY <1>1 DEF Put
    <3> QED BY <3>1, <1>3, <1>4, RequestsStay DEF PipelineFits
  <2>3. engine' => \A e \in DOMAIN built' : built'[e] = ServedBy(e)
    <3>1. engine /\ Modular(j) => ServedBy(Executor(j)) = BuiltFor(j)
      BY DEF Executor, ServedBy, BuiltFor, Modular, Class
    <3> QED BY <3>1, <1>1, RequestsStay DEF Put, PipelineInv, PipelinesFit
  <2> QED BY <2>1, <2>2, <2>3 DEF PipelinesFit
<1>10. ResultsAreOwn'
  <2>1. ASSUME NEW k \in Task PROVE ResultIsOwn(k)'
    BY <1>1, <1>3, <1>4, ResultStays
  <2> QED BY <2>1, <1>1 DEF PipelineInv, ResultsAreOwn
<1> QED BY <1>7, <1>8, <1>9, <1>10 DEF PipelineInv, Orderly

\* The modular pipeline cannot be loaded.
LEMMA LoadFailKeeps ==
    ASSUME PipelineInv, SameRequests, NEW j \in Task, ModularLoadFails(j) PROVE PipelineInv'
<1>1. /\ stage[j] = "waiting" /\ leader[j] \in {0, j} /\ leader' = [leader EXCEPT ![j] = j]
      /\ stage' = [k \in Task |-> IF leader'[k] = j THEN "failed" ELSE stage[k]]
      /\ holder' = holder /\ built' = built /\ lastSeed' = lastSeed /\ bundles' = bundles
      /\ conditioning' = conditioning /\ rendered' = rendered /\ saved' = saved
      /\ artifacts' = artifacts
  BY DEF ModularLoadFails, outputs
<1>2. /\ leader' \in [Task -> Task \union {0}] /\ stage' \in [Task -> Stage] /\ BatchesTogether'
      /\ leader'[j] = j /\ \A k \in Task : k # j => leader'[k] = leader[k]
      /\ \A k \in Task : IF leader'[k] = j THEN stage[k] = "waiting" /\ stage'[k] = "failed"
                        ELSE stage'[k] = stage[k]
      /\ leader'[1] = leader'[2] => leader[1] = leader[2] \/ \A k \in Task : stage[k] = "waiting"
  BY <1>1, TakenKeeps
<1>3. /\ "waiting" \notin Busy \union Conditioned \union Drawn \union Filed
      /\ "failed" \notin Busy \union Seeded \union Conditioned \union Drawn \union Filed
      /\ {"lookup", "encode", "render"} \subseteq Seeded /\ Seeded \subseteq Busy
  BY DEF Busy, Seeded, Conditioned, Drawn, Filed
<1>4. \A i \in Task : leader'[i] = i /\ stage'[i] \in Busy => leader[i] = i /\ stage'[i] = stage[i]
  BY <1>2, <1>3
<1>5. Orderly'
  <2>1. ASSUME NEW i \in Task PROVE HoldsLock(i)'
    BY <1>1, <1>4, RequestsStay DEF HoldsLock, PipelineInv, LocksHeld
  <2> QED BY <2>1, <1>2 DEF Orderly, LocksHeld
<1>6. PipelineTypeInv'
  BY <1>1, <1>5, TypesStay DEF PipelineInv, PipelineTypeInv
<1>7. PipelinesFit'
  <2>1. ASSUME NEW i \in Task PROVE PipelineFits(i)'
    <3>1. CASE leader'[i] = i /\ stage'[i] \in Busy
      BY <3>1, <1>1, <1>4, FitStays
    <3>2. CASE ~(leader'[i] = i /\ stage'[i] \in Busy)
      BY <3>2, <1>3 DEF PipelineFits, Busy
    <3> QED BY <3>1, <3>2
  <2> QED BY <2>1, <1>1, RequestsStay DEF PipelineInv, PipelinesFit
<1>8. ResultsAreOwn'
  <2>1. ASSUME NEW k \in Task PROVE ResultIsOwn(k)'
    BY <1>1, <1>2, <1>3, ResultStays
  <2> QED BY <2>1, <1>1 DEF PipelineInv, ResultsAreOwn
<1> QED BY <1>5, <1>6, <1>7, <1>8 DEF PipelineInv, Orderly

\* What is left of a sequence without one of its places.
LEMMA WithoutPlace ==
    ASSUME NEW D, NEW s \in Seq(D), NEW i \in 1 .. Len(s)
    PROVE  RemoveAt(s, i) \in Seq(D)
<1>1. Len(s) \in Nat /\ \A h \in 1 .. Len(s) : s[h] \in D
  OBVIOUS
<1>2. SubSeq(s, 1, i - 1) \in Seq(D)
  <2>1. 1 \in Int /\ i - 1 \in Int /\ \A h \in 1 .. (i - 1) : s[h] \in D
    BY <1>1
  <2> QED BY ONLY <2>1, SubSeqProperties
<1>3. SubSeq(s, i + 1, Len(s)) \in Seq(D)
  <2>1. i + 1 \in Int /\ Len(s) \in Int /\ \A h \in (i + 1) .. Len(s) : s[h] \in D
    BY <1>1
  <2> QED BY ONLY <2>1, SubSeqProperties
<1> QED BY <1>2, <1>3 DEF RemoveAt

\* The result cache holds bundles of tasks under their keys.
LEMMA SaveKeeps ==
    ASSUME PipelineInv, NEW j \in Task
    PROVE  Save(EmbeddingKey(j), Encoded(j)) \in Seq(Bundle)
<1> DEFINE key == EmbeddingKey(j)
           others == IF Bundles(key) = {} THEN bundles
                     ELSE RemoveAt(bundles, CHOOSE i \in Bundles(key) : TRUE)
           all == Append(others, [key |-> key, bundle |-> Encoded(j)])
<1>1. bundles \in Seq(Bundle) /\ DOMAIN bundles = 1 .. Len(bundles)
  BY DEF PipelineInv, PipelineTypeInv
<1>2. others \in Seq(Bundle)
  <2>1. CASE Bundles(key) # {}
    <3>1. (CHOOSE i \in Bundles(key) : TRUE) \in 1 .. Len(bundles)
      BY <2>1, <1>1 DEF Bundles
    <3> QED BY <3>1, <2>1, <1>1, WithoutPlace
  <2> QED BY <2>1, <1>1
<1>3. [key |-> key, bundle |-> Encoded(j)] \in Bundle
  BY DEF Bundle
<1> HIDE DEF others
<1>4. all \in Seq(Bundle) /\ all # <<>>
  <2> DEFINE b == [key |-> key, bundle |-> Encoded(j)]
  <2>1. others \in Seq(Bundle) /\ b \in Bundle
    BY <1>2, <1>3
  <2> HIDE DEF b
  <2>2. Append(others, b) \in Seq(Bundle) /\ Append(others, b) # <<>>
    BY ONLY <2>1
  <2> QED BY <2>2 DEF b
<1>5. Save(key, Encoded(j)) = IF Len(all) > MaxBundles THEN Tail(all) ELSE all
  BY DEF Save, others
<1> HIDE DEF all, key
<1>6. Tail(all) \in Seq(Bundle)
  BY <1>4
<1> QED BY <1>4, <1>5, <1>6 DEF key

\* The embeddings of a task with the same key serve.
LEMMA CachedServes ==
    ASSUME PipelineInv, NEW j \in Task, NEW h \in Task, EmbeddingKey(h) = EmbeddingKey(j)
    PROVE  /\ Encoded(h).prompt = requests[j].prompt /\ Encoded(h).weights = Own(j).weights
           /\ \/ Encoded(h).guided = requests[j].guided \/ OtherTwin(j)
              \/ Modular(j) /\ Encoded(h).guided
           /\ \/ Encoded(h).negative = requests[j].negative
              \/ Encoded(h).negative = NoText /\ ~Encoded(h).guided
<1>1. /\ requests[h].prompt = requests[j].prompt /\ requests[h].negative = requests[j].negative
      /\ {requests[h].setting} \intersect {"source", "dtype"} =
           {requests[j].setting} \intersect {"source", "dtype"}
  BY DEF EmbeddingKey
<1>2. Own(h).weights = Own(j).weights
  <2>1. \A x : x \in {requests[h].setting} \intersect {"source", "dtype"} <=>
              x \in {requests[j].setting} \intersect {"source", "dtype"}
    BY <1>1
  <2>2. /\ requests[h].setting \in {"source", "dtype"} => requests[j].setting = requests[h].setting
        /\ requests[j].setting \in {"source", "dtype"} => requests[j].setting = requests[h].setting
    BY ONLY <2>1
  <2> QED BY <2>2 DEF Own
<1>3. /\ Encoded(h).prompt = requests[h].prompt /\ Encoded(h).weights = Own(h).weights
      /\ Encoded(h).guided = (Modular(h) \/ requests[h].guided)
      /\ Encoded(h).negative =
           IF Modular(h) \/ requests[h].guided THEN requests[h].negative ELSE NoText
  BY DEF Encoded, Own
<1>4. requests[h].guided = requests[j].guided \/ OtherTwin(j)
  BY DEF OtherTwin
<1>5. requests[h].class = requests[j].class
  <2>1. /\ Class(h).task = Class(j).task /\ asked \in Class(h).models \intersect Class(j).models
        /\ requests[h].class \in ClassName /\ requests[j].class \in ClassName
    BY DEF EmbeddingKey, PipelineInv, PipelineTypeInv
  <2> QED BY <2>1, RegistryAssumption DEF Class
<1>6. Modular(h) = Modular(j)
  BY <1>5 DEF Modular, Class
<1>7. Encoded(h).guided = requests[j].guided \/ OtherTwin(j) \/ (Modular(j) /\ Encoded(h).guided)
  <2>1. CASE Modular(h)
    BY <2>1, <1>3, <1>6
  <2>2. CASE ~Modular(h)
    <3>1. Encoded(h).guided = requests[h].guided
      BY <2>2 DEF Encoded, Own, PipelineInv, PipelineTypeInv
    <3> QED BY <3>1, <1>4
  <2> QED BY <2>1, <2>2
<1>8. Encoded(h).negative = requests[j].negative \/ (Encoded(h).negative = NoText /\ ~Encoded(h).guided)
  <2>1. CASE Modular(h) \/ requests[h].guided
    BY <2>1, <1>1, <1>3
  <2>2. CASE ~(Modular(h) \/ requests[h].guided)
    BY <2>2, <1>3
  <2> QED BY <2>1, <2>2
<1> QED BY <1>1, <1>2, <1>3, <1>7, <1>8

\* The conditions are prepared.
LEMMA PrepareKeeps ==
    ASSUME PipelineInv, SameRequests, NEW j \in Task, PrepareConditions(j) PROVE PipelineInv'
<1>0. PICK s \in IF ~Modular(j) THEN {"latents"}
                ELSE IF Batched(j) THEN {"render"} ELSE {"render", "lookup"} : Move(j, s)
  BY DEF PrepareConditions
<1>1. /\ stage[j] = "prepare" /\ leader[j] = j /\ Move(j, s) /\ leader' = leader /\ holder' = holder
      /\ built' = built /\ lastSeed' = lastSeed /\ bundles' = bundles
      /\ conditioning' = [k \in Task |-> IF k \in Riders(j) THEN Given(k) ELSE conditioning[k]]
      /\ rendered' = rendered /\ saved' = saved /\ artifacts' = artifacts
  BY <1>0 DEF PrepareConditions, At, outputs
<1>2. s \in Busy /\ s \in Stage /\ stage[j] \in Busy /\ s \in {"latents", "render", "lookup"}
  BY <1>0, <1>1 DEF Stage, Busy
<1>3. Modular(j) <=> s # "latents"
  BY <1>0
<1>4. /\ Orderly' /\ stage'[j] = s
      /\ \A k \in Task : stage'[k] = IF k \in Riders(j) THEN s ELSE stage[k]
      /\ \A k \in Task \ Riders(j) : leader[k] # j
  BY <1>1, <1>2, MoveKeeps
<1>5. PipelineTypeInv'
  BY <1>1, <1>4, TypesStay DEF PipelineInv, PipelineTypeInv
<1>6. PipelinesFit'
  <2>1. ASSUME NEW i \in Task, i # j PROVE PipelineFits(i)'
    <3>1. leader[i] = i => i \notin Riders(j)
      BY <2>1 DEF Riders
    <3> QED BY <3>1, <1>1, <1>4, FitStays
  <2>2. PipelineFits(j)'
    <3>1. ASSUME Modular(j)
          PROVE  Executor(j) \in DOMAIN built /\ FitsSetting(built[Executor(j)], j)
      <4>1. engine /\ Executor(j) \in DOMAIN built
        BY <3>1, <1>1, <1>2 DEF PipelineInv, PipelinesFit, PipelineFits, Modular
      <4>2. built[Executor(j)] = BuiltFor(j)
        BY <4>1, <3>1 DEF PipelineInv, PipelinesFit, Executor, ServedBy, BuiltFor, Modular, Class
      <4> QED BY <3>1, <4>1, <4>2 DEF FitsSetting, BuiltFor, Setting
    <3>2. FitsSetting(built[Executor(j)], j)' = FitsSetting(built[Executor(j)], j)
      BY <1>1, RequestsStay DEF FitsSetting
    <3> QED BY <3>1, <3>2, <1>1, <1>2, <1>3, <1>4, RequestsStay DEF PipelineFits, Seeded
  <2> QED BY <2>1, <2>2, <1>1, RequestsStay DEF PipelineInv, PipelinesFit
<1>7. ResultsAreOwn'
  <2>1. ASSUME NEW k \in Task \ Riders(j) PROVE ResultIsOwn(k)'
    BY <1>1, <1>4, ResultStays
  <2>2. ASSUME NEW k \in Riders(j) PROVE ResultIsOwn(k)'
    <3>1. k \in Task /\ conditioning'[k] = Given(k) /\ rendered'[k] = rendered[k] /\ stage'[k] = s
      BY <1>1, <1>4 DEF Riders
    <3>2. /\ Given(k).prompt = requests[k].prompt /\ Given(k).weights = Own(k).weights
          /\ Given(k).guided = requests[k].guided
          /\ Given(k).negative = requests[k].negative \/ (Given(k).negative = NoText /\ ~Class(k).negates)
      BY DEF Given, Own
    <3>3. TextIsOwn(k)'
      BY <3>1, <3>2, RequestsStay DEF TextIsOwn
    <3>4. Called(k)' = Called(k) /\ FitsSetting(rendered[k].setting, k)' = FitsSetting(rendered[k].setting, k)
      BY <3>1, RequestsStay DEF Called, FitsSetting
    <3>5. Called(k) => rendered[k].seed = requests[k].seed /\ FitsSetting(rendered[k].setting, k)
      BY <3>1 DEF PipelineInv, ResultsAreOwn, ResultIsOwn
    <3>6. stage'[k] \notin Drawn \union Filed
      BY <3>1, <1>2 DEF Drawn, Filed
    <3> QED BY <3>1, <3>3, <3>4, <3>5, <3>6, RequestsStay DEF ResultIsOwn
  <2> QED BY <2>1, <2>2, <1>1 DEF PipelineInv, ResultsAreOwn
<1> QED BY <1>4, <1>5, <1>6, <1>7 DEF PipelineInv, Orderly

\* The pipeline is kept or loaded, and the seed noted.
LEMMA LatentsKeeps ==
    ASSUME PipelineInv, SameRequests, NEW j \in Task, Latents(j) PROVE PipelineInv'
<1> DEFINE e == Executor(j)
<1>0. PICK s \in {"render", "lookup"} : Move(j, s)
  BY DEF Latents
<1>1. /\ stage[j] = "latents" /\ leader[j] = j /\ Move(j, s) /\ leader' = leader /\ holder' = holder
      /\ lastSeed' = Put(lastSeed, e, requests[j].seed) /\ bundles' = bundles
      /\ \/ Reusable(e, j) /\ built' = built
         \/ built' = Put(built, e, requests[j].setting)
      /\ conditioning' = conditioning
      /\ rendered' = rendered /\ saved' = saved /\ artifacts' = artifacts
  BY <1>0 DEF Latents, At, outputs
<1>2. s \in Busy /\ s \in Stage /\ stage[j] \in Busy /\ s \in {"render", "lookup"}
  BY <1>1 DEF Stage, Busy
<1>9. ~Modular(j)
  BY <1>1 DEF PipelineInv, PipelinesFit, PipelineFits
<1>3. /\ Orderly' /\ stage'[j] = s
      /\ \A k \in Task : stage'[k] = IF k \in Riders(j) THEN s ELSE stage[k]
      /\ \A k \in Task \ Riders(j) : leader[k] # j
  BY <1>1, <1>2, MoveKeeps
<1>4. PipelineTypeInv'
  BY <1>1, <1>3, TypesStay DEF PipelineInv, PipelineTypeInv
<1>5. e \in DOMAIN built' /\ FitsSetting(built'[e], j)
  <2>1. CASE Reusable(e, j) /\ built' = built
    <3>1. engine => built[e] = requests[j].setting
      BY <2>1, <1>9 DEF Reusable, PipelineInv, PipelinesFit, Executor, ServedBy, Modular, Class
    <3> QED BY <2>1, <3>1, <1>9 DEF Reusable, FitsSetting
  <2>2. CASE built' = Put(built, e, requests[j].setting)
    BY <2>2, <1>9 DEF Put, FitsSetting
  <2> QED BY <2>1, <2>2, <1>1
<1>6. lastSeed'[e] = requests[j].seed /\ e \in DOMAIN lastSeed'
  BY <1>1 DEF Put
<1>7. PipelinesFit'
  <2>1. ASSUME NEW i \in Task, i # j PROVE PipelineFits(i)'
    <3>1. leader[i] = i => stage'[i] = stage[i]
      BY <2>1, <1>3 DEF Riders
    <3>2. CASE leader[i] = i /\ stage[i] \in Busy
      <4>1. Executor(i) # e
        BY <2>1, <3>2, <1>1, <1>2, OneHolder
      <4>2. /\ Executor(i) \in DOMAIN built =>
                 Executor(i) \in DOMAIN built' /\ built'[Executor(i)] = built[Executor(i)]
            /\ Executor(i) \in DOMAIN lastSeed =>
                 Executor(i) \in DOMAIN lastSeed' /\ lastSeed'[Executor(i)] = lastSeed[Executor(i)]
        <5> HIDE DEF e
        <5> QED BY <4>1, <1>1 DEF Put
      <4> QED BY <3>1, <3>2, <4>2, <1>1, FitStays
    <3>3. CASE ~(leader[i] = i /\ stage[i] \in Busy)
      BY <3>1, <3>3, <1>1 DEF PipelineFits, Busy, Seeded
    <3> QED BY <3>2, <3>3
  <2>2. PipelineFits(j)'
    <3>1. FitsSetting(built'[e], j) => FitsSetting(built[Executor(j)], j)'
      BY RequestsStay DEF FitsSetting
    <3>2. stage'[j] # "latents"
      BY <1>2, <1>3
    <3> QED BY <3>1, <3>2, <1>5, <1>6, RequestsStay DEF PipelineFits
  <2>3. engine' => \A x \in DOMAIN built' : built'[x] = ServedBy(x)
    <3>1. engine => ServedBy(e) = requests[j].setting
      BY <1>9 DEF Executor, ServedBy, Modular, Class
    <3> HIDE DEF e
    <3> QED BY <3>1, <1>1, RequestsStay DEF Put, PipelineInv, PipelinesFit
  <2> QED BY <2>1, <2>2, <2>3 DEF PipelinesFit
<1>8. ResultsAreOwn'
  <2>1. ASSUME NEW k \in Task PROVE ResultIsOwn(k)'
    <3>1. k \in Riders(j) => stage[k] \in Conditioned
      BY <1>1, RidersAlike DEF Conditioned
    <3>2. s \notin Drawn \union Filed
      BY <1>2 DEF Drawn, Filed
    <3> QED BY <3>1, <3>2, <1>1, <1>3, ResultStays
  <2> QED BY <2>1, <1>1 DEF PipelineInv, ResultsAreOwn
<1> QED BY <1>3, <1>4, <1>7, <1>8 DEF PipelineInv, Orderly

\* Texts are put in place: by a hit, by the encoder, or the prompts stay.
LEMMA TextKeeps ==
    ASSUME PipelineInv, SameRequests, NEW j \in Task, NEW s \in {"encode", "render"},
           At(j, "lookup") \/ At(j, "encode"), Move(j, s), bundles' \in Seq(Bundle),
           UNCHANGED <<leader, holder, built, lastSeed, rendered, outputs>>,
           \/ conditioning' = conditioning
           \/ \E h \in Task : /\ EmbeddingKey(h) = EmbeddingKey(j)
                             /\ conditioning' = [conditioning EXCEPT ![j] = Encoded(h)]
    PROVE  PipelineInv'
<1>1. /\ stage[j] \in {"lookup", "encode"} /\ leader[j] = j /\ leader' = leader /\ holder' = holder
      /\ built' = built /\ lastSeed' = lastSeed
      /\ rendered' = rendered /\ saved' = saved /\ artifacts' = artifacts
  BY DEF At, outputs
<1>2. s \in Busy /\ s \in Stage /\ stage[j] \in Busy /\ s \in Seeded
  BY <1>1 DEF Stage, Busy, Seeded
<1>3. /\ Orderly' /\ stage'[j] = s
      /\ \A k \in Task : stage'[k] = IF k \in Riders(j) THEN s ELSE stage[k]
      /\ \A k \in Task \ Riders(j) : leader[k] # j
  BY <1>1, <1>2, MoveKeeps
<1>4. /\ conditioning' = [k \in Task |-> conditioning'[k]]
      /\ \A k \in Task \ {j} : conditioning'[k] = conditioning[k]
      /\ \/ conditioning'[j] = conditioning[j]
         \/ \E h \in Task : EmbeddingKey(h) = EmbeddingKey(j) /\ conditioning'[j] = Encoded(h)
  BY DEF PipelineInv, PipelineTypeInv
<1>5. PipelineTypeInv'
  BY <1>1, <1>3, <1>4, TypesStay DEF PipelineInv, PipelineTypeInv
<1>6. PipelinesFit'
  <2>1. ASSUME NEW i \in Task PROVE PipelineFits(i)'
    <3>1. leader[i] = i => stage'[i] = stage[i] \/ (stage[i] \in {"lookup", "encode"} /\ stage'[i] = s)
      BY <1>1, <1>3 DEF Riders
    <3> QED BY <3>1, <1>1, FitStays DEF Busy, Seeded
  <2> QED BY <2>1, <1>1, RequestsStay DEF PipelineInv, PipelinesFit
<1>7. ASSUME NEW k \in Task
      PROVE  /\ stage'[k] \in Conditioned => stage[k] \in Conditioned
             /\ stage'[k] \in Drawn => stage[k] \in Drawn
             /\ stage'[k] \in Filed => stage[k] \in Filed
  <2>1. k \in Riders(j) => stage[k] \in Conditioned
    BY <1>1, RidersAlike DEF Conditioned
  <2>2. s \notin Drawn \union Filed
    BY DEF Drawn, Filed
  <2> QED BY <2>1, <2>2, <1>3
<1>8. ResultsAreOwn'
  <2>1. ASSUME NEW k \in Task, conditioning'[k] = conditioning[k] PROVE ResultIsOwn(k)'
    BY <2>1, <1>1, <1>7, ResultStays
  <2>2. ASSUME NEW h \in Task, EmbeddingKey(h) = EmbeddingKey(j), conditioning'[j] = Encoded(h)
        PROVE  ResultIsOwn(j)'
    <3>1. TextIsOwn(j)'
      BY <2>2, CachedServes, RequestsStay DEF TextIsOwn
    <3>2. /\ Called(j)' = Called(j)
          /\ FitsSetting(rendered[j].setting, j)' = FitsSetting(rendered[j].setting, j)
      BY <1>1, RequestsStay DEF Called, FitsSetting
    <3>3. Called(j) => rendered[j].seed = requests[j].seed /\ FitsSetting(rendered[j].setting, j)
      BY DEF PipelineInv, ResultsAreOwn, ResultIsOwn
    <3>4. stage'[j] \notin Drawn \union Filed
      BY <1>3 DEF Drawn, Filed
    <3> QED BY <3>1, <3>2, <3>3, <3>4, <1>1, RequestsStay DEF ResultIsOwn
  <2>3. \A k \in Task : ResultIsOwn(k)'
    BY <2>1, <2>2, <1>4
  <2> QED BY <2>3, <1>1 DEF PipelineInv, ResultsAreOwn
<1> QED BY <1>3, <1>5, <1>6, <1>8 DEF PipelineInv, Orderly

\* A hit, a miss, the encoder and an encoder that raises.
LEMMA EmbedKeeps ==
    ASSUME PipelineInv, SameRequests, NEW j \in Task,
           LookUpHit(j) \/ LookUpMisses(j) \/ Encode(j) \/ EncodeFails(j)
    PROVE  PipelineInv'
<1>1. bundles \in Seq(Bundle) /\ DOMAIN bundles = 1 .. Len(bundles)
  BY DEF PipelineInv, PipelineTypeInv
<1>2. CASE LookUpHit(j)
  <2>1. PICK i \in Bundles(EmbeddingKey(j)) :
          /\ bundles' = Append(RemoveAt(bundles, i), bundles[i])
          /\ conditioning' = [conditioning EXCEPT ![j] = bundles[i].bundle]
    BY <1>2 DEF LookUpHit
  <2>2. i \in 1 .. Len(bundles) /\ bundles[i].key = EmbeddingKey(j) /\ bundles[i] \in Bundle
    BY <1>1, <2>1 DEF Bundles
  <2>3. PICK h \in Task : bundles[i] = [key |-> EmbeddingKey(h), bundle |-> Encoded(h)]
    BY <2>2 DEF Bundle
  <2>4. EmbeddingKey(h) = EmbeddingKey(j) /\ bundles[i].bundle = Encoded(h)
    BY <2>2, <2>3
  <2>5. bundles' \in Seq(Bundle)
    <3>1. RemoveAt(bundles, i) \in Seq(Bundle)
      BY <1>1, <2>2, WithoutPlace
    <3> QED BY <3>1, <2>1, <2>2
  <2>6. /\ At(j, "lookup") /\ Move(j, "render")
        /\ UNCHANGED <<leader, holder, built, lastSeed, rendered, outputs>>
    BY <1>2 DEF LookUpHit
  <2>7. conditioning' = [conditioning EXCEPT ![j] = Encoded(h)]
    BY <2>1, <2>4
  <2> QED BY <2>4, <2>5, <2>6, <2>7, TextKeeps
<1>3. CASE LookUpMisses(j)
  BY <1>1, <1>3, TextKeeps DEF LookUpMisses
<1>4. CASE Encode(j)
  <2>1. bundles' \in Seq(Bundle)
    BY <1>4, SaveKeeps DEF Encode
  <2> QED BY <2>1, <1>4, TextKeeps DEF Encode
<1>5. CASE EncodeFails(j) /\ Fail(j)
  <2>1. Fail(j) /\ leader[j] = j /\ stage[j] \in Busy
    BY <1>5 DEF EncodeFails, At, Busy
  <2> QED BY <2>1, FailKeeps
<1>6. CASE EncodeFails(j) /\ ~Fail(j)
  BY <1>1, <1>6, TextKeeps DEF EncodeFails
<1> QED BY <1>2, <1>3, <1>4, <1>5, <1>6

\* A render is something.
LEMMA RenderIsSomething == \A a, b : [setting |-> a, seed |-> b] # <<>>
<1>1. DOMAIN <<>> = {}
  OBVIOUS
<1>2. \A a, b : "seed" \in DOMAIN [setting |-> a, seed |-> b]
  OBVIOUS
<1> QED BY <1>1, <1>2

\* The pipeline call.
LEMMA CallKeeps ==
    ASSUME PipelineInv, SameRequests, NEW j \in Task, CallPipeline(j) PROVE PipelineInv'
<1>1. /\ stage[j] = "render" /\ leader[j] = j /\ Move(j, "export") /\ leader' = leader
      /\ holder' = holder /\ built' = built /\ lastSeed' = lastSeed /\ bundles' = bundles
      /\ conditioning' = conditioning /\ saved' = saved /\ artifacts' = artifacts
      /\ rendered' = [k \in Task |->
                        IF k \in Riders(j)
                        THEN [setting |-> built[Executor(j)], seed |-> requests[k].seed]
                        ELSE rendered[k]]
  BY DEF CallPipeline, At, outputs
<1>2. "export" \in Busy /\ "export" \in Stage /\ stage[j] \in Busy
  BY <1>1 DEF Stage, Busy
<1>3. /\ Orderly' /\ stage'[j] = "export"
      /\ \A k \in Task : stage'[k] = IF k \in Riders(j) THEN "export" ELSE stage[k]
      /\ \A k \in Task \ Riders(j) : leader[k] # j
  BY <1>1, <1>2, MoveKeeps
<1>4. PipelineTypeInv'
  BY <1>1, <1>3, TypesStay DEF PipelineInv, PipelineTypeInv
<1>5. PipelinesFit'
  <2>1. ASSUME NEW i \in Task PROVE PipelineFits(i)'
    <3>1. leader[i] = i => stage'[i] = stage[i] \/ (stage[i] = "render" /\ stage'[i] = "export")
      BY <1>1, <1>3 DEF Riders
    <3> QED BY <3>1, <1>1, FitStays DEF Busy, Seeded
  <2> QED BY <2>1, <1>1, RequestsStay DEF PipelineInv, PipelinesFit
<1>6. ResultsAreOwn'
  <2>1. ASSUME NEW k \in Task \ Riders(j) PROVE ResultIsOwn(k)'
    BY <1>1, <1>3, ResultStays
  <2>2. ASSUME NEW k \in Riders(j) PROVE ResultIsOwn(k)'
    <3>1. /\ k \in Task /\ stage[k] = "render" /\ stage'[k] = "export"
          /\ rendered'[k] = [setting |-> built[Executor(j)], seed |-> requests[k].seed]
      BY <1>1, <1>3, RidersAlike
    <3>2. TextIsOwn(k)'
      <4>1. TextIsOwn(k)
        BY <3>1 DEF PipelineInv, ResultsAreOwn, ResultIsOwn, Conditioned
      <4> QED BY <4>1, <1>1, RequestsStay DEF TextIsOwn
    <3>3. FitsSetting(built[Executor(j)], k)
      <4>1. FitsSetting(built[Executor(j)], j)
        BY <1>1 DEF PipelineInv, PipelinesFit, PipelineFits
      <4>2. /\ Class(k) = Class(j) /\ requests[k].setting = requests[j].setting
            /\ Modular(k) = Modular(j)
        BY <1>1, RidersAlike
      <4> QED BY <4>1, <4>2 DEF FitsSetting
    <3>4. rendered'[k].setting = built[Executor(j)] /\ rendered'[k].seed = requests[k].seed
      BY <3>1
    <3>5. FitsSetting(rendered[k].setting, k)'
      BY <3>3, <3>4, RequestsStay DEF FitsSetting
    <3>6. Called(k)'
      BY <3>1, RenderIsSomething DEF Called
    <3> QED BY <3>1, <3>2, <3>4, <3>5, <3>6, RequestsStay DEF ResultIsOwn, Filed
  <2> QED BY <2>1, <2>2, <1>1 DEF PipelineInv, ResultsAreOwn
<1> QED BY <1>3, <1>4, <1>5, <1>6 DEF PipelineInv, Orderly

\* A file of the result is written.
LEMMA ExportFileKeeps ==
    ASSUME PipelineInv, SameRequests, NEW j \in Task, Export(j) PROVE PipelineInv'
<1>1. leader[j] = j /\ Unwritten(j) # {}
  BY DEF Export
<1>2. PICK k \in Unwritten(j) :
        /\ saved' = Put(saved, Name(j, k), [by |-> k, seed |-> rendered[k].seed])
        /\ artifacts' = [artifacts EXCEPT ![k] = Name(j, k)]
        /\ stage' = [stage EXCEPT ![k] = "written"]
  <2> DEFINE first == CHOOSE k \in Unwritten(j) : \A l \in Unwritten(j) : k <= l
  <2>1. \E k \in Unwritten(j) : \A l \in Unwritten(j) : k <= l
    BY <1>1 DEF Unwritten, Riders, Task
  <2>2. first \in Unwritten(j)
    BY <2>1
  <2>3. /\ saved' = Put(saved, Name(j, first), [by |-> first, seed |-> rendered[first].seed])
        /\ artifacts' = [artifacts EXCEPT ![first] = Name(j, first)]
        /\ stage' = [stage EXCEPT ![first] = "written"]
    BY DEF Export
  <2> HIDE DEF first
  <2> QED BY <2>2, <2>3
<1>3. /\ leader' = leader /\ holder' = holder /\ built' = built /\ lastSeed' = lastSeed
      /\ bundles' = bundles /\ conditioning' = conditioning /\ rendered' = rendered
  BY DEF Export
<1>4. k \in Riders(j) /\ stage[k] = "export" /\ k \in Task /\ leader[k] = j
  BY <1>2 DEF Unwritten, Riders
<1>5. /\ stage'[k] = "written" /\ \A i \in Task \ {k} : stage'[i] = stage[i]
      /\ artifacts'[k] = Name(j, k) /\ \A i \in Task \ {k} : artifacts'[i] = artifacts[i]
      /\ stage' \in [Task -> Stage] /\ artifacts' = [i \in Task |-> artifacts'[i]]
  BY <1>2, <1>4 DEF PipelineInv, PipelineTypeInv, Stage, Busy
<1>6. Orderly'
  <2>1. ASSUME NEW i \in Task PROVE KeepsUp(i)'
    <3>1. KeepsUp(i) /\ Modular(leader[i])' = Modular(leader[i]) /\ requests' = requests
      BY <1>3, RequestsStay DEF PipelineInv, BatchesTogether, Modular, Class
    <3>2. /\ leader[i] # 0 => leader[i] \in Task
          /\ \A h \in Task : stage'[h] = stage[h] \/ (stage[h] = "export" /\ stage'[h] = "written")
      BY <1>4, <1>5 DEF PipelineInv, PipelineTypeInv
    <3>3. leader[i] = 0 => stage'[i] = "waiting"
      BY <3>1, <3>2 DEF KeepsUp
    <3> QED BY <3>1, <3>2, <3>3, <1>3 DEF KeepsUp, Signature
  <2>2. ASSUME NEW i \in Task PROVE HoldsLock(i)'
    <3>1. stage'[i] \in Busy => stage[i] \in Busy
      BY <1>4, <1>5 DEF Busy
    <3> QED BY <3>1, <1>3, RequestsStay DEF HoldsLock, PipelineInv, LocksHeld
  <2> QED BY <2>1, <2>2, <1>3, <1>5 DEF Orderly, BatchesTogether, LocksHeld, PipelineInv, PipelineTypeInv
<1>7. PipelineTypeInv'
  BY <1>3, <1>5, <1>6, TypesStay DEF PipelineInv, PipelineTypeInv
<1>8. PipelinesFit'
  <2>1. ASSUME NEW i \in Task PROVE PipelineFits(i)'
    <3>1. stage'[i] = stage[i] \/ (stage[i] = "export" /\ stage'[i] = "written")
      BY <1>4, <1>5
    <3> QED BY <3>1, <1>3, FitStays DEF Busy, Seeded
  <2> QED BY <2>1, <1>3, RequestsStay DEF PipelineInv, PipelinesFit
\* The name holds the seed of the request, and in a batch the place.
<1>9. /\ Name(j, k)[2] = requests[k].seed
      /\ leader[1] = leader[2] => Name(j, k)[3] = k
  <2>1. /\ Modular(k) = Modular(j) /\ (k # j => Modular(j))
        /\ stage[j] \in {"export", "written"}
    BY <1>1, <1>4, RidersAlike
  <2>2. ~Modular(j) => k = j /\ lastSeed[Executor(j)] = requests[k].seed
    BY <2>1, <1>1 DEF PipelineInv, PipelinesFit, PipelineFits, Seeded
  <2>3. leader[1] = leader[2] => Batched(j)
    <3>1. leader[1] = leader[2] => Riders(j) = {1, 2}
      BY <1>4 DEF Riders, Task
    <3>2. Cardinality({1, 2}) = 2
      <4>1. IsFiniteSet({1}) /\ Cardinality({1}) = 1
        BY FS_Singleton
      <4>2. Cardinality({1} \union {2}) = IF 2 \in {1} THEN Cardinality({1}) ELSE Cardinality({1}) + 1
        BY ONLY <4>1, FS_AddElement
      <4>3. {1} \union {2} = {1, 2}
        OBVIOUS
      <4> QED BY <4>1, <4>2, <4>3
    <3> QED BY <3>1, <3>2 DEF Batched
  <2>4. /\ Name(j, k)[2] = IF Modular(j) THEN requests[k].seed ELSE lastSeed[Executor(j)]
        /\ Name(j, k)[3] = IF Batched(j) THEN k ELSE 1
    BY DEF Name
  <2> QED BY <2>2, <2>3, <2>4
<1>10. ResultIsOwn(k)
  BY <1>4 DEF PipelineInv, ResultsAreOwn
<1>11. ResultsAreOwn'
  <2>1. ASSUME NEW i \in Task \ {k} PROVE ResultIsOwn(i)'
    BY <1>3, <1>5, ResultStays
  <2>2. ResultIsOwn(k)'
    <3>1. TextIsOwn(k) /\ Called(k)
      BY <1>4, <1>10 DEF ResultIsOwn, Conditioned, Drawn
    <3>2. TextIsOwn(k)' /\ Called(k)'
      BY <3>1, <1>3, RequestsStay DEF TextIsOwn, Called
    <3>3. rendered[k].seed = requests[k].seed /\ FitsSetting(rendered[k].setting, k)'
      BY <3>1, <1>3, <1>10, RequestsStay DEF ResultIsOwn, FitsSetting
    <3> QED BY <3>2, <3>3, <1>3, <1>5, <1>9, RequestsStay DEF ResultIsOwn
  <2>3. ASSUME NEW n \in DOMAIN saved' PROVE saved'[n].seed = n[2]
    <3>1. rendered[k].seed = requests[k].seed
      BY <1>4, <1>10 DEF ResultIsOwn, Drawn
    <3>2. CASE n = Name(j, k)
      <4>1. saved'[n] = [by |-> k, seed |-> rendered[k].seed]
        BY <3>2, <1>2 DEF Put
      <4> QED BY <4>1, <3>1, <3>2, <1>9
    <3>3. CASE n # Name(j, k)
      BY <3>3, <1>2 DEF Put, PipelineInv, ResultsAreOwn
    <3> QED BY <3>2, <3>3
  <2> QED BY <2>1, <2>2, <2>3 DEF ResultsAreOwn
<1> QED BY <1>6, <1>7, <1>8, <1>11 DEF PipelineInv, Orderly

\* The job is done.
LEMMA FinishKeeps ==
    ASSUME PipelineInv, SameRequests, NEW j \in Task, Finish(j) PROVE PipelineInv'
<1>1. /\ stage[j] = "written" /\ leader[j] = j /\ Unwritten(j) = {} /\ Move(j, "done") /\ Unlock(j)
      /\ leader' = leader /\ built' = built /\ lastSeed' = lastSeed /\ bundles' = bundles
      /\ conditioning' = conditioning
      /\ rendered' = rendered /\ saved' = saved /\ artifacts' = artifacts
  BY DEF Finish, outputs
<1>2. "done" \notin Busy /\ "done" \in Stage /\ stage[j] \in Busy
  BY <1>1 DEF Stage, Busy
<1>3. /\ Orderly' /\ stage'[j] = "done"
      /\ \A k \in Task : stage'[k] = IF k \in Riders(j) THEN "done" ELSE stage[k]
  BY <1>1, <1>2, MoveKeeps
<1>4. ASSUME NEW k \in Task PROVE stage'[k] = stage[k] \/ (stage[k] = "written" /\ stage'[k] = "done")
  <2>1. CASE k \in Riders(j)
    <3>1. stage[k] \in {"export", "written"}
      BY <2>1, <1>1, RidersAlike
    <3>2. stage[k] # "export"
      BY <2>1, <1>1 DEF Unwritten
    <3> QED BY <2>1, <3>1, <3>2, <1>3
  <2> QED BY <2>1, <1>3
<1>5. PipelineTypeInv'
  BY <1>1, <1>3, TypesStay DEF PipelineInv, PipelineTypeInv
<1>6. PipelinesFit'
  <2>1. ASSUME NEW i \in Task PROVE PipelineFits(i)'
    BY <1>1, <1>4, FitStays DEF Busy, Seeded
  <2> QED BY <2>1, <1>1, RequestsStay DEF PipelineInv, PipelinesFit
<1>7. ResultsAreOwn'
  <2>1. ASSUME NEW k \in Task PROVE ResultIsOwn(k)'
    BY <1>1, <1>4, ResultStays DEF Conditioned, Drawn, Filed
  <2> QED BY <2>1, <1>1 DEF PipelineInv, ResultsAreOwn
<1> QED BY <1>3, <1>5, <1>6, <1>7 DEF PipelineInv, Orderly

\* Every request a caller can make is one of the model's.
LEMMA PipelineBegins == PipelineInit => PipelineInv
<1> SUFFICES ASSUME PipelineInit PROVE PipelineInv
  OBVIOUS
<1>1. /\ engine \in BOOLEAN /\ leader = [j \in Task |-> 0] /\ stage = [j \in Task |-> "waiting"]
      /\ holder = <<>> /\ built = <<>> /\ lastSeed = <<>> /\ bundles = <<>> /\ saved = <<>>
      /\ conditioning = [j \in Task |-> <<>>] /\ rendered = [j \in Task |-> <<>>]
      /\ artifacts = [j \in Task |-> <<>>]
  BY DEF PipelineInit
<1>2. ASSUME NEW j \in Task
      PROVE  requests[j] \in [class: ClassName, prompt: {1, 2}, negative: {NoText, 1}, guided: BOOLEAN,
                             seed: {NoSeed, 1, 2}, setting: Setting, given: {requests[j].given}]
  <2>1. PICK c \in ClassName, d \in ClassName :
          \E r \in Nearby(UsualRequest(d)) : requests = <<UsualRequest(c), r>>
    BY DEF PipelineInit
  <2>2. requests[1] = UsualRequest(c) /\ requests[2] \in Request(d)
    <3>1. \A r \in Nearby(UsualRequest(d)) : r \in Request(d)
      BY DEF Nearby, UsualRequest
    <3> QED BY <2>1, <3>1
  <2>3. requests[1] \in [class: ClassName, prompt: {1, 2}, negative: {NoText, 1}, guided: BOOLEAN,
                         seed: {NoSeed, 1, 2}, setting: Setting, given: {requests[1].given}]
    BY <2>2 DEF UsualRequest, Setting
  <2>4. requests[2] \in [class: ClassName, prompt: {1, 2}, negative: {NoText, 1}, guided: BOOLEAN,
                         seed: {NoSeed, 1, 2}, setting: Setting, given: {requests[2].given}]
    BY <2>2 DEF Request
  <2> QED BY <2>3, <2>4 DEF Task
<1>7. ASSUME NEW j \in Task PROVE asked \in Class(j).models
  <2>1. PICK c \in {c \in ClassName : asked \in PipelineClass[c].models},
             d \in {c \in ClassName : asked \in PipelineClass[c].models} :
          \E r \in Nearby(UsualRequest(d)) : requests = <<UsualRequest(c), r>>
    BY DEF PipelineInit
  <2>2. requests[1].class = c /\ requests[2].class = d
    <3>1. \A r \in Nearby(UsualRequest(d)) : r.class = d
      <4>1. \A r \in Request(d) : r.class = d
        BY DEF Request
      <4>2. UsualRequest(d).class = d
        BY DEF UsualRequest
      <4> QED BY <4>1, <4>2 DEF Nearby
    <3>2. PICK r \in Nearby(UsualRequest(d)) : requests = <<UsualRequest(c), r>>
      BY <2>1
    <3>3. requests[1] = UsualRequest(c) /\ requests[2] = r
      BY <3>2
    <3>4. UsualRequest(c).class = c
      BY DEF UsualRequest
    <3> QED BY <3>1, <3>3, <3>4
  <2> QED BY <2>1, <2>2 DEF Task, Class
<1>3. PipelineTypeInv
  BY <1>1, <1>2, <1>7 DEF PipelineTypeInv, Stage
<1>4. BatchesTogether /\ LocksHeld
  BY <1>1 DEF BatchesTogether, KeepsUp, LocksHeld, HoldsLock, Busy
<1>5. PipelinesFit
  BY <1>1 DEF PipelinesFit, PipelineFits, Task
<1>6. ResultsAreOwn
  BY <1>1 DEF ResultsAreOwn, ResultIsOwn, Called, Conditioned, Drawn, Filed
<1> QED BY <1>3, <1>4, <1>5, <1>6 DEF PipelineInv

\* Every step keeps the invariant.
LEMMA PipelineSteps == PipelineInv /\ [PipelineNext]_pipelineVars => PipelineInv'
<1> SUFFICES ASSUME PipelineInv, [PipelineNext]_pipelineVars PROVE PipelineInv'
  OBVIOUS
<1>1. CASE UNCHANGED pipelineVars
  <2>1. /\ SameRequests /\ leader' = leader /\ stage' = stage /\ holder' = holder /\ built' = built
        /\ lastSeed' = lastSeed /\ bundles' = bundles /\ conditioning' = conditioning
        /\ rendered' = rendered /\ saved' = saved /\ artifacts' = artifacts
    BY <1>1 DEF pipelineVars, outputs, SameRequests
  <2>2. ASSUME NEW k \in Task PROVE KeepsUp(k)' /\ HoldsLock(k)'
    <3>1. KeepsUp(k)' = KeepsUp(k) /\ HoldsLock(k)' = HoldsLock(k)
      BY <2>1, RequestsStay DEF KeepsUp, HoldsLock, Modular, Class
    <3> QED BY <3>1 DEF PipelineInv, BatchesTogether, LocksHeld
  <2>3. Orderly'
    BY <2>1, <2>2 DEF Orderly, BatchesTogether, LocksHeld, PipelineInv, PipelineTypeInv
  <2>4. PipelineTypeInv'
    BY <2>1, <2>3, TypesStay DEF PipelineInv, PipelineTypeInv
  <2>5. ASSUME NEW k \in Task PROVE PipelineFits(k)' /\ ResultIsOwn(k)'
    BY <2>1, FitStays, ResultStays
  <2> QED BY <2>1, <2>3, <2>4, <2>5, RequestsStay
          DEF PipelineInv, Orderly, PipelinesFit, ResultsAreOwn
<1>2. ASSUME SameRequests, NEW j \in Task,
             ConditionsFail(j) \/ LatentsFail(j) \/ CallFails(j) \/ ExportFails(j)
      PROVE  PipelineInv'
  <2>1. Fail(j) /\ leader[j] = j
    BY <1>2 DEF ConditionsFail, LatentsFail, CallFails, ExportFails, At
  <2>2. stage[j] \in Busy
    <3>1. CASE ExportFails(j)
      <4>1. PICK k \in Riders(j) : stage[k] = "export"
        BY <3>1 DEF ExportFails, Unwritten
      <4> QED BY <4>1, <2>1, RidersAlike DEF Busy
    <3>2. CASE ~ExportFails(j)
      BY <1>2, <3>2 DEF ConditionsFail, LatentsFail, CallFails, At, Busy
    <3> QED BY <3>1, <3>2
  <2> QED BY <2>1, <2>2, <1>2, FailKeeps
<1>3. CASE PipelineNext
  <2>1. SameRequests
    BY <1>3 DEF PipelineNext, SameRequests
  <2>2. CASE Combine
    BY <2>1, <2>2, CombineKeeps
  <2>3. ASSUME NEW j \in Task,
               \/ Acquire(j) \/ ModularLoadFails(j) \/ PrepareConditions(j) \/ ConditionsFail(j)
               \/ Latents(j) \/ LatentsFail(j) \/ LookUpHit(j) \/ LookUpMisses(j)
               \/ Encode(j) \/ EncodeFails(j) \/ CallPipeline(j) \/ CallFails(j)
               \/ Export(j) \/ ExportFails(j) \/ Finish(j)
        PROVE  PipelineInv'
    BY <2>1, <2>3, <1>2, AcquireKeeps, LoadFailKeeps, PrepareKeeps, LatentsKeeps, EmbedKeeps,
       CallKeeps, ExportFileKeeps, FinishKeeps
  <2> QED BY <2>2, <2>3, <1>3 DEF PipelineNext
<1> QED BY <1>1, <1>3

\* A render is made from the request's own prompt, weights, negative prompt (but for an
\* unguided twin) and settings: the lock of the executor, the key of the kept pipeline
\* (_load_pipeline) and the key of the cached embeddings (_embedding_key) tell jobs apart.
THEOREM RendersAreOwn == PipelineSpec => []RenderIsOwn
<1> QED BY PipelineBegins, PipelineSteps, ResultsAsPromised, PTL DEF PipelineSpec

\* A file named for a seed shows a render with that seed, the file of a finished job is
\* named for the seed of that job, and the jobs of a batch have a file each (export).
THEOREM FilesAreOwn == PipelineSpec => []ArtifactsAreOwn
<1> QED BY PipelineBegins, PipelineSteps, ResultsAsPromised, PTL DEF PipelineSpec

--------------------------------------------------------------------------------
(* Jobs of external programs.                                              *)

\* The parts of the sound among messages.
Sounds(s) == {i \in 1 .. Len(s) : s[i] = "sound"}
Message == {"sound", "empty", "error", "last"}

Progress ==
    {"waiting", "inputs", "launch", "context", "away", "export", "done", "failed"}

ExternalTypeInv ==
    /\ progress \in [External -> Progress]
    /\ uttered \in [External -> Nat] /\ kept \in [External -> Nat]
    /\ messages \in [External -> Seq(Message)]
    /\ DOMAIN output = External /\ output = [j \in External |-> output[j]]

\* A name is chosen at the launch and kept.
Launched(j) == output[j] # <<>>
NamedOnce ==
    \A j \in External :
      /\ Launched(j) => Len(output[j]) = 4
      /\ progress[j] \in {"waiting", "inputs", "launch"} => ~Launched(j)
      /\ progress[j] \in {"context", "away", "export", "done"} => Launched(j)

\* A request file holds the request of a job that chose this name.
OrdersNamed ==
    /\ \A n \in DOMAIN orders :
         n # <<>> /\ orders[n] \in External /\ output[orders[n]] = n
    /\ Uses.product = "request file" =>
         \A j \in External : progress[j] \in {"context", "away", "export", "done"} =>
           output[j] \in DOMAIN orders

\* The name the script of LiveAct chooses.
Stem(j) == <<demands[j].image[2], demands[j].audio[2]>>

\* Whose request a file shows: that of a job of this name, or of one that has the stem
\* of the file or of the job it was copied for.
NamedFor(n, k) ==
    IF Uses.product = "stems"
    THEN \E j \in External : Stem(k) = Stem(j) /\ (n = Stem(j) \/ (Launched(j) /\ output[j] = n))
    ELSE Launched(k) /\ output[k] = n

FilesNamed ==
    /\ \A n \in DOMAIN outbox :
         \E k \in External :
           /\ outbox[n].of = k /\ NamedFor(n, k)
           /\ Scripted => outbox[n].parts = 0
           /\ ~Scripted => progress[k] = "done" /\ outbox[n].parts = uttered[k]
    /\ \A j \in External : progress[j] = "done" => output[j] \in DOMAIN outbox

\* What a service uttered is kept or waits to be heard; the last message is the last.
AllHeard ==
    \A j \in External :
      /\ Uses.product # "stream" => messages[j] = <<>>
      /\ Scripted => uttered[j] = 0
      /\ \A i \in 1 .. Len(messages[j]) : messages[j][i] = "last" => i = Len(messages[j])
      /\ Uses.product = "stream" /\ progress[j] \notin {"failed", "export", "done"} =>
           kept[j] + Cardinality(Sounds(messages[j])) = uttered[j]
      /\ progress[j] = "export" /\ ~Scripted => kept[j] = uttered[j]

ExternalInv == ExternalTypeInv /\ NamedOnce /\ OrdersNamed /\ FilesNamed /\ AllHeard

\* What a dict holds after an assignment.
LEMMA OnPut ==
    ASSUME NEW d, NEW k, NEW v
    PROVE  /\ DOMAIN Put(d, k, v) = DOMAIN d \union {k} /\ Put(d, k, v)[k] = v
           /\ \A n \in DOMAIN d : n # k => Put(d, k, v)[n] = d[n]
BY DEF Put

\* The output of a finished job shows its own request, or that of a job whose output has
\* the same name.
LEMMA NamedIsOwn == ExternalInv => OutputIsOwn
<1> SUFFICES ASSUME ExternalInv, NEW j \in External, progress[j] = "done"
             PROVE  /\ outbox[output[j]].of = j \/ SharesName(j, outbox[output[j]].of)
                    /\ outbox[output[j]].of = j => outbox[output[j]].parts = uttered[j]
  BY DEF OutputIsOwn
<1> DEFINE n == output[j]
           k == outbox[n].of
<1>1. /\ n \in DOMAIN outbox /\ k \in External /\ NamedFor(n, k) /\ Launched(j)
      /\ Scripted => outbox[n].parts = 0
      /\ ~Scripted => outbox[n].parts = uttered[k]
  BY DEF ExternalInv, FilesNamed, NamedOnce
<1>2. k = j => outbox[n].parts = uttered[j]
  BY <1>1 DEF ExternalInv, AllHeard
<1>3. k = j \/ SharesName(j, k)
  <2>1. CASE Uses.product # "stems"
    BY <1>1, <2>1 DEF NamedFor, SharesName
  <2>2. CASE Uses.product = "stems"
    <3>1. PICK h \in External : Stem(k) = Stem(h) /\ (n = Stem(h) \/ (Launched(h) /\ output[h] = n))
      BY <1>1, <2>2 DEF NamedFor
    <3>2. n # Stem(h)
      <4>1. Len(n) = 4
        BY <1>1 DEF ExternalInv, NamedOnce
      <4>2. Len(Stem(h)) = 2
        BY DEF Stem
      <4> QED BY <4>1, <4>2
    <3>3. output[h] = output[j]
      BY <3>1, <3>2
    <3>4. h = j => SharesName(j, k)
      BY <3>1, <2>2 DEF SharesName, Stem
    <3> QED BY <3>3, <3>4, <1>1 DEF SharesName, External
  <2> QED BY <2>1, <2>2
<1> QED BY <1>2, <1>3

\* The number of sounds among messages.
LEMMA CountOfSounds ==
    ASSUME NEW s \in Seq(Message)
    PROVE  /\ IsFiniteSet(Sounds(s)) /\ Cardinality(Sounds(s)) \in Nat
           /\ \A m \in Message : Cardinality(Sounds(Append(s, m))) =
                Cardinality(Sounds(s)) + IF m = "sound" THEN 1 ELSE 0
           /\ s # <<>> => Cardinality(Sounds(s)) =
                Cardinality(Sounds(Tail(s))) + IF Head(s) = "sound" THEN 1 ELSE 0
<1>1. Len(s) \in Nat /\ \A i \in 1 .. Len(s) : s[i] \in Message
  OBVIOUS
<1>2. /\ IsFiniteSet(Sounds(s)) /\ Cardinality(Sounds(s)) \in Nat
  <2>1. IsFiniteSet(1 .. Len(s)) /\ Sounds(s) \subseteq 1 .. Len(s)
    BY <1>1, FS_Interval DEF Sounds
  <2> QED BY <2>1, FS_Subset, FS_CardinalityType
<1>3. ASSUME NEW m \in Message
      PROVE  Cardinality(Sounds(Append(s, m))) =
               Cardinality(Sounds(s)) + IF m = "sound" THEN 1 ELSE 0
  <2>1. /\ Len(Append(s, m)) = Len(s) + 1 /\ Append(s, m)[Len(s) + 1] = m
        /\ \A i \in 1 .. Len(s) : Append(s, m)[i] = s[i]
    BY <1>1
  <2>2. Sounds(Append(s, m)) = Sounds(s) \union IF m = "sound" THEN {Len(s) + 1} ELSE {}
    BY <1>1, <2>1 DEF Sounds
  <2>3. Len(s) + 1 \notin Sounds(s)
    BY <1>1 DEF Sounds
  <2>4. CASE m = "sound"
    <3>1. Sounds(Append(s, m)) = Sounds(s) \union {Len(s) + 1}
      BY <2>2, <2>4
    <3>2. Cardinality(Sounds(s) \union {Len(s) + 1}) = Cardinality(Sounds(s)) + 1
      BY ONLY <1>2, <2>3, FS_AddElement
    <3> QED BY <3>1, <3>2, <2>4
  <2>5. CASE m # "sound"
    <3>1. Sounds(Append(s, m)) = Sounds(s)
      BY <2>2, <2>5
    <3> QED BY <3>1, <2>5, <1>2
  <2> QED BY <2>4, <2>5
<1>4. ASSUME s # <<>>
      PROVE  Cardinality(Sounds(s)) =
               Cardinality(Sounds(Tail(s))) + IF Head(s) = "sound" THEN 1 ELSE 0
  <2>1. /\ Tail(s) \in Seq(Message) /\ Len(Tail(s)) = Len(s) - 1 /\ Head(s) = s[1]
        /\ \A i \in 1 .. (Len(s) - 1) : Tail(s)[i] = s[i + 1]
        /\ Len(s) > 0
    BY <1>1, <1>4
  <2> DEFINE late == {i \in Sounds(s) : i > 1}
             back == [i \in late |-> i - 1]
  <2>2. back \in Bijection(late, Sounds(Tail(s)))
    <3>1. \A i \in late : back[i] \in Sounds(Tail(s))
      BY <1>1, <2>1 DEF Sounds
    <3>2. \A i, h \in late : back[i] = back[h] => i = h
      BY <1>1 DEF Sounds
    <3>3. \A h \in Sounds(Tail(s)) : h + 1 \in late /\ back[h + 1] = h
      BY <1>1, <2>1 DEF Sounds
    <3>4. back \in [late -> Sounds(Tail(s))] /\ DOMAIN back = late
      BY <3>1
    <3> HIDE DEF late, back
    <3> QED BY <3>2, <3>3, <3>4 DEF Bijection, Injection, Surjection, IsInjective
  <2>3. IsFiniteSet(late) /\ late \subseteq Sounds(s)
    BY <1>2, FS_Subset
  <2>4. Cardinality(late) = Cardinality(Sounds(Tail(s))) /\ Cardinality(late) \in Nat
    <3> HIDE DEF late, back
    <3>1. ExistsBijection(late, Sounds(Tail(s))) /\ IsFiniteSet(late)
      BY <1>2, <2>2, <2>3, FS_Subset DEF ExistsBijection
    <3> QED BY <3>1, FS_Bijection, FS_CardinalityType
  <2>5. Sounds(s) = late \union IF Head(s) = "sound" THEN {1} ELSE {}
    BY <1>1, <2>1 DEF Sounds
  <2>6. 1 \notin late
    OBVIOUS
  <2> HIDE DEF late
  <2> QED BY <2>3, <2>4, <2>5, <2>6, FS_AddElement
<1> QED BY <1>2, <1>3, <1>4

\* What no step changes.
SameProgram == UNCHANGED <<program, sources, demands>>

\* The product and the stems stay.
LEMMA ProgramStays ==
    ASSUME SameProgram
    PROVE  Uses' = Uses /\ Scripted' = Scripted /\ \A k : Stem(k)' = Stem(k)
BY DEF SameProgram, Uses, Scripted, Stem

\* A job that goes on or fails and touches no name, no file and no message.
LEMMA QuietKeeps ==
    ASSUME ExternalInv, SameProgram, NEW j \in External, NEW p \in Progress,
           progress' = [progress EXCEPT ![j] = p],
           UNCHANGED <<output, orders, outbox, streamOf>>,
           progress[j] # "done",
           \/ p = "failed"
           \/ p \in {"inputs", "launch"} /\ progress[j] \in {"waiting", "inputs"}
           \/ p = "away" /\ progress[j] = "context"
           \/ p = "export" /\ progress[j] = "away" /\ Scripted
    PROVE  ExternalInv'
<1>1. Uses' = Uses /\ Scripted' = Scripted /\ \A k : Stem(k)' = Stem(k)
  BY ProgramStays
<1>2. /\ output' = output /\ orders' = orders /\ outbox' = outbox /\ messages' = messages
      /\ uttered' = uttered /\ kept' = kept
  BY DEF streamOf
<1>3. /\ progress'[j] = p /\ \A k \in External \ {j} : progress'[k] = progress[k]
      /\ progress' \in [External -> Progress]
  BY DEF ExternalInv, ExternalTypeInv
<1>4. \A k : Launched(k)' = Launched(k)
  BY <1>2 DEF Launched
<1>5. ExternalTypeInv'
  BY <1>2, <1>3 DEF ExternalInv, ExternalTypeInv
<1>6. NamedOnce'
  BY <1>2, <1>3, <1>4 DEF ExternalInv, NamedOnce
<1>7. OrdersNamed'
  BY <1>1, <1>2, <1>3, <1>4 DEF ExternalInv, OrdersNamed
<1>8. FilesNamed'
  BY <1>1, <1>2, <1>3, <1>4 DEF ExternalInv, FilesNamed, NamedFor
<1>9. AllHeard'
  BY <1>1, <1>2, <1>3 DEF ExternalInv, AllHeard
<1> QED BY <1>5, <1>6, <1>7, <1>8, <1>9 DEF ExternalInv

\* The launch.
LEMMA LaunchKeeps ==
    ASSUME ExternalInv, SameProgram, NEW j \in External, Launch(j)
    PROVE  ExternalInv'
<1> DEFINE p == IF program = "liveact" /\ demands[j].prepares THEN "context" ELSE "away"
           o == OutputName(j)
<1>1. Uses' = Uses /\ Scripted' = Scripted /\ \A k : Stem(k)' = Stem(k)
  BY ProgramStays
<1>2. /\ outbox' = outbox /\ messages' = messages /\ uttered' = uttered /\ kept' = kept
      /\ orders' = IF Uses.product = "request file" THEN Put(orders, o, j) ELSE orders
      /\ progress[j] = "launch"
  BY DEF streamOf, Launch
<1>3. /\ progress'[j] = p /\ \A k \in External \ {j} : progress'[k] = progress[k]
      /\ progress' \in [External -> Progress]
  <2>1. progress' = [progress EXCEPT ![j] = p] /\ p \in Progress
    BY DEF Launch, GoesTo, Progress
  <2> QED BY <2>1 DEF ExternalInv, ExternalTypeInv
<1>4. /\ output'[j] = o /\ \A k \in External \ {j} : output'[k] = output[k]
      /\ DOMAIN output' = External /\ output' = [k \in External |-> output'[k]]
  BY DEF ExternalInv, ExternalTypeInv, Launch
<1>5. Len(o) = 4 /\ o # <<>>
  BY DEF OutputName
<1>6. /\ ~Launched(j) /\ Launched(j)' /\ \A k \in External \ {j} : Launched(k)' = Launched(k)
  BY <1>2, <1>4, <1>5 DEF Launched, ExternalInv, NamedOnce
<1> HIDE DEF o
<1>7. ExternalTypeInv'
  BY <1>2, <1>3, <1>4 DEF ExternalInv, ExternalTypeInv
<1>8. NamedOnce'
  BY <1>3, <1>4, <1>5, <1>6 DEF ExternalInv, NamedOnce
<1>9. OrdersNamed'
  <2>1. CASE Uses.product = "request file"
    <3>1. orders' = Put(orders, o, j)
      BY <1>2, <2>1
    <3>2. DOMAIN orders' = DOMAIN orders \union {o} /\ orders'[o] = j
          /\ \A n \in DOMAIN orders : n # o => orders'[n] = orders[n]
      BY <3>1 DEF Put
    <3>3. ASSUME NEW n \in DOMAIN orders'
          PROVE  n # <<>> /\ orders'[n] \in External /\ output'[orders'[n]] = n
      <4>1. CASE n = o
        BY <4>1, <3>2, <1>4, <1>5
      <4>2. CASE n # o
        <5>1. n \in DOMAIN orders /\ orders'[n] = orders[n]
          BY <4>2, <3>2
        <5>2. n # <<>> /\ orders[n] \in External /\ output[orders[n]] = n
          BY <5>1 DEF ExternalInv, OrdersNamed
        <5>3. orders[n] # j
          BY <5>2, <1>6 DEF Launched
        <5> QED BY <5>1, <5>2, <5>3, <1>4
      <4> QED BY <4>1, <4>2
    <3> QED BY <3>2, <3>3, <1>1, <1>3, <1>4, <2>1 DEF ExternalInv, OrdersNamed
  <2>2. CASE Uses.product # "request file"
    <3>1. \A n \in DOMAIN orders : orders[n] # j
      BY <1>6, ZenonT(60) DEF ExternalInv, OrdersNamed, Launched
    <3> QED BY <2>2, <3>1, <1>1, <1>2, <1>4 DEF ExternalInv, OrdersNamed
  <2> QED BY <2>1, <2>2
<1>10. FilesNamed'
  <2>1. ASSUME NEW n, NEW k \in External, NamedFor(n, k) PROVE NamedFor(n, k)'
    BY <2>1, <1>1, <1>4, <1>6 DEF NamedFor
  <2>2. \A k \in External : (progress[k] = "done") = (progress'[k] = "done")
    BY <1>2, <1>3
  <2> QED BY <2>1, <2>2, <1>1, <1>2, <1>4 DEF ExternalInv, FilesNamed
<1>11. AllHeard'
  BY <1>1, <1>2, <1>3 DEF ExternalInv, AllHeard
<1> QED BY <1>7, <1>8, <1>9, <1>10, <1>11 DEF ExternalInv

\* A script writes its file, whether it ends well or not.
LEMMA ScriptKeeps ==
    ASSUME ExternalInv, SameProgram, NEW j \in External, NEW p \in {"export", "failed"},
           progress[j] = "away", Scripted, ScriptWrites(j),
           progress' = [progress EXCEPT ![j] = p], UNCHANGED <<output, orders, streamOf>>
    PROVE  ExternalInv'
<1> DEFINE n == Written(j)
           k == WorksOn(j)
<1>1. Uses' = Uses /\ Scripted' = Scripted /\ \A h : Stem(h)' = Stem(h)
  BY ProgramStays
<1>2. /\ output' = output /\ orders' = orders /\ messages' = messages
      /\ uttered' = uttered /\ kept' = kept
  BY DEF streamOf
<1>3. /\ progress'[j] = p /\ \A h \in External \ {j} : progress'[h] = progress[h]
      /\ progress' \in [External -> Progress]
  <2>1. p \in Progress
    BY DEF Progress
  <2> QED BY <2>1 DEF ExternalInv, ExternalTypeInv
<1>4. \A h : Launched(h)' = Launched(h)
  BY <1>2 DEF Launched
<1>5. ExternalTypeInv' /\ NamedOnce'
  BY <1>2, <1>3, <1>4 DEF ExternalInv, ExternalTypeInv, NamedOnce
<1>6. OrdersNamed'
  BY <1>1, <1>2, <1>3, <1>4 DEF ExternalInv, OrdersNamed
<1>7. AllHeard'
  BY <1>1, <1>2, <1>3 DEF ExternalInv, AllHeard
<1>8. k \in External /\ NamedFor(n, k)
  <2>1. Launched(j)
    BY DEF ExternalInv, NamedOnce
  <2>2. CASE Uses.product = "stems"
    <3>1. n = Stem(j) /\ k = j
      BY <2>2 DEF Written, WorksOn, Stem
    <3> QED BY <2>2, <3>1 DEF NamedFor
  <2>3. CASE Uses.product = "request file"
    <3>1. n = output[j] /\ k = orders[n] /\ n \in DOMAIN orders
      BY <2>3 DEF Written, WorksOn, ExternalInv, OrdersNamed
    <3> QED BY <3>1, <2>3 DEF NamedFor, ExternalInv, OrdersNamed, Launched
  <2>4. CASE Uses.product \notin {"stems", "request file"}
    BY <2>1, <2>4 DEF NamedFor, Written, WorksOn
  <2> QED BY <2>2, <2>3, <2>4
<1>9. /\ DOMAIN outbox' = DOMAIN outbox \union {n} /\ outbox'[n] = [of |-> k, parts |-> 0]
      /\ \A m \in DOMAIN outbox : m # n => outbox'[m] = outbox[m]
  BY DEF ScriptWrites, Put
<1> HIDE DEF n, k
<1>10. ASSUME NEW m, NEW h \in External, NamedFor(m, h) PROVE NamedFor(m, h)'
  BY <1>10, <1>1, <1>2, <1>4 DEF NamedFor
<1>11. FilesNamed'
  <2>1. outbox'[n].of = k /\ outbox'[n].parts = 0
    BY <1>9
  <2>2. ASSUME NEW m \in DOMAIN outbox'
        PROVE  \E h \in External : outbox'[m].of = h /\ NamedFor(m, h)' /\ outbox'[m].parts = 0
    <3>1. CASE m = n
      BY <2>1, <3>1, <1>8, <1>10
    <3>2. CASE m # n
      <4>1. m \in DOMAIN outbox /\ outbox'[m] = outbox[m]
        BY <3>2, <1>9
      <4>2. PICK h \in External : outbox[m].of = h /\ NamedFor(m, h) /\ outbox[m].parts = 0
        BY <4>1 DEF ExternalInv, FilesNamed
      <4> QED BY <4>1, <4>2, <1>10
    <3> QED BY <3>1, <3>2
  <2>3. ASSUME NEW h \in External, progress'[h] = "done" PROVE output'[h] \in DOMAIN outbox'
    <3>1. h # j /\ progress[h] = "done"
      BY <2>3, <1>3
    <3>2. output[h] \in DOMAIN outbox
      BY <3>1 DEF ExternalInv, FilesNamed
    <3> QED BY <3>2, <1>2, <1>9
  <2> QED BY <2>2, <2>3, <1>1 DEF FilesNamed
<1> QED BY <1>5, <1>6, <1>7, <1>11 DEF ExternalInv

\* A service is heard, answers or ends its stream: nothing is named or written.
LEMMA HeardKeeps ==
    ASSUME ExternalInv, SameProgram, NEW j \in External,
           Answers(j) \/ Arrive(j) \/ HearSound(j) \/ HearLast(j)
    PROVE  ExternalInv'
<1>1. Uses' = Uses /\ Scripted' = Scripted /\ \A k : Stem(k)' = Stem(k)
  BY ProgramStays
<1>2. output' = output /\ orders' = orders /\ outbox' = outbox /\ progress[j] = "away"
  BY DEF Answers, Arrive, HearSound, HearLast
<1>3. /\ Uses.product # "stream" => messages[j] = <<>>
      /\ messages[j] \in Seq(Message) /\ uttered[j] \in Nat /\ kept[j] \in Nat
      /\ DOMAIN messages = External /\ DOMAIN uttered = External /\ DOMAIN kept = External
      /\ \A i \in 1 .. Len(messages[j]) : messages[j][i] = "last" => i = Len(messages[j])
      /\ Uses.product = "stream" =>
           kept[j] + Cardinality(Sounds(messages[j])) = uttered[j]
  BY <1>2 DEF ExternalInv, ExternalTypeInv, AllHeard
<1>4. /\ \A k \in External \ {j} :
           /\ progress'[k] = progress[k] /\ messages'[k] = messages[k]
           /\ uttered'[k] = uttered[k] /\ kept'[k] = kept[k]
      /\ progress'[j] \in {"away", "export"} /\ progress' \in [External -> Progress]
  BY <1>2 DEF ExternalInv, ExternalTypeInv, Answers, Arrive, HearSound, HearLast, GoesTo, Progress
\* What the step does to the messages and the sound of the job.
<1>5. /\ messages' = [messages EXCEPT ![j] = messages'[j]] /\ messages'[j] \in Seq(Message)
      /\ uttered' = [uttered EXCEPT ![j] = uttered'[j]] /\ uttered'[j] \in Nat
      /\ kept' = [kept EXCEPT ![j] = kept'[j]] /\ kept'[j] \in Nat
      /\ Uses.product # "stream" => messages'[j] = <<>>
      /\ \A i \in 1 .. Len(messages'[j]) : messages'[j][i] = "last" => i = Len(messages'[j])
      /\ Uses.product = "stream" /\ progress'[j] = "away" =>
           kept'[j] + Cardinality(Sounds(messages'[j])) = uttered'[j]
      /\ progress'[j] = "export" => kept'[j] = uttered'[j]
      /\ ~Scripted
  <2>1. CASE Answers(j)
    BY <2>1, <1>3 DEF Answers, Scripted, GoesTo, ExternalInv, ExternalTypeInv
  <2>2. CASE Arrive(j)
    <3>1. PICK m \in Message :
            /\ messages' = [messages EXCEPT ![j] = Append(messages[j], m)]
            /\ uttered' = [uttered EXCEPT ![j] = uttered[j] + IF m = "sound" THEN 1 ELSE 0]
      BY <2>2 DEF Arrive, Message
    <3>2. /\ kept' = kept /\ progress' = progress /\ Uses.product = "stream" /\ ~Scripted
          /\ messages[j] # <<>> => messages[j][Len(messages[j])] # "last"
      BY <2>2 DEF Arrive, Scripted
    <3>3. /\ messages'[j] = Append(messages[j], m)
          /\ uttered'[j] = uttered[j] + IF m = "sound" THEN 1 ELSE 0
      BY <3>1, <1>3
    <3>4. Cardinality(Sounds(messages'[j])) =
            Cardinality(Sounds(messages[j])) + IF m = "sound" THEN 1 ELSE 0
      BY <3>3, <1>3, CountOfSounds
    <3>5. Cardinality(Sounds(messages[j])) \in Nat
      BY <1>3, CountOfSounds
    <3>6. \A i \in 1 .. Len(messages'[j]) : messages'[j][i] = "last" => i = Len(messages'[j])
      <4>1. /\ Len(messages'[j]) = Len(messages[j]) + 1 /\ Len(messages[j]) \in Nat
            /\ \A i \in 1 .. Len(messages[j]) : messages'[j][i] = messages[j][i]
        BY <3>3, <1>3
      <4>2. \A i \in 1 .. Len(messages[j]) : messages[j][i] # "last"
        BY <3>2, <1>3
      <4> QED BY <4>1, <4>2
    <3>7. messages'[j] \in Seq(Message)
      BY <3>3, <1>3
    <3> QED BY <3>1, <3>2, <3>3, <3>4, <3>5, <3>6, <3>7, <1>2, <1>3
             DEF ExternalInv, ExternalTypeInv
  <2>3. CASE HearSound(j) \/ HearLast(j)
    <3>1. messages[j] # <<>> /\ NextMessage(j) = Head(messages[j])
      BY <2>3 DEF HearSound, HearLast, NextMessage
    <3>2. /\ messages' = [messages EXCEPT ![j] = Tail(messages[j])]
          /\ messages'[j] = Tail(messages[j]) /\ uttered' = uttered
      BY <2>3, <1>3 DEF HearSound, HearLast
    <3>3. Uses.product = "stream" /\ ~Scripted
      BY <3>1, <1>3 DEF Scripted
    <3>4. /\ Cardinality(Sounds(messages[j])) =
               Cardinality(Sounds(messages'[j])) + IF Head(messages[j]) = "sound" THEN 1 ELSE 0
          /\ Cardinality(Sounds(messages[j])) \in Nat
      BY <3>1, <3>2, <1>3, CountOfSounds
    <3>5. /\ messages'[j] \in Seq(Message) /\ Len(messages'[j]) = Len(messages[j]) - 1
          /\ \A i \in 1 .. Len(messages'[j]) : messages'[j][i] = messages[j][i + 1]
          /\ Head(messages[j]) = messages[j][1] /\ Len(messages[j]) \in Nat \ {0}
      BY <3>1, <3>2, <1>3
    <3>6. Cardinality(Sounds(messages'[j])) \in Nat
      BY <3>5, CountOfSounds
    <3>7. ASSUME NEW i \in 1 .. Len(messages'[j]), messages'[j][i] = "last"
          PROVE  i = Len(messages'[j])
      <4>1. i + 1 \in 1 .. Len(messages[j]) /\ messages[j][i + 1] = "last"
        BY <3>5, <3>7
      <4>2. i + 1 = Len(messages[j])
        BY ONLY <4>1, <1>3
      <4>3. Len(messages'[j]) = Len(messages[j]) - 1 /\ Len(messages[j]) \in Nat
        BY <3>5
      <4>4. i \in Nat
        BY <3>5, <3>7
      <4> QED BY ONLY <4>2, <4>3, <4>4
    <3>8. CASE HearSound(j)
      <4>1. /\ kept' = [kept EXCEPT ![j] = kept[j] + IF Head(messages[j]) = "sound" THEN 1 ELSE 0]
            /\ progress' = progress
        BY <3>8, <3>1 DEF HearSound
      <4>2. kept'[j] = kept[j] + IF Head(messages[j]) = "sound" THEN 1 ELSE 0
        <5>1. j \in DOMAIN kept
          BY <1>3
        <5> QED BY ONLY <4>1, <5>1
      <4>3. kept'[j] \in Nat /\ kept'[j] + Cardinality(Sounds(messages'[j])) = uttered'[j]
        BY <4>2, <3>2, <3>3, <3>4, <3>6, <1>3
      <4> QED BY <4>1, <4>3, <3>2, <3>3, <3>5, <3>7, <1>2, <1>3
               DEF ExternalInv, ExternalTypeInv
    <3>9. CASE HearLast(j)
      <4>1. /\ kept' = kept /\ progress'[j] = "export" /\ Head(messages[j]) = "last"
        BY <3>9, <3>1, <1>2 DEF HearLast, GoesTo, ExternalInv, ExternalTypeInv
      <4>2. messages'[j] = <<>> /\ Len(messages'[j]) = 0
        <5>1. 1 \in 1 .. Len(messages[j]) /\ messages[j][1] = "last"
          BY <4>1, <3>5
        <5>2. 1 = Len(messages[j])
          BY ONLY <5>1, <1>3
        <5> QED BY <5>2, <3>5
      <4>3. Sounds(messages'[j]) = {}
        BY <4>2 DEF Sounds
      <4>4. kept'[j] = uttered'[j]
        <5>1. Cardinality(Sounds(messages[j])) = 0
          BY <4>1, <4>3, <3>4, FS_EmptySet
        <5>2. kept[j] + 0 = uttered[j] /\ kept[j] \in Nat
          BY ONLY <5>1, <3>3, <1>3
        <5>3. kept[j] = uttered[j]
          BY ONLY <5>2, <1>3
        <5>4. kept' = kept /\ uttered' = uttered
          BY <4>1, <3>2
        <5> QED BY ONLY <5>3, <5>4
      <4> QED BY <4>1, <4>2, <4>4, <3>2, <3>3, <3>5, <3>7, <1>3
               DEF ExternalInv, ExternalTypeInv
    <3> QED BY <3>8, <3>9, <2>3
  <2> QED BY <2>1, <2>2, <2>3
<1>6. ExternalTypeInv'
  BY <1>2, <1>4, <1>5, ZenonT(60) DEF ExternalInv, ExternalTypeInv
<1>7. NamedOnce'
  BY <1>2, <1>4 DEF ExternalInv, NamedOnce, Launched
<1>8. OrdersNamed'
  BY <1>1, <1>2, <1>4 DEF ExternalInv, OrdersNamed
<1>9. FilesNamed'
  <2>1. ASSUME NEW n, NEW k \in External, NamedFor(n, k) PROVE NamedFor(n, k)'
    BY <2>1, <1>1, <1>2 DEF NamedFor, Launched
  <2>2. \A k \in External : progress[k] = "done" => progress'[k] = "done" /\ uttered'[k] = uttered[k]
    BY <1>2, <1>4
  <2>3. \A k \in External : progress'[k] = "done" => progress[k] = "done"
    BY <1>2, <1>4
  <2> QED BY <2>1, <2>2, <2>3, <1>1, <1>2 DEF ExternalInv, FilesNamed
<1>10. AllHeard'
  <2>1. Uses.product = "stream" => ~Scripted
    BY DEF Scripted
  <2> QED BY <2>1, <1>1, <1>4, <1>5 DEF ExternalInv, AllHeard
<1> QED BY <1>6, <1>7, <1>8, <1>9, <1>10 DEF ExternalInv

\* The output is put under its name.
LEMMA ExportKeeps ==
    ASSUME ExternalInv, SameProgram, NEW j \in External, ExportOutput(j)
    PROVE  ExternalInv'
<1> DEFINE n == output[j]
           file == IF Scripted THEN outbox[Written(j)] ELSE [of |-> j, parts |-> kept[j]]
<1>1. Uses' = Uses /\ Scripted' = Scripted /\ \A h : Stem(h)' = Stem(h)
  BY ProgramStays
<1>2. /\ output' = output /\ orders' = orders /\ messages' = messages
      /\ uttered' = uttered /\ kept' = kept /\ progress[j] = "export"
      /\ Scripted => Written(j) \in DOMAIN outbox
      /\ outbox' = Put(outbox, n, file)
  BY DEF streamOf, ExportOutput
<1>3. /\ progress'[j] = "done" /\ \A h \in External \ {j} : progress'[h] = progress[h]
      /\ progress' \in [External -> Progress]
  BY DEF ExternalInv, ExternalTypeInv, ExportOutput, GoesTo, Progress
<1>4. \A h : Launched(h)' = Launched(h)
  BY <1>2 DEF Launched
<1>5. ExternalTypeInv' /\ NamedOnce'
  BY <1>2, <1>3, <1>4 DEF ExternalInv, ExternalTypeInv, NamedOnce
<1>6. OrdersNamed'
  BY <1>1, <1>2, <1>3 DEF ExternalInv, OrdersNamed
<1>7. AllHeard'
  BY <1>1, <1>2, <1>3 DEF ExternalInv, AllHeard
<1>8. Launched(j)
  BY <1>2 DEF ExternalInv, NamedOnce
<1>9. \E k \in External :
        /\ file.of = k /\ NamedFor(n, k) /\ (Scripted => file.parts = 0)
        /\ ~Scripted => k = j /\ file.parts = uttered[k]
  <2>1. CASE ~Scripted
    <3>1. file.of = j /\ file.parts = uttered[j]
      BY <2>1, <1>2 DEF ExternalInv, AllHeard
    <3> QED BY <3>1, <2>1, <1>8 DEF NamedFor, Scripted
  <2>2. CASE Scripted
    <3>1. PICK k \in External :
            file.of = k /\ NamedFor(Written(j), k) /\ file.parts = 0
      BY <2>2, <1>2 DEF ExternalInv, FilesNamed
    <3>2. CASE Uses.product # "stems"
      BY <3>1, <3>2, <2>2 DEF Written
    <3>3. CASE Uses.product = "stems"
      <4>1. Written(j) = Stem(j) /\ Len(Stem(j)) = 2
        BY <3>3 DEF Written, Stem
      <4>2. PICK h \in External :
              Stem(k) = Stem(h) /\ (Stem(j) = Stem(h) \/ (Launched(h) /\ output[h] = Stem(j)))
        BY <3>1, <3>3, <4>1 DEF NamedFor
      <4>3. ~(Launched(h) /\ output[h] = Stem(j))
        BY <4>1 DEF ExternalInv, NamedOnce
      <4>4. NamedFor(n, k)
        BY <4>2, <4>3, <3>3, <1>8 DEF NamedFor
      <4> QED BY <4>4, <3>1, <2>2
    <3> QED BY <3>2, <3>3
  <2> QED BY <2>1, <2>2
<1>10. /\ DOMAIN outbox' = DOMAIN outbox \union {n} /\ outbox'[n] = file
       /\ \A m \in DOMAIN outbox : m # n => outbox'[m] = outbox[m]
  <2> HIDE DEF file
  <2> QED BY <1>2 DEF Put
<1> HIDE DEF n, file
<1>11. ASSUME NEW m, NEW h \in External, NamedFor(m, h) PROVE NamedFor(m, h)'
  BY <1>11, <1>1, <1>2, <1>4 DEF NamedFor
<1>12. FilesNamed'
  <2>1. ASSUME NEW m \in DOMAIN outbox'
        PROVE  \E h \in External :
                 /\ outbox'[m].of = h /\ NamedFor(m, h)' /\ (Scripted => outbox'[m].parts = 0)
                 /\ ~Scripted => progress'[h] = "done" /\ outbox'[m].parts = uttered[h]
    <3>1. CASE m = n
      BY <3>1, <1>3, <1>9, <1>10, <1>11
    <3>2. CASE m # n
      <4>1. m \in DOMAIN outbox /\ outbox'[m] = outbox[m]
        BY <3>2, <1>10
      <4>2. PICK h \in External :
              /\ outbox[m].of = h /\ NamedFor(m, h) /\ (Scripted => outbox[m].parts = 0)
              /\ ~Scripted => progress[h] = "done" /\ outbox[m].parts = uttered[h]
        BY <4>1 DEF ExternalInv, FilesNamed
      <4> QED BY <4>1, <4>2, <1>3, <1>11
    <3> QED BY <3>1, <3>2
  <2>2. ASSUME NEW h \in External, progress'[h] = "done" PROVE output'[h] \in DOMAIN outbox'
    <3>1. h = j \/ progress[h] = "done"
      BY <2>2, <1>3
    <3>2. output[h] \in DOMAIN outbox \/ output[h] = n
      BY <3>1 DEF ExternalInv, FilesNamed, n
    <3> QED BY <3>2, <1>2, <1>10
  <2> QED BY <2>1, <2>2, <1>1, <1>2 DEF FilesNamed
<1> QED BY <1>5, <1>6, <1>7, <1>12 DEF ExternalInv

\* The output of a finished job shows that job's request, or that of a job whose output
\* has the same name, with all the sound its service uttered: the names are chosen at the
\* launch (prepare_latents) and looked up at the export of the script-backed pipelines.
THEOREM OutputsAreOwn == ExternalSpec => []OutputIsOwn
<1>1. ExternalInit => ExternalInv
  <2> SUFFICES ASSUME ExternalInit PROVE ExternalInv
    OBVIOUS
  <2>1. ExternalTypeInv /\ NamedOnce /\ OrdersNamed /\ FilesNamed
    BY DEF ExternalInit, ExternalTypeInv, Progress, NamedOnce, Launched, OrdersNamed, FilesNamed
  <2>2. Sounds(<<>>) = {}
    BY DEF Sounds
  <2>3. Cardinality(Sounds(<<>>)) = 0
    BY <2>2, FS_EmptySet
  <2>4. AllHeard
    BY <2>3 DEF ExternalInit, AllHeard
  <2> QED BY <2>1, <2>4 DEF ExternalInv
<1>2. ExternalInv /\ [ExternalNext]_externalVars => ExternalInv'
  <2> SUFFICES ASSUME ExternalInv, [ExternalNext]_externalVars PROVE ExternalInv'
    OBVIOUS
  <2>1. CASE UNCHANGED externalVars
    <3>1. /\ program' = program /\ demands' = demands /\ progress' = progress
          /\ output' = output /\ orders' = orders /\ outbox' = outbox
          /\ messages' = messages /\ uttered' = uttered /\ kept' = kept
      BY <2>1 DEF externalVars, streamOf
    <3>2. ExternalTypeInv' /\ NamedOnce' /\ OrdersNamed'
      BY <3>1 DEF ExternalInv, ExternalTypeInv, NamedOnce, Launched, OrdersNamed, Uses
    <3>3. FilesNamed'
      <4>1. /\ Uses' = Uses /\ Scripted' = Scripted
            /\ \A n, k : NamedFor(n, k) => NamedFor(n, k)'
        BY <3>1 DEF NamedFor, Launched, Stem, Scripted, Uses
      <4> QED BY <3>1, <4>1 DEF ExternalInv, FilesNamed
    <3>4. AllHeard'
      BY <3>1 DEF ExternalInv, AllHeard, Scripted, Uses
    <3> QED BY <3>2, <3>3, <3>4 DEF ExternalInv
  <2>2. ASSUME NEW j \in External, SameProgram,
               \/ BeginExternal(j) \/ TakeInputs(j) \/ InputsFail(j) \/ LaunchFails(j)
               \/ SkipContext(j) \/ EncodeContext(j) \/ ContextFails(j)
               \/ ServiceFails(j) \/ OutputFails(j)
        PROVE  ExternalInv'
    <3>1. /\ UNCHANGED <<output, orders, outbox, streamOf>> /\ progress[j] # "done"
          /\ \E p \in Progress :
               /\ progress' = [progress EXCEPT ![j] = p]
               /\ \/ p = "failed"
                  \/ p \in {"inputs", "launch"} /\ progress[j] \in {"waiting", "inputs"}
                  \/ p = "away" /\ progress[j] = "context"
      BY <2>2 DEF BeginExternal, TakeInputs, InputsFail, LaunchFails, SkipContext, EncodeContext,
           ContextFails, ServiceFails, OutputFails, Fails, GoesTo, Progress
    <3> QED BY <3>1, <2>2, QuietKeeps
  <2>3. ASSUME NEW j \in External, SameProgram, ScriptEnds(j) \/ ScriptFails(j)
        PROVE  ExternalInv'
    <3>1. PICK p \in {"export", "failed"} :
            /\ progress' = [progress EXCEPT ![j] = p]
            /\ ScriptWrites(j) \/ UNCHANGED outbox
      BY <2>3 DEF ScriptEnds, ScriptFails, Fails, GoesTo
    <3>2. progress[j] = "away" /\ Scripted /\ UNCHANGED <<output, orders, streamOf>>
      BY <2>3 DEF ScriptEnds, ScriptFails
    <3>3. CASE ScriptWrites(j)
      BY <3>1, <3>2, <3>3, <2>3, ScriptKeeps
    <3>4. CASE UNCHANGED outbox
      BY <3>1, <3>2, <3>4, <2>3, QuietKeeps DEF Progress
    <3> QED BY <3>1, <3>3, <3>4
  <2>4. CASE ExternalNext
    <3>1. SameProgram
      BY <2>4 DEF ExternalNext, SameProgram
    <3>2. PICK j \in External :
            \/ BeginExternal(j) \/ TakeInputs(j) \/ InputsFail(j) \/ Launch(j) \/ LaunchFails(j)
            \/ SkipContext(j) \/ EncodeContext(j) \/ ContextFails(j)
            \/ ScriptEnds(j) \/ ScriptFails(j)
            \/ Answers(j) \/ Arrive(j) \/ HearSound(j) \/ HearLast(j) \/ ServiceFails(j)
            \/ ExportOutput(j) \/ OutputFails(j)
      BY <2>4 DEF ExternalNext
    <3> QED BY <3>1, <3>2, <2>2, <2>3, LaunchKeeps, HeardKeeps, ExportKeeps
  <2> QED BY <2>1, <2>4
<1> QED BY <1>1, <1>2, NamedIsOwn, PTL DEF ExternalSpec

================================================================================
