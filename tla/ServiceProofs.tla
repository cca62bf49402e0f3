----------------------------- MODULE ServiceProofs -----------------------------
(***************************************************************************)
(* The working directory of the model servers (RepoWhileNeeded), the state *)
(* file of the installer (InstallRecorded), the record in Redis            *)
(* (RecordGrows), the executor cache (LostToOthersOnly) and the token      *)
(* stream (EverythingSpoken), for any connections, installs, readers,      *)
(* subscribers, threads, cache sizes, segments, windows and overlaps.      *)
(*                                                                         *)
(* A client that has the whole stream has all of it because of two things: *)
(* the tokens that are said and not decoded are in front of the marks in   *)
(* the queue of their segment (QueueInv), and what the client heard, with  *)
(* what is on its way to it, holds every sound up to the edge the worker   *)
(* has come to, in order and once (LineInv).                               *)
(***************************************************************************)
EXTENDS ExecutorCaches, RedisJobStore, ChunkServers, RuntimeInstall, TokenStream,
        SequenceTheorems, FiniteSetTheorems, TLAPS

--------------------------------------------------------------------------------
(* Sequences.                                                              *)

\* What the front of a sequence is.
LEMMA OnFront ==
    ASSUME NEW D, NEW s \in Seq(D), s # <<>>
    PROVE  /\ Front(s) \in Seq(D) /\ Len(Front(s)) = Len(s) - 1
           /\ \A i \in 1 .. (Len(s) - 1) : Front(s)[i] = s[i]
           /\ Len(s) = 1 => Front(s) = <<>>
<1>1. Len(s) \in Nat \ {0} /\ \A i \in 1 .. Len(s) : s[i] \in D
  OBVIOUS
<1> DEFINE n == Len(s) - 1
<1>2. /\ SubSeq(s, 1, n) \in Seq(D) /\ Len(SubSeq(s, 1, n)) = n
      /\ \A i \in 1 .. n : SubSeq(s, 1, n)[i] = s[i]
  <2>1. n \in Nat /\ 1 \in Int /\ n \in Int /\ \A i \in 1 .. n : s[i] \in D
    BY <1>1
  <2>2. /\ SubSeq(s, 1, n) \in Seq(D) /\ Len(SubSeq(s, 1, n)) = IF 1 <= n THEN n - 1 + 1 ELSE 0
        /\ \A i \in 1 .. n - 1 + 1 : SubSeq(s, 1, n)[i] = s[1 + i - 1]
    BY ONLY <2>1, SubSeqProperties
  <2>3. n - 1 + 1 = n /\ \A i \in 1 .. n : 1 + i - 1 = i
    BY <2>1
  <2> QED BY <2>1, <2>2, <2>3
<1>3. Len(s) = 1 => SubSeq(s, 1, Len(s) - 1) = <<>>
  BY <1>1, SubSeqEmpty
<1> QED BY <1>2, <1>3 DEF Front

\* A sequence is a prefix or a suffix of another, place by place.
LEMMA OnPrefix ==
    ASSUME NEW D, NEW s \in Seq(D), NEW t \in Seq(D)
    PROVE  IsPrefix(s, t) <=> Len(s) <= Len(t) /\ \A i \in 1 .. Len(s) : s[i] = t[i]
<1>1. Len(s) \in Nat /\ Len(t) \in Nat /\ \A i \in 1 .. Len(s) : s[i] \in D
  OBVIOUS
<1>2. SubSeq(s, 1, Len(s)) = s
  BY SubSeqFull
<1>3. ASSUME Len(s) <= Len(t)
      PROVE  /\ SubSeq(t, 1, Len(s)) \in Seq(D) /\ Len(SubSeq(t, 1, Len(s))) = Len(s)
             /\ \A i \in 1 .. Len(s) : SubSeq(t, 1, Len(s))[i] = t[i]
  <2> DEFINE n == Len(s)
  <2>1. n \in Nat /\ 1 \in Int /\ n \in Int /\ \A i \in 1 .. n : t[i] \in D
    BY <1>1, <1>3
  <2>2. /\ SubSeq(t, 1, n) \in Seq(D) /\ Len(SubSeq(t, 1, n)) = IF 1 <= n THEN n - 1 + 1 ELSE 0
        /\ \A i \in 1 .. n - 1 + 1 : SubSeq(t, 1, n)[i] = t[1 + i - 1]
    BY ONLY <2>1, SubSeqProperties
  <2>3. n - 1 + 1 = n /\ \A i \in 1 .. n : 1 + i - 1 = i
    BY <2>1
  <2> QED BY <2>1, <2>2, <2>3
<1>4. ASSUME Len(s) <= Len(t), \A i \in 1 .. Len(s) : s[i] = t[i] PROVE s = SubSeq(t, 1, Len(s))
  BY <1>1, <1>3, <1>4, SeqEqual
<1> QED BY <1>1, <1>2, <1>3, <1>4 DEF IsPrefix

\* The same from the end.
LEMMA OnSuffix ==
    ASSUME NEW D, NEW s \in Seq(D), NEW t \in Seq(D)
    PROVE  IsSuffix(s, t) <=>
             Len(s) <= Len(t) /\ \A i \in 1 .. Len(s) : s[Len(s) - i + 1] = t[Len(t) - i + 1]
<1>1. ASSUME NEW q \in Seq(D)
      PROVE  /\ Reverse(q) \in Seq(D) /\ Len(Reverse(q)) = Len(q) /\ Len(q) \in Nat
             /\ \A i \in 1 .. Len(q) : Reverse(q)[i] = q[Len(q) - i + 1]
  <2>1. /\ Len(q) \in Nat /\ \A i \in 1 .. Len(q) : q[Len(q) - i + 1] \in D
        /\ Reverse(q) = [i \in 1 .. Len(q) |-> q[Len(q) - i + 1]]
    BY DEF Reverse
  <2>2. Reverse(q) \in [1 .. Len(q) -> D]
    BY <2>1
  <2>3. Reverse(q) \in Seq(D)
    BY <2>1, <2>2, IsASeq
  <2>4. Len(Reverse(q)) = Len(q)
    BY <2>1, <2>2, <2>3, LenProperties
  <2> QED BY <2>1, <2>3, <2>4
<1>2. IsSuffix(s, t) <=> IsPrefix(Reverse(s), Reverse(t))
  BY DEF IsSuffix
<1>3. Reverse(s) \in Seq(D) /\ Reverse(t) \in Seq(D)
  BY <1>1
<1>4. IsPrefix(Reverse(s), Reverse(t)) <=>
        /\ Len(Reverse(s)) <= Len(Reverse(t))
        /\ \A i \in 1 .. Len(Reverse(s)) : Reverse(s)[i] = Reverse(t)[i]
  BY <1>3, OnPrefix
<1> QED BY <1>1, <1>2, <1>4

\* What both get at their end keeps a suffix a suffix.
LEMMA SuffixGrows ==
    ASSUME NEW D, NEW s \in Seq(D), NEW t \in Seq(D), NEW x \in D, IsSuffix(s, t)
    PROVE  IsSuffix(Append(s, x), Append(t, x))
<1>1. /\ Len(s) \in Nat /\ Len(t) \in Nat /\ Len(s) <= Len(t)
      /\ \A i \in 1 .. Len(s) : s[Len(s) - i + 1] = t[Len(t) - i + 1]
  BY OnSuffix
<1>2. ASSUME NEW q \in Seq(D)
      PROVE  /\ Append(q, x) \in Seq(D) /\ Len(Append(q, x)) = Len(q) + 1
             /\ Append(q, x)[Len(q) + 1] = x /\ \A i \in 1 .. Len(q) : Append(q, x)[i] = q[i]
  OBVIOUS
<1>3. Append(s, x) \in Seq(D) /\ Append(t, x) \in Seq(D)
      /\ Len(Append(s, x)) = Len(s) + 1 /\ Len(Append(t, x)) = Len(t) + 1
  BY <1>2
<1>4. ASSUME NEW i \in 1 .. Len(s) + 1
      PROVE  Append(s, x)[Len(s) + 1 - i + 1] = Append(t, x)[Len(t) + 1 - i + 1]
  <2>1. CASE i = 1
    BY <1>1, <1>2, <2>1
  <2>2. CASE i > 1
    <3>1. i - 1 \in 1 .. Len(s) /\ Len(s) - (i - 1) + 1 \in 1 .. Len(s)
          /\ Len(t) - (i - 1) + 1 \in 1 .. Len(t)
          /\ Len(s) + 1 - i + 1 = Len(s) - (i - 1) + 1 /\ Len(t) + 1 - i + 1 = Len(t) - (i - 1) + 1
      BY <1>1, <2>2
    <3>2. s[Len(s) - (i - 1) + 1] = t[Len(t) - (i - 1) + 1]
      BY <1>1, <3>1
    <3> QED BY <1>2, <3>1, <3>2
  <2> QED BY <1>1, <2>1, <2>2
<1> DEFINE a == Append(s, x)
           b == Append(t, x)
<1>5. /\ a \in Seq(D) /\ b \in Seq(D) /\ Len(a) = Len(s) + 1 /\ Len(b) = Len(t) + 1
      /\ \A i \in 1 .. Len(s) + 1 : a[Len(s) + 1 - i + 1] = b[Len(t) + 1 - i + 1]
  <2>1. a \in Seq(D) /\ b \in Seq(D) /\ Len(a) = Len(s) + 1 /\ Len(b) = Len(t) + 1
    BY <1>3
  <2>2. \A i \in 1 .. Len(s) + 1 : a[Len(s) + 1 - i + 1] = b[Len(t) + 1 - i + 1]
    BY <1>4
  <2> QED BY <2>1, <2>2
<1> HIDE DEF a, b
<1>6. IsSuffix(a, b)
  <2>1. Len(a) <= Len(b) /\ \A i \in 1 .. Len(a) : a[Len(a) - i + 1] = b[Len(b) - i + 1]
    BY <1>1, <1>5
  <2> QED BY ONLY <1>5, <2>1, OnSuffix
<1> QED BY <1>6 DEF a, b

--------------------------------------------------------------------------------
(* The directories a call restores.                                        *)

Places == {"launch", "repo"}

Phases == {"idle", "enter", "chdir", "work", "leave", "done"}

ChunkTypeOK ==
    previous \in [Peer -> Seq(Places)] /\ phase \in [Peer -> Phases] /\ cwd \in Places

\* A call has directories to restore only between its entry and its leave.
PhaseFits ==
    \A c \in Peer : /\ phase[c] \in {"idle", "enter", "done"} => previous[c] = <<>>
                    /\ phase[c] \in {"chdir", "leave"} => previous[c] # <<>>

\* Only the outermost entry of a call can come from the launch directory.
InnerIsRepo == \A c \in Peer : \A i \in 2 .. Len(previous[c]) : previous[c][i] = "repo"

\* The call that came from the launch directory is still there.
Holds(h) == InRepo(h) /\ previous[h][1] = "launch"

\* The process is in the repository, and will leave it, or no call has to restore it.
Sound ==
    /\ InnerIsRepo
    /\ \/ cwd = "repo" /\ \E h \in Peer : Holds(h)
       \/ cwd = "launch" /\ \A c \in Peer : ~ InRepo(c)
                                           /\ (previous[c] # <<>> => previous[c][1] = "launch")

ChunkInv == ChunkTypeOK /\ PhaseFits /\ (~ overtaken => Sound)

\* What a call reads before it enters the repository, alone, beside others or once more.
LEMMA DirectoryReadKeeps ==
    ASSUME ChunkInv, NEW c \in Peer, ReadDirectory(c)
    PROVE  ChunkInv'
<1> DEFINE s == previous[c]
<1>1. /\ ChunkTypeOK /\ PhaseFits /\ previous' = [previous EXCEPT ![c] = Append(s, cwd)]
      /\ phase' = [phase EXCEPT ![c] = "chdir"] /\ UNCHANGED <<cwd, overtaken>>
      /\ s = <<>> \/ (Len(s) = 1 /\ phase[c] = "work")
  BY DEF ChunkInv, ReadDirectory, PhaseFits
<1>2. /\ s \in Seq(Places) /\ Len(s) \in Nat /\ cwd \in Places
      /\ \A d \in Peer \ {c} : previous'[d] = previous[d] /\ phase'[d] = phase[d]
      /\ previous'[c] = Append(s, cwd) /\ phase'[c] = "chdir"
  BY <1>1 DEF ChunkTypeOK, Phases
<1>3. /\ Append(s, cwd) \in Seq(Places) /\ Len(Append(s, cwd)) = Len(s) + 1
      /\ Append(s, cwd)[Len(s) + 1] = cwd
      /\ \A i \in 1 .. Len(s) : Append(s, cwd)[i] = s[i]
      /\ Append(s, cwd) # <<>>
  BY <1>2
<1>4. ChunkTypeOK' /\ PhaseFits'
  <2>1. ChunkTypeOK'
    BY <1>1, <1>2, <1>3 DEF ChunkTypeOK, Phases
  <2>2. PhaseFits'
    BY <1>1, <1>2, <1>3 DEF PhaseFits
  <2> QED BY <2>1, <2>2
<1>5. ASSUME ~ overtaken PROVE Sound'
  <2>1. Sound
    BY <1>5 DEF ChunkInv
  <2>2. \A d \in Peer \ {c} : (InRepo(d)' <=> InRepo(d)) /\ (Holds(d)' <=> Holds(d))
    BY <1>2 DEF InRepo, Holds
  <2>3. CASE s = <<>>
    <3>1. /\ Len(previous'[c]) = 1 /\ previous'[c][1] = cwd /\ ~ InRepo(c) /\ ~ InRepo(c)'
      BY <1>2, <1>3, <2>3 DEF InRepo
    <3>2. InnerIsRepo'
      BY <1>2, <2>1, <3>1 DEF Sound, InnerIsRepo
    <3>3. CASE cwd = "repo"
      BY <1>1, <2>1, <2>2, <3>1, <3>2, <3>3 DEF Sound, Holds
    <3>4. CASE cwd = "launch"
      BY <1>1, <1>2, <2>1, <2>2, <3>1, <3>2, <3>4 DEF Sound
    <3> QED BY <1>2, <3>3, <3>4 DEF Places
  <2>4. CASE Len(s) = 1 /\ phase[c] = "work"
    <3>1. /\ s # <<>> /\ InRepo(c)
      BY <1>2, <2>4 DEF InRepo
    <3>2. cwd = "repo" /\ InRepo(c)'
      BY <1>2, <1>3, <2>1, <2>4, <3>1 DEF InRepo, Sound
    <3>3. previous'[c][1] = previous[c][1] /\ Len(previous'[c]) = 2 /\ previous'[c][2] = "repo"
      BY <1>2, <1>3, <2>4, <3>2
    <3>4. InnerIsRepo'
      BY <1>2, <2>1, <3>3 DEF Sound, InnerIsRepo
    <3> QED BY <1>1, <2>1, <2>2, <3>1, <3>2, <3>3, <3>4 DEF Sound, Holds
  <2> QED BY <1>1, <2>3, <2>4
<1> QED BY <1>1, <1>4, <1>5 DEF ChunkInv

\* A call changes to the repository.
LEMMA EnterKeeps ==
    ASSUME ChunkInv, NEW c \in Peer, EnterRepo(c)
    PROVE  ChunkInv'
<1>1. /\ ChunkTypeOK /\ PhaseFits /\ UNCHANGED <<previous, overtaken>>
      /\ cwd' = "repo" /\ phase[c] = "chdir" /\ phase' = [phase EXCEPT ![c] = "work"]
  BY DEF ChunkInv, EnterRepo
<1>2. ChunkTypeOK' /\ PhaseFits'
  BY <1>1 DEF ChunkTypeOK, PhaseFits, Phases, Places
<1>3. /\ previous[c] # <<>> /\ phase'[c] = "work" /\ \A d \in Peer \ {c} : phase'[d] = phase[d]
  BY <1>1 DEF ChunkTypeOK, PhaseFits
<1>4. ASSUME ~ overtaken PROVE Sound'
  <2>1. Sound
    BY <1>4 DEF ChunkInv
  <2>2. InRepo(c)' /\ \A d \in Peer : Holds(d) => Holds(d)'
    BY <1>1, <1>3 DEF InRepo, Holds
  <2>3. InnerIsRepo'
    BY <1>1, <2>1 DEF Sound, InnerIsRepo
  <2>4. CASE cwd = "repo"
    BY <1>1, <2>1, <2>2, <2>3, <2>4 DEF Sound
  <2>5. CASE cwd = "launch"
    BY <1>1, <1>3, <2>1, <2>2, <2>3, <2>5 DEF Sound, Holds
  <2> QED BY <1>1, <2>4, <2>5 DEF ChunkTypeOK, Places
<1> QED BY <1>1, <1>2, <1>4 DEF ChunkInv

\* A call leaves it again, from the inner directory or the outer one.
LEMMA LeaveKeeps ==
    ASSUME ChunkInv, NEW c \in Peer, LeaveRepo(c)
    PROVE  ChunkInv'
<1> DEFINE s == previous[c]
<1>1. /\ ChunkTypeOK /\ PhaseFits /\ phase[c] = "leave" /\ s # <<>> /\ s \in Seq(Places)
      /\ cwd' = Last(s) /\ previous' = [previous EXCEPT ![c] = Front(s)]
      /\ phase' \in {[phase EXCEPT ![c] = p] : p \in {"leave", "work", "done"}}
      /\ Len(s) > 1 <=> phase'[c] = "leave"
      /\ overtaken' = IF Last(s) = "launch" THEN \E d \in Peer : previous'[d] # <<>> ELSE overtaken
  BY DEF ChunkInv, LeaveRepo, Restored, ChunkTypeOK, PhaseFits
<1>2. /\ Front(s) \in Seq(Places) /\ Len(Front(s)) = Len(s) - 1 /\ Len(s) \in Nat \ {0}
      /\ \A i \in 1 .. (Len(s) - 1) : Front(s)[i] = s[i]
      /\ Len(s) = 1 => Front(s) = <<>>
      /\ Last(s) = s[Len(s)] /\ Last(s) \in Places
  BY <1>1, OnFront DEF Last
<1>3. /\ \A d \in Peer \ {c} : previous'[d] = previous[d] /\ phase'[d] = phase[d]
      /\ previous'[c] = Front(s) /\ phase'[c] \in {"leave", "work", "done"}
      /\ phase' \in [Peer -> Phases]
  BY <1>1 DEF ChunkTypeOK, Phases
<1>4. Len(s) > 1 => Front(s) # <<>>
  BY <1>2
<1>5. ChunkTypeOK' /\ PhaseFits'
  <2>1. ChunkTypeOK'
    BY <1>1, <1>2, <1>3 DEF ChunkTypeOK
  <2>2. PhaseFits'
    BY <1>1, <1>2, <1>3, <1>4 DEF PhaseFits
  <2> QED BY <2>1, <2>2
<1>6. ASSUME ~ overtaken', Last(s) = "launch" PROVE Sound'
  <2>1. \A d \in Peer : previous'[d] = <<>>
    BY <1>1, <1>6
  <2>2. \A d \in Peer : ~ InRepo(d)'
    BY <2>1 DEF InRepo
  <2> QED BY <1>1, <1>6, <2>1, <2>2 DEF Sound, InnerIsRepo
<1>7. ASSUME ~ overtaken', Last(s) = "repo" PROVE Sound'
  <2>1. ~ overtaken /\ Sound /\ cwd' = "repo"
    BY <1>1, <1>7 DEF ChunkInv
  <2>2. InRepo(c)
    BY <1>1 DEF InRepo
  <2>3. PICK h \in Peer : Holds(h)
    BY <2>1, <2>2 DEF Sound
  <2>4. Holds(h)'
    <3>1. CASE h # c
      BY <1>3, <2>3, <3>1 DEF Holds, InRepo
    <3>2. CASE h = c
      <4>1. s[1] = "launch"
        BY <2>3, <3>2 DEF Holds
      <4>2. Len(s) > 1
        <5>1. Len(s) = 1 => s[Len(s)] = s[1]
          OBVIOUS
        <5>2. Len(s) # 1
          BY <1>2, <1>7, <4>1, <5>1, Zenon
        <5>3. Len(s) \in Nat /\ Len(s) # 0
          BY <1>2, Zenon
        <5> DEFINE n == Len(s)
        <5>4. n \in Nat /\ n # 0 /\ n # 1
          BY <5>2, <5>3, Zenon
        <5> HIDE DEF n
        <5>5. n > 1
          BY ONLY <5>4
        <5> QED BY <5>5, Zenon DEF n
      <4>3. Front(s)[1] = "launch" /\ phase'[c] = "leave"
        BY <1>1, <1>2, <4>1, <4>2
      <4> QED BY <1>3, <1>4, <3>2, <4>2, <4>3 DEF Holds, InRepo
    <3> QED BY <3>1, <3>2
  <2>5. InnerIsRepo'
    <3>1. \A i \in 2 .. Len(previous'[c]) : previous'[c][i] = "repo"
      <4> DEFINE n == Len(s)
      <4>1. \A i \in 2 .. n - 1 : i \in 1 .. n - 1 /\ i \in 2 .. n
        <5>1. n \in Nat
          BY <1>2
        <5> QED BY ONLY <5>1
      <4>2. \A i \in 2 .. Len(s) : s[i] = "repo"
        BY <2>1 DEF Sound, InnerIsRepo
      <4>3. ASSUME NEW i \in 2 .. Len(s) - 1 PROVE Front(s)[i] = "repo"
        BY <1>2, <4>1, <4>2
      <4> QED BY <1>2, <1>3, <4>3
    <3> QED BY <1>3, <2>1, <3>1 DEF Sound, InnerIsRepo
  <2> QED BY <2>1, <2>4, <2>5 DEF Sound
<1> QED BY <1>2, <1>5, <1>6, <1>7 DEF ChunkInv, Places

\* What no call in the repository does, or what keeps its place there.
LEMMA ElsewhereKeeps ==
    ASSUME ChunkInv, UNCHANGED <<cwd, previous, overtaken>>, NEW c \in Peer,
           NEW p \in Phases \ {"chdir"}, phase' = [phase EXCEPT ![c] = p], phase[c] # "chdir",
           p \in {"idle", "enter", "done"} => previous[c] = <<>>,
           p = "leave" => previous[c] # <<>>
    PROVE  ChunkInv'
<1>1. ChunkTypeOK' /\ PhaseFits'
  BY DEF ChunkInv, ChunkTypeOK, PhaseFits
<1>2. \A d \in Peer : InRepo(d)' <=> InRepo(d)
  BY DEF ChunkInv, ChunkTypeOK, InRepo
<1>3. Sound => Sound'
  BY <1>2 DEF Sound, InnerIsRepo, Holds
<1> QED BY <1>1, <1>3 DEF ChunkInv

\* Every step keeps the invariant.
LEMMA ChunkKeeps == ChunkInv /\ [ChunkNext]_chunkVars => ChunkInv'
<1> SUFFICES ASSUME ChunkInv, [ChunkNext]_chunkVars PROVE ChunkInv'
  OBVIOUS
<1>1. ASSUME UNCHANGED <<cwd, previous, overtaken, phase>> PROVE ChunkInv'
  BY <1>1 DEF ChunkInv, ChunkTypeOK, PhaseFits, Sound, InnerIsRepo, Holds, InRepo
<1>2. ASSUME NEW c \in Peer,
             \/ InitImage(c) \/ CloseImage(c) \/ RenderMessage(c) \/ Work(c) \/ FeaturesFail(c)
             \/ PrepareAnswered(c) \/ RenderAnswered(c) \/ HandlerEnds(c)
      PROVE  ChunkInv'
  <2>1. ChunkTypeOK /\ PhaseFits
    BY DEF ChunkInv
  <2>2. UNCHANGED <<cwd, previous, overtaken>>
    BY <1>2 DEF InitImage, CloseImage, RenderMessage, Work, FeaturesFail, PrepareAnswered,
           RenderAnswered, HandlerEnds, directoryVars
  <2>3. \/ phase' = phase
        \/ phase[c] \in {"idle", "enter", "done"}
           /\ \E p \in {"idle", "enter", "work", "done"} : phase' = [phase EXCEPT ![c] = p]
        \/ /\ phase[c] = "work"
           /\ phase' = [phase EXCEPT ![c] = IF previous[c] = <<>> THEN "done" ELSE "leave"]
    BY <1>2 DEF InitImage, CloseImage, RenderMessage, Work, FeaturesFail, PrepareAnswered,
           RenderAnswered, HandlerEnds, Await, Answer
  <2>4. CASE phase' = phase
    BY <1>1, <2>2, <2>4
  <2>5. ASSUME phase[c] \in {"idle", "enter", "done"}, NEW p \in {"idle", "enter", "work", "done"},
               phase' = [phase EXCEPT ![c] = p]
        PROVE  ChunkInv'
    BY <2>1, <2>2, <2>5, ElsewhereKeeps DEF PhaseFits, Phases
  <2>6. CASE phase[c] = "work"
             /\ phase' = [phase EXCEPT ![c] = IF previous[c] = <<>> THEN "done" ELSE "leave"]
    BY <2>2, <2>6, ElsewhereKeeps DEF Phases
  <2> QED BY <2>3, <2>4, <2>5, <2>6
<1>3. CASE UNCHANGED chunkVars
  BY <1>1, <1>3 DEF chunkVars
<1> QED BY <1>2, <1>3, DirectoryReadKeeps, EnterKeeps, LeaveKeeps DEF ChunkNext

\* The process is in the repository exactly while a call is, whatever calls overlap, nest
\* or fail, unless the one that came from the launch directory left before another.
THEOREM RepoIsGivenBack == ChunkSpec => []RepoWhileNeeded
<1>1. ChunkInit => ChunkInv
  BY DEF ChunkInit, ChunkInv, ChunkTypeOK, PhaseFits, Sound, InnerIsRepo, InRepo, Phases, Places
<1>2. ChunkInv => RepoWhileNeeded
  BY DEF ChunkInv, RepoWhileNeeded, Sound, Holds
<1> QED BY <1>1, <1>2, ChunkKeeps, PTL DEF ChunkSpec

--------------------------------------------------------------------------------
(* What an install leaves.                                                 *)

Extent == {"absent", "given", "unusable", "partial", "whole"}

Steps == {"idle", "checkout", "patch", "imports", "venv", "python", "pip", "packages", "weights",
          "speech", "record"}

InstallTypeOK ==
    /\ manifest \in FollowedRuntimes
    /\ doing \in Steps
    /\ pieces \in [Piece -> Extent]

\* A piece is there, or a command has left it unfinished.
Usable(p) == pieces[p] \in {"whole", "given"} \/ p \in broken

\* The steps before the one the install is at, on the way of its manifest.
Passed(p) ==
    \/ p = "checkout" /\ doing \notin {"idle", "checkout"}
    \/ p = "patch" /\ doing \notin {"idle", "checkout", "patch"}
    \/ p = "python" /\ doing \in {"packages", "weights", "speech", "record"}
    \/ p = "packages" /\ doing \in {"weights", "speech", "record"}
    \/ p = "weights" /\ doing \in {"speech", "record"}
    \/ p = "speech" /\ doing = "record"

\* What is due is usable, where the manifest needs it.
Due(p) == pieces["record"] = "whole" \/ Passed(p)

DueUsable ==
    /\ \A p \in {"checkout", "python", "packages"} : Due(p) => Usable(p)
    /\ Wants("weights") => \A p \in {"weights", "speech"} : Due(p) => Usable(p)
    /\ Manifests[manifest].patched /\ HasGit("checkout") /\ Due("patch") => Usable("patch")

\* What is unfinished is known as such, and a checkout that is not there is none.
BrokenIsKnown ==
    /\ \A p \in Piece : pieces[p] = "partial" => p \in broken
    /\ pieces["checkout"] = "absent" => "checkout" \notin broken
    /\ pieces["speech"] # "unusable"

VenvRemade ==
    /\ doing \in {"packages", "weights", "speech", "record"} => pieces["python"] = "whole"
    /\ doing \in {"weights", "speech", "record"} => pieces["packages"] = "whole"
    /\ ending = "done" =>
          doing = "idle" /\ pieces["python"] = "whole" /\ pieces["packages"] = "whole"

InstallInv == InstallTypeOK /\ DueUsable /\ BrokenIsKnown /\ VenvRemade

\* What a manifest fetches: weights and the speech model, or nothing.
LEMMA OnManifest ==
    ASSUME InstallTypeOK
    PROVE  /\ Manifests[manifest].fetched \in {{}, {"weights", "speech"}}
           /\ Manifests[manifest].patched \in BOOLEAN
<1>1. manifest \in {"flashtalk_ascend", "flashtalk_cuda", "musetalk", "longcat"}
  BY InstallAssumption DEF InstallTypeOK, Manifests
<1>2. /\ Manifests["flashtalk_ascend"] = FlashTalkAscend
      /\ Manifests["flashtalk_cuda"] = FlashTalkCuda
      /\ Manifests["musetalk"] = MuseTalkAny /\ Manifests["longcat"] = LongCatAny
  BY DEF Manifests
<1>3. /\ FlashTalkAscend.patched = TRUE /\ FlashTalkAscend.fetched = {"weights", "speech"}
      /\ FlashTalkCuda.patched = FALSE /\ FlashTalkCuda.fetched = {"weights", "speech"}
      /\ MuseTalkAny.patched = FALSE /\ MuseTalkAny.fetched = {}
      /\ LongCatAny.patched = FALSE /\ LongCatAny.fetched = {}
  BY DEF Manifest, FlashTalkAscend, FlashTalkCuda, MuseTalkAny, LongCatAny
<1>4. /\ manifest \in {"flashtalk_ascend", "flashtalk_cuda"} =>
            Manifests[manifest].fetched = {"weights", "speech"}
      /\ manifest \in {"musetalk", "longcat"} => Manifests[manifest].fetched = {}
      /\ manifest = "flashtalk_ascend" => Manifests[manifest].patched = TRUE
      /\ manifest # "flashtalk_ascend" => Manifests[manifest].patched = FALSE
  BY <1>1, <1>2, <1>3
<1> QED BY <1>1, <1>4

\* What is needed is a piece the install makes.
LEMMA OnNeeded ==
    ASSUME InstallTypeOK
    PROVE  /\ Needed \subseteq {"checkout", "patch", "python", "packages", "weights", "speech"}
           /\ "weights" \in Needed <=> Wants("weights")
           /\ "speech" \in Needed <=> Wants("weights")
           /\ "patch" \in Needed <=> Manifests[manifest].patched /\ HasGit("checkout")
BY OnManifest DEF Needed, Wants


\* _clone_or_update
LEMMA GitKeeps ==
    ASSUME InstallInv, NEW p \in {"checkout", "weights"},
           Clone(p) \/ Update(p) \/ KeepAsIs(p) \/ Unusable(p)
    PROVE  InstallInv'
<1>0. /\ InstallTypeOK /\ DueUsable /\ BrokenIsKnown /\ VenvRemade /\ manifest' = manifest
      /\ doing = p /\ AfterGit(p) \in {"speech", "patch", "venv"}
      /\ p = "weights" <=> AfterGit(p) = "speech"
      /\ AfterGit(p) = "venv" => Manifests[manifest].patched = FALSE
      /\ p \in Piece /\ Manifests[manifest].patched \in BOOLEAN
  BY OnManifest
  DEF InstallInv, Clone, Update, KeepAsIs, Unusable, AfterGit, Piece
<1>1. \/ doing' = AfterGit(p) /\ ending' = ending
      \/ doing' = "idle" /\ ending' = "failed"
  BY DEF Clone, Update, KeepAsIs, Unusable, Makes, Breaks, Skips, Goes
<1>2. /\ \E e \in Extent : pieces' = [pieces EXCEPT ![p] = e]
      /\ broken' \in {broken, broken \cup {p}}
      /\ pieces'[p] = "partial" => p \in broken'
      /\ pieces[p] \in {"given", "unusable"} => pieces'[p] = pieces[p] /\ broken' = broken
      /\ pieces[p] \in {"whole", "partial"} => pieces'[p] \in {"whole", "partial"}
      /\ pieces'[p] = "absent" => pieces[p] = "absent" /\ broken' = broken
      /\ pieces'[p] = "unusable" => doing' = "idle"
      /\ pieces'[p] = "absent" => doing' = "idle"
  BY <1>0
  DEF InstallTypeOK, BrokenIsKnown, Clone, Update, KeepAsIs, Unusable, Makes, Breaks, Skips, Goes,
      HasGit, Extent
<1>3. InstallTypeOK'
  BY <1>0, <1>1, <1>2 DEF InstallTypeOK, Steps
<1>4. BrokenIsKnown'
  BY <1>0, <1>2 DEF InstallTypeOK, BrokenIsKnown, Piece, Extent
<1>5. VenvRemade'
  BY <1>0, <1>1, <1>2 DEF InstallTypeOK, VenvRemade, Piece
<1>6. DueUsable'
  BY <1>0, <1>1, <1>2
  DEF InstallTypeOK, BrokenIsKnown, DueUsable, Due, Usable, Passed, HasGit, Wants, Piece, Extent
<1> QED BY <1>3, <1>4, <1>5, <1>6 DEF InstallInv

\* The Ascend patches.
LEMMA PatchKeeps ==
    ASSUME InstallInv, ApplyPatch \/ PatchImports
    PROVE  InstallInv'
<1>0. InstallTypeOK /\ DueUsable /\ BrokenIsKnown /\ VenvRemade /\ manifest' = manifest
  BY DEF InstallInv, ApplyPatch, PatchImports
<1>1. CASE ApplyPatch
  <2>1. InstallTypeOK' /\ BrokenIsKnown'
    BY <1>0, <1>1
    DEF ApplyPatch, InstallTypeOK, BrokenIsKnown, HasGit, Piece, Extent, Steps, Makes, Skips, Breaks, Goes
  <2>2. VenvRemade'
    BY <1>0, <1>1
    DEF ApplyPatch, InstallTypeOK, VenvRemade, Piece, Makes, Skips, Breaks, Goes
  <2>3. DueUsable'
    BY <1>0, <1>1
    DEF ApplyPatch, InstallTypeOK, DueUsable, BrokenIsKnown, VenvRemade, Due, Usable, Passed, HasGit, Wants,
        Piece, Extent, Makes, Skips, Breaks, Goes
  <2> QED BY <2>1, <2>2, <2>3 DEF InstallInv
<1>2. CASE PatchImports
  <2>1. InstallTypeOK' /\ BrokenIsKnown'
    BY <1>0, <1>2
    DEF PatchImports, InstallTypeOK, BrokenIsKnown, HasGit, Piece, Extent, Steps, Makes, Skips, Breaks, Goes
  <2>2. VenvRemade'
    BY <1>0, <1>2
    DEF PatchImports, InstallTypeOK, VenvRemade, Piece, Makes, Skips, Breaks, Goes
  <2>3. DueUsable'
    BY <1>0, <1>2
    DEF PatchImports, InstallTypeOK, DueUsable, BrokenIsKnown, VenvRemade, Due, Usable, Passed, HasGit, Wants,
        Piece, Extent, Makes, Skips, Breaks, Goes
  <2> QED BY <2>1, <2>2, <2>3 DEF InstallInv
<1> QED BY <1>1, <1>2

\* The virtualenv and its packages.
LEMMA VenvKeeps ==
    ASSUME InstallInv, RemoveVenv \/ KeepVenv \/ CreateVenv \/ BootstrapPip \/ InstallPackages
    PROVE  InstallInv'
<1>0. InstallTypeOK /\ DueUsable /\ BrokenIsKnown /\ VenvRemade /\ manifest' = manifest
  BY DEF InstallInv, RemoveVenv, KeepVenv, CreateVenv, BootstrapPip, InstallPackages
<1>1. CASE RemoveVenv
  <2>1. InstallTypeOK' /\ BrokenIsKnown'
    BY <1>0, <1>1
    DEF RemoveVenv, InstallTypeOK, BrokenIsKnown, HasGit, Piece, Extent, Steps, Makes, Skips, Breaks, Goes
  <2>2. VenvRemade'
    BY <1>0, <1>1
    DEF RemoveVenv, InstallTypeOK, VenvRemade, Piece, Makes, Skips, Breaks, Goes
  <2>3. DueUsable'
    BY <1>0, <1>1
    DEF RemoveVenv, InstallTypeOK, DueUsable, BrokenIsKnown, VenvRemade, Due, Usable, Passed, HasGit, Wants,
        Piece, Extent, Makes, Skips, Breaks, Goes
  <2> QED BY <2>1, <2>2, <2>3 DEF InstallInv
<1>2. CASE KeepVenv
  <2>1. InstallTypeOK' /\ BrokenIsKnown'
    BY <1>0, <1>2
    DEF KeepVenv, InstallTypeOK, BrokenIsKnown, HasGit, Piece, Extent, Steps, Makes, Skips, Breaks, Goes
  <2>2. VenvRemade'
    BY <1>0, <1>2
    DEF KeepVenv, InstallTypeOK, VenvRemade, Piece, Makes, Skips, Breaks, Goes
  <2>3. DueUsable'
    BY <1>0, <1>2
    DEF KeepVenv, InstallTypeOK, DueUsable, BrokenIsKnown, VenvRemade, Due, Usable, Passed, HasGit, Wants,
        Piece, Extent, Makes, Skips, Breaks, Goes
  <2> QED BY <2>1, <2>2, <2>3 DEF InstallInv
<1>3. CASE CreateVenv
  <2>1. InstallTypeOK' /\ BrokenIsKnown'
    BY <1>0, <1>3
    DEF CreateVenv, InstallTypeOK, BrokenIsKnown, HasGit, Piece, Extent, Steps, Makes, Skips, Breaks, Goes
  <2>2. VenvRemade'
    BY <1>0, <1>3
    DEF CreateVenv, InstallTypeOK, VenvRemade, Piece, Makes, Skips, Breaks, Goes
  <2>3. DueUsable'
    BY <1>0, <1>3
    DEF CreateVenv, InstallTypeOK, DueUsable, BrokenIsKnown, VenvRemade, Due, Usable, Passed, HasGit, Wants,
        Piece, Extent, Makes, Skips, Breaks, Goes
  <2> QED BY <2>1, <2>2, <2>3 DEF InstallInv
<1>4. CASE BootstrapPip
  <2>1. InstallTypeOK' /\ BrokenIsKnown'
    BY <1>0, <1>4
    DEF BootstrapPip, InstallTypeOK, BrokenIsKnown, HasGit, Piece, Extent, Steps, Makes, Skips, Breaks, Goes
  <2>2. VenvRemade'
    BY <1>0, <1>4
    DEF BootstrapPip, InstallTypeOK, VenvRemade, Piece, Makes, Skips, Breaks, Goes
  <2>3. DueUsable'
    BY <1>0, <1>4
    DEF BootstrapPip, InstallTypeOK, DueUsable, BrokenIsKnown, VenvRemade, Due, Usable, Passed, HasGit, Wants,
        Piece, Extent, Makes, Skips, Breaks, Goes
  <2> QED BY <2>1, <2>2, <2>3 DEF InstallInv
<1>5. CASE InstallPackages
  <2>1. InstallTypeOK' /\ BrokenIsKnown'
    BY <1>0, <1>5
    DEF InstallPackages, InstallTypeOK, BrokenIsKnown, HasGit, Piece, Extent, Steps, Makes, Skips, Breaks, Goes
  <2>2. VenvRemade'
    BY <1>0, <1>5
    DEF InstallPackages, InstallTypeOK, VenvRemade, Piece, Makes, Skips, Breaks, Goes
  <2>3. DueUsable'
    BY <1>0, <1>5, OnManifest
    DEF InstallPackages, InstallTypeOK, DueUsable, BrokenIsKnown, VenvRemade, Due, Usable, Passed, HasGit, Wants,
        Piece, Extent, Makes, Skips, Breaks, Goes
  <2> QED BY <2>1, <2>2, <2>3 DEF InstallInv
<1> QED BY <1>1, <1>2, <1>3, <1>4, <1>5

\* The speech model and the state file.
LEMMA RecordKeeps ==
    ASSUME InstallInv, Download \/ WriteState
    PROVE  InstallInv'
<1>0. InstallTypeOK /\ DueUsable /\ BrokenIsKnown /\ VenvRemade /\ manifest' = manifest
  BY DEF InstallInv, Download, WriteState
<1>1. CASE Download
  <2>1. InstallTypeOK' /\ BrokenIsKnown'
    BY <1>0, <1>1
    DEF Download, InstallTypeOK, BrokenIsKnown, HasGit, Piece, Extent, Steps, Makes, Skips, Breaks, Goes
  <2>2. VenvRemade'
    BY <1>0, <1>1
    DEF Download, InstallTypeOK, VenvRemade, Piece, Makes, Skips, Breaks, Goes
  <2>3. DueUsable'
    BY <1>0, <1>1
    DEF Download, InstallTypeOK, DueUsable, BrokenIsKnown, VenvRemade, Due, Usable, Passed, HasGit, Wants,
        Piece, Extent, Makes, Skips, Breaks, Goes
  <2> QED BY <2>1, <2>2, <2>3 DEF InstallInv
<1>2. CASE WriteState
  <2>1. InstallTypeOK' /\ BrokenIsKnown'
    BY <1>0, <1>2
    DEF WriteState, InstallTypeOK, BrokenIsKnown, HasGit, Piece, Extent, Steps, Makes, Skips, Breaks, Goes
  <2>2. VenvRemade'
    BY <1>0, <1>2
    DEF WriteState, InstallTypeOK, VenvRemade, Piece, Makes, Skips, Breaks, Goes
  <2>3. DueUsable'
    BY <1>0, <1>2
    DEF WriteState, InstallTypeOK, DueUsable, BrokenIsKnown, VenvRemade, Due, Usable, Passed, HasGit, Wants,
        Piece, Extent, Makes, Skips, Breaks, Goes
  <2> QED BY <2>1, <2>2, <2>3 DEF InstallInv
<1> QED BY <1>1, <1>2

\* An install begins or is given up.
LEMMA BeginKeeps ==
    ASSUME InstallInv, Abort \/ \E update, recreate \in BOOLEAN : BeginInstall(update, recreate)
    PROVE  InstallInv'
BY DEF InstallInv, Abort, BeginInstall, InstallTypeOK, DueUsable, BrokenIsKnown, VenvRemade, Due,
       Usable, Passed, HasGit, Wants, Steps, Goes

\* What a state file names is there, except what a command has left unfinished, and an
\* install that ends well has remade the virtualenv and its packages, for any number of
\* installs with any wishes, failures and time-outs.
THEOREM InstallsRecordWhatIsThere == InstallSpec => []InstallRecorded
<1>1. InstallInit => InstallInv
  <2> SUFFICES ASSUME InstallInit PROVE InstallInv
    OBVIOUS
  <2>1. PICK checkout, weights \in {"absent", "given", "unusable"}, speech \in {"absent", "given"} :
           pieces = [p \in Piece |->
                CASE p = "checkout" -> checkout [] p = "weights" -> weights
                  [] p = "speech" -> speech [] OTHER -> "absent"]
    BY DEF InstallInit
  <2>2. /\ pieces \in [Piece -> {"absent", "given", "unusable"}] /\ pieces["record"] = "absent"
        /\ pieces["speech"] # "unusable"
    BY <2>1 DEF Piece
  <2>3. doing = "idle" /\ ending = "none" /\ broken = {} /\ manifest \in FollowedRuntimes
    BY DEF InstallInit
  <2> QED
    BY <2>2, <2>3
    DEF InstallInv, InstallTypeOK, DueUsable, BrokenIsKnown, VenvRemade, Due, Passed, Piece, Extent,
        Steps
<1>2. InstallInv /\ [InstallNext]_installVars => InstallInv'
  <2> SUFFICES ASSUME InstallInv, [InstallNext]_installVars PROVE InstallInv'
    OBVIOUS
  <2>1. CASE UNCHANGED installVars
    BY <2>1
    DEF installVars, InstallInv, InstallTypeOK, DueUsable, BrokenIsKnown, VenvRemade, Due, Usable,
        Passed, HasGit, Wants
  <2> QED BY <2>1, GitKeeps, PatchKeeps, VenvKeeps, RecordKeeps, BeginKeeps DEF InstallNext
<1>3. InstallInv => InstallRecorded
  <2> SUFFICES ASSUME InstallInv PROVE InstallRecorded
    OBVIOUS
  <2>1. InstallTypeOK /\ DueUsable /\ VenvRemade
    BY DEF InstallInv
  <2>2. ASSUME pieces["record"] = "whole", NEW p \in Needed
        PROVE  pieces[p] \in {"whole", "given"} \/ p \in broken
    BY <2>1, <2>2, OnNeeded DEF DueUsable, Due, Usable
  <2> QED BY <2>1, <2>2 DEF VenvRemade, InstallRecorded
<1> QED BY <1>1, <1>2, <1>3, PTL DEF InstallSpec

--------------------------------------------------------------------------------
(* The record in the process and in Redis.                                 *)

Event == {"job_enqueued", "job_started", "stage_end", "job_finished"}
Record == [state : {"queued", "running", "succeeded"}, events : Seq(Event)]

RedisTypeOK ==
    /\ local \in Record /\ remote \in Record /\ copy \in Record
    /\ done \in 1 .. 7 /\ inside \in {"begin", "got", "persist", "publish"}
    /\ inside # "begin" => done <= 6
    /\ inside = "publish" => done \in {1, 3, 4, 6}
    /\ fetched \in [Reader -> SUBSET Record] /\ sees \in [Reader -> Record]
    /\ channels \in [Subscriber -> Seq(Event)] /\ sent \in Seq(Event)

\* The state a job has when the executor comes to a call.
StateAt(n) == IF n <= 2 THEN "queued" ELSE IF n <= 5 THEN "running" ELSE "succeeded"

\* The two records and the events sent, in step with the executor's call.
InStep ==
    /\ remote.state = IF inside = "publish" THEN StateAt(done + 1) ELSE StateAt(done)
    /\ inside \in {"begin", "got"} => local = remote
    /\ inside = "got" => copy = remote
    /\ inside # "publish" => remote.events = sent
    /\ inside = "persist" =>
          /\ local = copy /\ copy.state = StateAt(done + 1)
          /\ copy.events = IF InCall("append") THEN Append(sent, Calls[done].event) ELSE sent
    /\ inside = "publish" =>
          InCall("append") /\ local = remote /\ remote.events = Append(sent, Calls[done].event)

SeesEarlier ==
    \A r \in Reader : /\ IsPrefix(sees[r].events, remote.events)
                      /\ Stage(sees[r].state) <= Stage(remote.state)

ChannelsFollow == \A s \in subscribed : IsSuffix(channels[s], sent)

RedisInv ==
    /\ RedisTypeOK /\ subscribed \subseteq Subscriber /\ ChannelsFollow
    /\ \A s \in Subscriber \ subscribed : channels[s] = <<>>
    /\ ~ raced => InStep /\ SeesEarlier

\* The executor's calls, one by one.
LEMMA OnCalls ==
    /\ Len(Calls) = 6
    /\ \A n \in {1, 3, 4, 6} : /\ Calls[n].call = "append" /\ Calls[n].event \in Event
                               /\ StateAt(n + 1) = StateAt(n)
    /\ \A n \in {2, 5} : Calls[n].call = "save" /\ Calls[n].state = StateAt(n + 1)
<1>1. Len(Calls) = 6
  BY DEF Calls
<1>2. /\ Calls[1] = [call |-> "append", event |-> "job_enqueued"]
      /\ Calls[2] = [call |-> "save", state |-> "running"]
      /\ Calls[3] = [call |-> "append", event |-> "job_started"]
      /\ Calls[4] = [call |-> "append", event |-> "stage_end"]
      /\ Calls[5] = [call |-> "save", state |-> "succeeded"]
      /\ Calls[6] = [call |-> "append", event |-> "job_finished"]
  BY DEF Calls
<1> QED BY <1>1, <1>2 DEF StateAt, Event

\* A call is one or the other.
LEMMA OnCall ==
    ASSUME RedisTypeOK
    PROVE  /\ InCall("save") => done \in {2, 5} /\ ~ InCall("append")
           /\ InCall("append") => done \in {1, 3, 4, 6}
           /\ done <= 6 => InCall("save") \/ InCall("append")
<1>1. done \in {1, 2, 3, 4, 5, 6, 7}
  BY DEF RedisTypeOK
<1> QED BY <1>1, OnCalls DEF InCall

\* A prefix stays one when the longer sequence grows.
LEMMA PrefixGrows ==
    ASSUME NEW D, NEW s \in Seq(D), NEW t \in Seq(D), NEW x \in D
    PROVE  /\ IsPrefix(s, s)
           /\ IsPrefix(s, t) => IsPrefix(s, Append(t, x))
<1> DEFINE u == Append(t, x)
<1>1. /\ Len(s) \in Nat /\ Len(t) \in Nat
      /\ u \in Seq(D) /\ Len(u) = Len(t) + 1 /\ \A i \in 1 .. Len(t) : u[i] = t[i]
  OBVIOUS
<1> HIDE DEF u
<1>2. IsPrefix(s, s)
  BY <1>1, OnPrefix
<1>3. ASSUME IsPrefix(s, t) PROVE IsPrefix(s, u)
  <2>1. Len(s) <= Len(t) /\ \A i \in 1 .. Len(s) : s[i] = t[i]
    BY <1>3, OnPrefix
  <2>2. Len(s) <= Len(u) /\ \A i \in 1 .. Len(s) : s[i] = u[i]
    BY <1>1, <2>1
  <2> QED BY <1>1, <2>2, OnPrefix
<1> QED BY <1>2, <1>3 DEF u

\* save and append_event, in the process: the local record and the copy change.
LEMMA ExecutorKeeps ==
    ASSUME RedisInv, GetOwn \/ SaveState \/ AppendEvent
    PROVE  RedisInv'
<1>0. /\ RedisTypeOK /\ UNCHANGED <<remote, done, readerVars, channelVars>>
      /\ done <= 6 => InCall("save") \/ InCall("append")
  BY OnCall DEF RedisInv, GetOwn, SaveState, AppendEvent, SaveLocal
<1>1. UNCHANGED <<fetched, raced, looks, sees, channels, subscribed, sent>>
  BY <1>0 DEF readerVars, channelVars
<1>2. /\ ChannelsFollow' /\ (subscribed \subseteq Subscriber)'
      /\ \A s \in Subscriber \ subscribed' : channels'[s] = <<>>
      /\ SeesEarlier => SeesEarlier'
  BY <1>0, <1>1 DEF RedisInv, ChannelsFollow, SeesEarlier
<1>3. CASE GetOwn
  <2>1. RedisTypeOK'
    BY <1>0, <1>1, <1>3, OnCall DEF GetOwn, RedisTypeOK
  <2>2. InStep => InStep'
    BY <1>0, <1>1, <1>3 DEF GetOwn, InStep, InCall
  <2> QED BY <1>1, <1>2, <2>1, <2>2 DEF RedisInv
<1>4. CASE SaveState
  <2>1. /\ done \in {2, 5} /\ InCall("save") /\ ~ InCall("append") /\ inside = "got"
        /\ inside' = "persist" /\ copy' = [copy EXCEPT !.state = Calls[done].state] /\ local' = copy'
    BY <1>0, <1>4, OnCall DEF SaveState, SaveLocal
  <2>2. Calls[done].state = StateAt(done + 1) /\ StateAt(done + 1) \in {"running", "succeeded"}
    BY <2>1, OnCalls DEF StateAt
  <2>3. copy' \in Record /\ copy'.state = StateAt(done + 1) /\ copy'.events = copy.events
    BY <1>0, <2>1, <2>2 DEF RedisTypeOK, Record
  <2>4. RedisTypeOK'
    BY <1>0, <1>1, <2>1, <2>3 DEF RedisTypeOK
  <2>5. InStep => InStep'
    BY <1>0, <1>1, <2>1, <2>3 DEF InStep, InCall
  <2> QED BY <1>1, <1>2, <2>4, <2>5 DEF RedisInv
<1>5. CASE AppendEvent
  <2>1. /\ done \in {1, 3, 4, 6} /\ InCall("append") /\ inside = "begin"
        /\ inside' = "persist" /\ local' = copy'
        /\ copy' = [local EXCEPT !.events = Append(local.events, Calls[done].event)]
    BY <1>0, <1>5, OnCall DEF AppendEvent, SaveLocal
  <2>2. Calls[done].event \in Event /\ StateAt(done + 1) = StateAt(done)
    BY <2>1, OnCalls
  <2>3. /\ copy' \in Record /\ copy'.state = local.state
        /\ copy'.events = Append(local.events, Calls[done].event)
    <3>1. local \in Record /\ local.events \in Seq(Event)
      BY <1>0 DEF RedisTypeOK, Record
    <3> DEFINE e == Append(local.events, Calls[done].event)
    <3>2. e \in Seq(Event)
      BY <2>2, <3>1
    <3> HIDE DEF e
    <3>3. copy' = [local EXCEPT !.events = e]
      BY <2>1 DEF e
    <3>4. copy' \in Record /\ copy'.state = local.state /\ copy'.events = e
      BY <3>1, <3>2, <3>3 DEF Record
    <3> QED BY <3>4 DEF e
  <2>4. RedisTypeOK'
    BY <1>0, <1>1, <2>1, <2>3 DEF RedisTypeOK
  <2>5. InStep => InStep'
    BY <1>0, <1>1, <2>1, <2>2, <2>3 DEF InStep, InCall
  <2> QED BY <1>1, <1>2, <2>4, <2>5 DEF RedisInv
<1> QED BY <1>3, <1>4, <1>5

\* _persist: the record in Redis goes on, never back.
LEMMA PersistKeeps ==
    ASSUME RedisInv, Persist
    PROVE  RedisInv'
<1>0. /\ RedisTypeOK /\ UNCHANGED <<local, copy, readerVars, channelVars>>
      /\ inside = "persist" /\ remote' = copy /\ done <= 6
  BY DEF RedisInv, Persist, RedisTypeOK
<1>1. UNCHANGED <<fetched, raced, looks, sees, channels, subscribed, sent>>
  BY <1>0 DEF readerVars, channelVars
<1>2. \/ done \in {2, 5} /\ ~ InCall("append") /\ done' = done + 1 /\ inside' = "begin"
      \/ done \in {1, 3, 4, 6} /\ InCall("append") /\ done' = done /\ inside' = "publish"
  BY <1>0, OnCall DEF Persist
<1>3. RedisTypeOK'
  BY <1>0, <1>1, <1>2 DEF RedisTypeOK
<1>4. ChannelsFollow'
  BY <1>1 DEF RedisInv, ChannelsFollow
<1>5. ASSUME InStep, SeesEarlier PROVE InStep' /\ SeesEarlier'
  <2>1. /\ remote.state = StateAt(done) /\ copy.state = StateAt(done + 1) /\ local = copy
        /\ remote.events = sent
        /\ copy.events = IF InCall("append") THEN Append(sent, Calls[done].event) ELSE sent
    BY <1>0, <1>5 DEF InStep
  <2>2. InStep'
    BY <1>0, <1>1, <1>2, <2>1 DEF InStep, InCall
  <2>3. Stage(StateAt(done)) <= Stage(StateAt(done + 1))
        /\ \A state : Stage(state) \in {0, 1, 2}
    BY <1>2 DEF StateAt, Stage
  <2>4. ASSUME NEW r \in Reader
        PROVE  IsPrefix(sees[r].events, copy.events) /\ Stage(sees[r].state) <= Stage(copy.state)
    <3>1. /\ sees[r].events \in Seq(Event) /\ sent \in Seq(Event)
          /\ IsPrefix(sees[r].events, sent) /\ Stage(sees[r].state) <= Stage(StateAt(done))
      BY <1>0, <1>5, <2>1 DEF RedisTypeOK, Record, SeesEarlier
    <3>2. InCall("append") => Calls[done].event \in Event
      BY <1>2, OnCalls
    <3>3. IsPrefix(sees[r].events, copy.events)
      BY <2>1, <3>1, <3>2, PrefixGrows
    <3>4. Stage(sees[r].state) <= Stage(copy.state)
      BY <2>1, <2>3, <3>1
    <3> QED BY <3>3, <3>4
  <2>5. SeesEarlier'
    BY <1>0, <1>1, <2>4 DEF SeesEarlier
  <2> QED BY <2>2, <2>5
<1> QED BY <1>1, <1>3, <1>4, <1>5 DEF RedisInv

\* publish: every channel gets the event that the record has.
LEMMA PublishKeeps ==
    ASSUME RedisInv, PublishEvent
    PROVE  RedisInv'
<1>0. /\ RedisTypeOK /\ UNCHANGED <<local, remote, copy, readerVars, subscribed>>
      /\ inside = "publish" /\ inside' = "begin" /\ done <= 6 /\ done' = done + 1
      /\ sent' = Append(sent, Calls[done].event)
      /\ channels' = [s \in Subscriber |-> IF s \in subscribed
                                         THEN Append(channels[s], Calls[done].event)
                                         ELSE channels[s]]
  BY DEF RedisInv, PublishEvent, RedisTypeOK
<1>1. UNCHANGED <<fetched, raced, looks, sees>>
  BY <1>0 DEF readerVars
<1>2. /\ done \in {1, 3, 4, 6} /\ Calls[done].event \in Event
      /\ StateAt(done + 1) = StateAt(done) /\ done + 1 \in 1 .. 7
  BY <1>0, OnCalls DEF RedisTypeOK
<1>3. sent' \in Seq(Event) /\ channels' \in [Subscriber -> Seq(Event)]
  <2>1. sent \in Seq(Event) /\ \A s \in Subscriber : channels[s] \in Seq(Event)
    BY <1>0 DEF RedisTypeOK
  <2>2. \A s \in Subscriber : Append(channels[s], Calls[done].event) \in Seq(Event)
    BY <1>2, <2>1
  <2> QED BY <1>0, <1>2, <2>1, <2>2
<1>4. RedisTypeOK'
  BY <1>0, <1>1, <1>2, <1>3 DEF RedisTypeOK
<1>5. ChannelsFollow'
  <2>1. ASSUME NEW s \in subscribed
        PROVE  IsSuffix(Append(channels[s], Calls[done].event), Append(sent, Calls[done].event))
    <3>1. channels[s] \in Seq(Event) /\ sent \in Seq(Event) /\ IsSuffix(channels[s], sent)
      BY <1>0 DEF RedisInv, RedisTypeOK, ChannelsFollow
    <3> QED BY <1>2, <3>1, SuffixGrows
  <2> QED BY <1>0, <2>1 DEF RedisInv, ChannelsFollow
<1>6. InStep => InStep'
  BY <1>0, <1>1, <1>2 DEF InStep
<1>7. SeesEarlier => SeesEarlier'
  BY <1>0, <1>1 DEF SeesEarlier
<1> QED BY <1>0, <1>1, <1>4, <1>5, <1>6, <1>7 DEF RedisInv

\* get: the reader sees the record in Redis; a local record that had changed is
\* remembered as raced.
LEMMA ReaderKeeps ==
    ASSUME RedisInv, NEW r \in Reader, Fetch(r) \/ Overwrite(r)
    PROVE  RedisInv'
<1>0. /\ RedisTypeOK /\ UNCHANGED <<remote, copy, done, inside, channels, subscribed, sent>>
  BY DEF RedisInv, Fetch, Overwrite, channelVars
<1>1. /\ ChannelsFollow' /\ (subscribed \subseteq Subscriber)'
      /\ \A s \in Subscriber \ subscribed' : channels'[s] = <<>>
  BY <1>0 DEF RedisInv, ChannelsFollow
<1>2. CASE Fetch(r)
  <2>1. RedisTypeOK'
    BY <1>0, <1>2 DEF Fetch, RedisTypeOK
  <2>2. InStep => InStep'
    BY <1>0, <1>2 DEF Fetch, InStep, InCall
  <2>3. SeesEarlier => SeesEarlier'
    <3>1. remote.events \in Seq(Event) /\ \A state : Stage(state) \in {0, 1, 2}
      BY <1>0 DEF RedisTypeOK, Record, Stage
    <3>2. IsPrefix(remote.events, remote.events) /\ Stage(remote.state) <= Stage(remote.state)
      <4>1. IsPrefix(remote.events, remote.events)
        BY <3>1, OnPrefix
      <4> QED BY <3>1, <4>1
    <3>3. \A x \in Reader : sees'[x] = IF x = r THEN remote ELSE sees[x]
      BY <1>0, <1>2 DEF Fetch, RedisTypeOK
    <3> QED BY <1>0, <3>2, <3>3 DEF SeesEarlier
  <2> QED BY <1>1, <1>2, <2>1, <2>2, <2>3 DEF RedisInv, Fetch
<1>3. CASE Overwrite(r)
  <2>1. RedisTypeOK'
    BY <1>0, <1>3 DEF Overwrite, RedisTypeOK
  <2>2. ~ raced' => ~ raced /\ local' = local
    BY <1>3 DEF Overwrite
  <2>3. (local' = local /\ InStep => InStep') /\ (SeesEarlier => SeesEarlier')
    BY <1>0, <1>3 DEF Overwrite, InStep, InCall, SeesEarlier
  <2> QED BY <1>1, <2>1, <2>2, <2>3 DEF RedisInv
<1> QED BY <1>2, <1>3

\* A channel begins with nothing and leaves nothing.
LEMMA ChannelKeeps ==
    ASSUME RedisInv, NEW s \in Subscriber, SubscribeChannel(s) \/ UnsubscribeChannel(s)
    PROVE  RedisInv'
<1>0. /\ RedisTypeOK /\ UNCHANGED <<local, remote, copy, done, inside, readerVars, sent>>
  BY DEF RedisInv, SubscribeChannel, UnsubscribeChannel
<1>1. UNCHANGED <<fetched, raced, looks, sees>>
  BY <1>0 DEF readerVars
<1>2. (InStep => InStep') /\ (SeesEarlier => SeesEarlier')
  BY <1>0, <1>1 DEF InStep, InCall, SeesEarlier
<1>3. RedisTypeOK' /\ (subscribed \subseteq Subscriber)'
  <2>1. subscribed' \subseteq Subscriber
    BY DEF RedisInv, SubscribeChannel, UnsubscribeChannel
  <2>2. channels' \in [Subscriber -> Seq(Event)]
    <3>1. channels \in [Subscriber -> Seq(Event)] /\ <<>> \in Seq(Event)
      BY <1>0 DEF RedisTypeOK
    <3>2. channels' = channels \/ channels' = [channels EXCEPT ![s] = <<>>]
      BY DEF SubscribeChannel, UnsubscribeChannel
    <3> QED BY <3>1, <3>2
  <2> QED BY <1>0, <1>1, <2>1, <2>2 DEF RedisTypeOK
<1>4. \A x \in Subscriber \ subscribed' : channels'[x] = <<>>
  BY <1>0 DEF RedisInv, RedisTypeOK, SubscribeChannel, UnsubscribeChannel
<1>5. ChannelsFollow'
  <2>1. IsSuffix(<<>>, sent)
    <3>1. <<>> \in Seq(Event) /\ sent \in Seq(Event) /\ Len(<<>>) = 0 /\ Len(sent) \in Nat
      BY <1>0 DEF RedisTypeOK
    <3>2. PICK e \in Seq(Event) : e = <<>>
      BY <3>1
    <3>3. Len(e) <= Len(sent) /\ \A i \in 1 .. Len(e) : e[Len(e) - i + 1] = sent[Len(sent) - i + 1]
      BY <3>1, <3>2
    <3>4. IsSuffix(e, sent)
      BY ONLY <3>1, <3>3, OnSuffix, e \in Seq(Event)
    <3> QED BY <3>2, <3>4
  <2>2. CASE SubscribeChannel(s)
    BY <1>0, <2>1, <2>2 DEF RedisInv, ChannelsFollow, SubscribeChannel
  <2>3. CASE UnsubscribeChannel(s)
    BY <1>0, <2>3 DEF RedisInv, RedisTypeOK, ChannelsFollow, UnsubscribeChannel
  <2> QED BY <2>2, <2>3
<1> QED BY <1>1, <1>2, <1>3, <1>4, <1>5 DEF RedisInv

\* Until a get overtakes a write of the executing process, the record that others see
\* never goes back, and an event is in it before any client is sent it; a channel misses
\* none from its subscription on.  For any readers and clients.
THEOREM RecordNeverGoesBack == RedisSpec => []RecordGrows
<1>1. RedisInit => RedisInv
  <2> SUFFICES ASSUME RedisInit PROVE RedisInv
    OBVIOUS
  <2>1. /\ NewJob \in Record /\ NewJob.events = <<>> /\ <<>> \in Seq(Event)
        /\ NewJob.state = "queued" /\ StateAt(1) = "queued"
    BY DEF NewJob, Record, StateAt
  <2>2. RedisTypeOK /\ subscribed = {} /\ \A s \in Subscriber : channels[s] = <<>>
    BY <2>1 DEF RedisInit, RedisTypeOK
  <2>3. InStep
    BY <2>1 DEF RedisInit, InStep
  <2>4. SeesEarlier
    <3>1. PICK e \in Seq(Event) : e = <<>>
      BY <2>1
    <3>2. IsPrefix(e, e)
      BY OnPrefix
    <3>3. Stage("queued") <= Stage("queued")
      BY DEF Stage
    <3> QED BY <2>1, <3>1, <3>2, <3>3 DEF RedisInit, SeesEarlier
  <2> QED BY <2>2, <2>3, <2>4 DEF RedisInv, ChannelsFollow
<1>2. RedisInv /\ [RedisNext]_redisVars => RedisInv'
  <2> SUFFICES ASSUME RedisInv, [RedisNext]_redisVars PROVE RedisInv'
    OBVIOUS
  <2>1. CASE UNCHANGED redisVars
    BY <2>1
    DEF redisVars, RedisInv, RedisTypeOK, ChannelsFollow, InStep, InCall, SeesEarlier
  <2> QED
    BY <2>1, ExecutorKeeps, PersistKeeps, PublishKeeps, ReaderKeeps, ChannelKeeps DEF RedisNext
<1>3. RedisInv => RecordGrows
  <2> SUFFICES ASSUME RedisInv, ~ raced PROVE RecordGrows
    BY DEF RecordGrows
  <2>1. RedisTypeOK /\ InStep /\ SeesEarlier /\ ChannelsFollow
    BY DEF RedisInv
  <2>2. IsPrefix(sent, remote.events)
    <3>1. sent \in Seq(Event) /\ (inside = "publish" => Calls[done].event \in Event)
      BY <2>1, OnCalls DEF RedisTypeOK
    <3>2. IsPrefix(sent, sent)
      BY <3>1, PrefixGrows
    <3>3. CASE inside # "publish"
      BY <2>1, <3>2, <3>3 DEF InStep
    <3>4. CASE inside = "publish"
      <4>1. IsPrefix(sent, Append(sent, Calls[done].event))
        BY <3>1, <3>2, <3>4, PrefixGrows
      <4> QED BY <2>1, <3>4, <4>1 DEF InStep
    <3> QED BY <3>3, <3>4
  <2> QED BY <2>1, <2>2 DEF SeesEarlier, ChannelsFollow, RecordGrows
<1> QED BY <1>1, <1>2, <1>3, PTL DEF RedisSpec

--------------------------------------------------------------------------------
(* The executor caches.                                                    *)

\* A touch moves an entry to the end.
LEMMA OnTouch ==
    ASSUME NEW D, NEW s \in Seq(D), NEW i \in 1 .. Len(s)
    PROVE  /\ Touch(s, i) \in Seq(D) /\ Len(Touch(s, i)) = Len(s)
           /\ \A j \in 1 .. Len(s) : Touch(s, i)[j] = IF j < i THEN s[j]
                                                     ELSE IF j < Len(s) THEN s[j + 1] ELSE s[i]
<1> DEFINE a == SubSeq(s, 1, i - 1)
           b == SubSeq(s, i + 1, Len(s))
           c == a \o b
           n == Len(s)
<1>0. n \in Nat /\ i \in Int /\ 1 <= i /\ i <= n /\ \A j \in 1 .. n : s[j] \in D
  OBVIOUS
<1>1. a \in Seq(D) /\ Len(a) = i - 1 /\ \A j \in 1 .. i - 1 : a[j] = s[j]
  <2>1. 1 \in Int /\ i - 1 \in Int /\ \A j \in 1 .. i - 1 : s[j] \in D
    BY <1>0
  <2>2. /\ SubSeq(s, 1, i - 1) \in Seq(D)
        /\ Len(SubSeq(s, 1, i - 1)) = IF 1 <= i - 1 THEN i - 1 - 1 + 1 ELSE 0
        /\ \A j \in 1 .. i - 1 - 1 + 1 : SubSeq(s, 1, i - 1)[j] = s[1 + j - 1]
    BY ONLY <2>1, SubSeqProperties
  <2>3. i - 1 - 1 + 1 = i - 1 /\ \A j \in 1 .. i - 1 : 1 + j - 1 = j
    BY <1>0
  <2> QED BY <1>0, <2>2, <2>3
<1>2. b \in Seq(D) /\ Len(b) = n - i /\ \A j \in 1 .. n - i : b[j] = s[i + j]
  <2>1. i + 1 \in Int /\ n \in Int /\ \A j \in i + 1 .. n : s[j] \in D
    BY <1>0
  <2>2. /\ SubSeq(s, i + 1, n) \in Seq(D)
        /\ Len(SubSeq(s, i + 1, n)) = IF i + 1 <= n THEN n - (i + 1) + 1 ELSE 0
        /\ \A j \in 1 .. n - (i + 1) + 1 : SubSeq(s, i + 1, n)[j] = s[i + 1 + j - 1]
    BY ONLY <2>1, SubSeqProperties
  <2>3. n - (i + 1) + 1 = n - i /\ \A j \in 1 .. n - i : i + 1 + j - 1 = i + j
    BY <1>0
  <2>4. Len(SubSeq(s, i + 1, n)) = n - i
    <3>1. i + 1 <= n \/ n - i = 0
      BY <1>0
    <3>2. ~ (i + 1 <= n) => n - i = 0
      BY <1>0
    <3> HIDE DEF n
    <3> QED BY ONLY <2>2, <2>3, <3>2
  <2> HIDE DEF n
  <2>5. b \in Seq(D) /\ \A j \in 1 .. n - i : SubSeq(s, i + 1, n)[j] = s[i + j]
    BY <2>2, <2>3 DEF n
  <2> QED BY <2>4, <2>5 DEF n
<1> HIDE DEF a, b, n
<1>3. /\ c \in Seq(D) /\ Len(c) = n - 1
      /\ \A j \in 1 .. n - 1 : c[j] = IF j < i THEN s[j] ELSE s[j + 1]
  <2>1. /\ c \in Seq(D) /\ Len(c) = Len(a) + Len(b)
        /\ \A j \in 1 .. Len(a) + Len(b) : c[j] = IF j <= Len(a) THEN a[j] ELSE b[j - Len(a)]
    BY ONLY <1>1, <1>2, ConcatProperties
  <2>2. Len(a) + Len(b) = n - 1
    BY <1>0, <1>1, <1>2
  <2>3. ASSUME NEW j \in 1 .. n - 1 PROVE c[j] = IF j < i THEN s[j] ELSE s[j + 1]
    <3>1. CASE j < i
      BY <1>0, <1>1, <2>1, <2>2, <3>1
    <3>2. CASE ~ (j < i)
      <4>1. j - (i - 1) \in 1 .. n - i /\ i + (j - (i - 1)) = j + 1 /\ ~ (j <= i - 1)
        BY <1>0, <3>2
      <4> QED BY <1>1, <1>2, <2>1, <2>2, <3>2, <4>1
    <3> QED BY <3>1, <3>2
  <2> QED BY <2>1, <2>2, <2>3
<1> HIDE DEF c
<1>4. Touch(s, i) = Append(c, s[i]) /\ s[i] \in D
  BY <1>0 DEF Touch, RemoveAt, a, b, c, n
<1>5. /\ Append(c, s[i]) \in Seq(D) /\ Len(Append(c, s[i])) = n /\ Append(c, s[i])[n] = s[i]
      /\ \A j \in 1 .. n - 1 : Append(c, s[i])[j] = c[j]
  BY <1>0, <1>3, <1>4
<1>6. ASSUME NEW j \in 1 .. n
      PROVE  Append(c, s[i])[j] = IF j < i THEN s[j] ELSE IF j < n THEN s[j + 1] ELSE s[i]
  BY <1>0, <1>3, <1>5
<1> QED BY <1>4, <1>5, <1>6 DEF n

\* An eviction takes the oldest entry of a sequence that is too long.
LEMMA OnEvict ==
    ASSUME NEW D, NEW s \in Seq(D)
    PROVE  /\ Len(s) <= CacheSize => Evict(s)[1] = s /\ Evict(s)[2] = {}
           /\ Len(s) > CacheSize =>
                /\ Evict(s)[1] = Tail(s) /\ Evict(s)[2] = {s[1]}
                /\ Tail(s) \in Seq(D) /\ Len(Tail(s)) = Len(s) - 1
                /\ \A j \in 1 .. Len(s) - 1 : Tail(s)[j] = s[j + 1]
<1>1. Len(s) \in Nat /\ CacheSize \in Nat \ {0}
  BY CacheAssumption
<1>2. CASE Len(s) <= CacheSize
  BY <1>1, <1>2 DEF Evict
<1>3. CASE Len(s) > CacheSize
  <2>1. s # <<>> /\ Head(s) = s[1] /\ Evict(s) = <<Tail(s), {Head(s)}>>
    BY <1>1, <1>3 DEF Evict
  <2>2. /\ Tail(s) \in Seq(D) /\ Len(Tail(s)) = Len(s) - 1
        /\ \A j \in 1 .. Len(s) - 1 : Tail(s)[j] = s[j + 1]
    BY <1>1, <2>1
  <2>3. Evict(s)[1] = Tail(s) /\ Evict(s)[2] = {s[1]}
    BY <2>1
  <2>4. ~ (Len(s) <= CacheSize)
    BY <1>1, <1>3
  <2> HIDE DEF Evict
  <2> QED BY <2>2, <2>3, <2>4
<1> QED BY <1>1, <1>2, <1>3

Key == Model \union {CHOOSE m \in Model : TRUE}
Executor == [key : Key, handle : Nat, holder : Thread \union {None}]
Worker == [key : Key, up : BOOLEAN]
Holding == {"insert", "release", "lock", "run"}
Place == {"idle", "unloaded", "lookup", "build"} \union Holding

CacheTypeOK ==
    /\ executors \in Seq(Executor) /\ workers \in Seq(Worker) /\ pool \in Seq(Nat \ {0})
    /\ cache \in Seq(Nat) /\ Len(cache) <= CacheSize
    /\ \A i \in 1 .. Len(cache) : cache[i] \in 1 .. Len(executors)
    /\ building \in Thread \union {None} /\ at \in [Thread -> Place] /\ wants \in [Thread -> Key]
    /\ entry \in [Thread -> Nat] /\ evicted \in [Thread -> Nat]
    /\ looked \in [Thread -> SUBSET Key] /\ \A t \in Thread : IsFiniteSet(looked[t])

\* What a thread holds at each place; only the one that holds the cache lock
\* builds or inserts, and nobody else can have put its key in.
InTurn ==
    \A t \in Thread :
       /\ at[t] \in {"build", "insert"} <=> building = t
       /\ at[t] \in Holding => entry[t] \in 1 .. Len(executors) /\ executors[entry[t]].key = wants[t]
       /\ at[t] \notin Holding => entry[t] = 0
       /\ building = t => \A i \in 1 .. Len(cache) : executors[cache[i]].key # wants[t]
       /\ at[t] = "release" => evicted[t] \in 1 .. Len(executors)
       /\ at[t] # "release" => evicted[t] = 0

\* No key is in the cache twice.
OneEach ==
    \A i \in 1 .. Len(cache), j \in 1 .. Len(cache) :
       executors[cache[i]].key = executors[cache[j]].key => i = j

\* An executor in the cache, or about to be, is loaded and nobody is to release it.
Cached(e) ==
    \/ \E i \in 1 .. Len(cache) : cache[i] = e
    \/ \E t \in Thread : at[t] = "insert" /\ entry[t] = e

StillLoaded ==
    \A e \in 1 .. Len(executors) :
       Cached(e) => executors[e].handle # 0 /\ \A t \in Thread : evicted[t] # e

\* While a request waits, its entry is in the cache with only keys behind it that
\* were looked up since, or there were as many of these as the cache has room for.
Recent(t) ==
    \E i \in 1 .. Len(cache) :
       /\ cache[i] = entry[t]
       /\ \A j \in 1 .. Len(cache) : j > i => executors[cache[j]].key \in looked[t]

Crowded(t) == Cardinality(looked[t]) >= CacheSize

LostInTurn ==
    \A t \in Thread :
       /\ at[t] \in {"release", "lock", "run"} => Recent(t) \/ Crowded(t)
       /\ at[t] = "unloaded" => Crowded(t)

CacheInv == CacheTypeOK /\ InTurn /\ OneEach /\ StillLoaded /\ LostInTurn

\* One executor is changed, its key kept.
LEMMA OnExecutor ==
    ASSUME CacheTypeOK, NEW e \in 1 .. Len(executors), NEW r \in Executor,
           r.key = executors[e].key, executors' = [executors EXCEPT ![e] = r]
    PROVE  /\ executors' \in Seq(Executor) /\ Len(executors') = Len(executors)
           /\ \A x \in 1 .. Len(executors) : /\ executors'[x] = IF x = e THEN r ELSE executors[x]
                                             /\ executors'[x].key = executors[x].key
<1>1. executors \in Seq(Executor)
  BY DEF CacheTypeOK
<1> QED BY <1>1, ExceptSeq

\* A step that leaves the cache and the keys of the executors alone keeps the
\* order of the cache and what each waiting request knows.
LEMMA SameCache ==
    ASSUME CacheInv, UNCHANGED cache, Len(executors) <= Len(executors'), executors' \in Seq(Executor),
           \A e \in 1 .. Len(executors) : executors'[e].key = executors[e].key
    PROVE  /\ OneEach'
           /\ \A i \in 1 .. Len(cache) : cache[i] \in 1 .. Len(executors')
           /\ \A i \in 1 .. Len(cache) : executors'[cache[i]].key = executors[cache[i]].key
           /\ \A u \in Thread : /\ entry'[u] = entry[u] /\ looked'[u] = looked[u] /\ Recent(u) => Recent(u)'
                                /\ looked'[u] = looked[u] /\ Crowded(u) => Crowded(u)'
<1>1. /\ cache \in Seq(Nat) /\ Len(executors) \in Nat /\ Len(executors') \in Nat
      /\ \A i \in 1 .. Len(cache) : cache[i] \in 1 .. Len(executors)
  BY DEF CacheInv, CacheTypeOK
<1>2. \A i \in 1 .. Len(cache) : executors'[cache[i]].key = executors[cache[i]].key
  BY <1>1
<1>3. OneEach'
  BY <1>2 DEF CacheInv, OneEach
<1>4. ASSUME NEW u \in Thread, entry'[u] = entry[u], looked'[u] = looked[u], Recent(u)
      PROVE  Recent(u)'
  BY <1>2, <1>4 DEF Recent
<1>5. ASSUME NEW u \in Thread, looked'[u] = looked[u], Crowded(u) PROVE Crowded(u)'
  BY <1>5 DEF Crowded
<1> QED BY <1>1, <1>2, <1>3, <1>4, <1>5, SMTT(30)

\* A request begins.
LEMMA RequestKeeps ==
    ASSUME CacheInv, NEW t \in Thread, NEW m \in Model, Begin(t, m)
    PROVE  CacheInv'
<1>1. /\ CacheTypeOK /\ InTurn /\ OneEach /\ StillLoaded /\ LostInTurn
      /\ at[t] \in {"idle", "unloaded"}
      /\ wants' = [wants EXCEPT ![t] = m] /\ at' = [at EXCEPT ![t] = "lookup"]
      /\ looked' = [looked EXCEPT ![t] = {}]
      /\ UNCHANGED <<cache, executors, pool, workers, building, entry, evicted>>
  BY DEF CacheInv, Begin, Settled
<1>2. CacheTypeOK'
  BY <1>1, FS_EmptySet DEF CacheTypeOK, Key, Place
<1>3. InTurn'
  BY <1>1 DEF InTurn, CacheTypeOK, Holding
<1>4. OneEach'
  BY <1>1 DEF OneEach
<1>5. StillLoaded'
  <2>1. \A e : Cached(e)' => Cached(e)
    BY <1>1 DEF Cached, CacheTypeOK
  <2> QED BY <1>1, <2>1 DEF StillLoaded
<1>6. LostInTurn'
  <2> SUFFICES ASSUME NEW u \in Thread
               PROVE  /\ at'[u] \in {"release", "lock", "run"} => Recent(u)' \/ Crowded(u)'
                      /\ at'[u] = "unloaded" => Crowded(u)'
    BY DEF LostInTurn
  <2>1. CASE u = t
    BY <1>1, <2>1 DEF CacheTypeOK
  <2>2. CASE u # t
    <3>1. at'[u] = at[u] /\ looked'[u] = looked[u]
      BY <1>1, <2>2 DEF CacheTypeOK
    <3> QED BY <1>1, <3>1 DEF LostInTurn, Recent, Crowded
  <2> QED BY <2>1, <2>2
<1> QED BY <1>2, <1>3, <1>4, <1>5, <1>6 DEF CacheInv

\* The factory fails.
LEMMA LoadFailsKeeps ==
    ASSUME CacheInv, NEW t \in Thread, LoadFails(t)
    PROVE  CacheInv'
<1>1. /\ CacheTypeOK /\ InTurn /\ OneEach /\ StillLoaded /\ LostInTurn
      /\ at[t] = "build" /\ building' = None /\ at' = [at EXCEPT ![t] = "idle"] /\ None \notin Thread
      /\ UNCHANGED <<cache, executors, pool, workers, wants, entry, looked, evicted>>
  BY CacheAssumption DEF CacheInv, LoadFails
<1>2. CacheTypeOK'
  BY <1>1 DEF CacheTypeOK, Place
<1>3. InTurn'
  BY <1>1 DEF InTurn, CacheTypeOK, Holding
<1>4. OneEach'
  BY <1>1 DEF OneEach
<1>5. StillLoaded'
  <2>1. \A e : Cached(e)' => Cached(e)
    BY <1>1 DEF Cached, CacheTypeOK
  <2> QED BY <1>1, <2>1 DEF StillLoaded
<1>6. LostInTurn'
  BY <1>1 DEF LostInTurn, Recent, Crowded, CacheTypeOK
<1> QED BY <1>2, <1>3, <1>4, <1>5, <1>6 DEF CacheInv

\* An evicted executor gives its handle up.
LEMMA ReleaseKeeps ==
    ASSUME CacheInv, NEW t \in Thread, Release(t)
    PROVE  CacheInv'
<1> DEFINE e == evicted[t]
           r == [executors[e] EXCEPT !.handle = 0]
<1>1. /\ CacheTypeOK /\ InTurn /\ OneEach /\ StillLoaded /\ LostInTurn
      /\ at[t] = "release" /\ at' = [at EXCEPT ![t] = "lock"]
      /\ executors' = [executors EXCEPT ![e] = r]
      /\ evicted' = [evicted EXCEPT ![t] = 0]
      /\ UNCHANGED <<cache, pool, workers, building, wants, entry, looked>>
  BY DEF CacheInv, Release
<1>2. e \in 1 .. Len(executors)
  BY <1>1 DEF InTurn
<1> HIDE DEF e
<1>3. r \in Executor /\ r.key = executors[e].key
  <2>1. executors[e] \in Executor
    BY <1>1, <1>2 DEF CacheTypeOK
  <2> QED BY <2>1 DEF Executor
<1> HIDE DEF r
<1>4. /\ executors' \in Seq(Executor) /\ Len(executors') = Len(executors)
      /\ \A x \in 1 .. Len(executors) : /\ executors'[x] = IF x = e THEN r ELSE executors[x]
                                        /\ executors'[x].key = executors[x].key
  BY <1>1, <1>2, <1>3, OnExecutor
<1>5. CacheTypeOK'
  BY <1>1, <1>4 DEF CacheTypeOK, Place, Holding
<1>6. InTurn'
  <2>1. \A i \in 1 .. Len(cache) : cache[i] \in 1 .. Len(executors)
    BY <1>1 DEF CacheTypeOK
  <2>2. ASSUME NEW u \in Thread
        PROVE  /\ at'[u] \in {"build", "insert"} <=> at[u] \in {"build", "insert"}
               /\ at'[u] \in Holding <=> at[u] \in Holding
               /\ at'[u] = "release" => at[u] = "release" /\ evicted'[u] = evicted[u]
               /\ at'[u] # "release" => evicted'[u] = 0
    BY <1>1 DEF CacheTypeOK, Holding, InTurn
  <2> QED BY <1>1, <1>4, <2>1, <2>2 DEF InTurn
<1>7. StillLoaded'
  <2>1. \A x : Cached(x)' => Cached(x)
    BY <1>1 DEF Cached, CacheTypeOK
  <2>2. ~ Cached(e)
    BY <1>1, <1>2 DEF StillLoaded, e
  <2>3. \A x \in 1 .. Len(executors), u \in Thread : evicted'[u] = x => evicted[u] = x
    BY <1>1 DEF CacheTypeOK
  <2> QED BY <1>1, <1>4, <2>1, <2>2, <2>3 DEF StillLoaded
<1>8. LostInTurn'
  BY <1>1, <1>4, SameCache DEF LostInTurn, CacheInv, CacheTypeOK
<1>9. OneEach'
  BY <1>1, <1>4, SameCache DEF CacheInv, CacheTypeOK
<1> QED BY <1>5, <1>6, <1>7, <1>8, <1>9 DEF CacheInv

\* A thread takes the lock of its executor.
LEMMA LockKeeps ==
    ASSUME CacheInv, NEW t \in Thread, Lock(t)
    PROVE  CacheInv'
<1> DEFINE e == entry[t]
           r == [executors[e] EXCEPT !.holder = t]
<1>1. /\ CacheTypeOK /\ InTurn /\ OneEach /\ StillLoaded /\ LostInTurn
      /\ at[t] = "lock" /\ at' = [at EXCEPT ![t] = "run"]
      /\ executors' = [executors EXCEPT ![e] = r]
      /\ UNCHANGED <<cache, pool, workers, building, wants, entry, looked, evicted>>
  BY DEF CacheInv, Lock
<1>2. e \in 1 .. Len(executors)
  BY <1>1 DEF InTurn, Holding
<1> HIDE DEF e
<1>3. r \in Executor /\ r.key = executors[e].key /\ r.handle = executors[e].handle
  <2>1. executors[e] \in Executor
    BY <1>1, <1>2 DEF CacheTypeOK
  <2> QED BY <2>1 DEF Executor
<1> HIDE DEF r
<1>4. /\ executors' \in Seq(Executor) /\ Len(executors') = Len(executors)
      /\ \A x \in 1 .. Len(executors) : /\ executors'[x] = IF x = e THEN r ELSE executors[x]
                                        /\ executors'[x].key = executors[x].key
  BY <1>1, <1>2, <1>3, OnExecutor
<1>5. CacheTypeOK'
  BY <1>1, <1>4 DEF CacheTypeOK, Place, Holding
<1>6. InTurn'
  <2>1. \A i \in 1 .. Len(cache) : cache[i] \in 1 .. Len(executors)
    BY <1>1 DEF CacheTypeOK
  <2>2. ASSUME NEW u \in Thread
        PROVE  /\ at'[u] \in {"build", "insert"} <=> at[u] \in {"build", "insert"}
               /\ at'[u] \in Holding <=> at[u] \in Holding
               /\ at'[u] = "release" <=> at[u] = "release"
    BY <1>1 DEF CacheTypeOK, Holding
  <2> QED BY <1>1, <1>4, <2>1, <2>2 DEF InTurn
<1>7. StillLoaded'
  <2>1. \A x : Cached(x)' => Cached(x)
    BY <1>1 DEF Cached, CacheTypeOK
  <2>2. \A x \in 1 .. Len(executors) : executors'[x].handle = executors[x].handle
    BY <1>3, <1>4
  <2> QED BY <1>1, <1>4, <2>1, <2>2 DEF StillLoaded
<1>8. LostInTurn'
  BY <1>1, <1>4, SameCache DEF LostInTurn, CacheInv, CacheTypeOK
<1>9. OneEach'
  BY <1>1, <1>4, SameCache DEF CacheInv, CacheTypeOK
<1> QED BY <1>5, <1>6, <1>7, <1>8, <1>9 DEF CacheInv

\* A thread runs its executor, or finds it unloaded.
LEMMA RunKeeps ==
    ASSUME CacheInv, NEW t \in Thread, Run(t)
    PROVE  CacheInv'
<1> DEFINE e == entry[t]
           r == [executors[e] EXCEPT !.holder = None]
           w == executors[e].handle
<1>1. /\ CacheTypeOK /\ InTurn /\ OneEach /\ StillLoaded /\ LostInTurn /\ at[t] = "run"
      /\ \/ /\ w = 0 /\ at' = [at EXCEPT ![t] = "unloaded"] /\ UNCHANGED <<workers, looked>>
         \/ /\ workers' = [workers EXCEPT ![w].up = TRUE] \/ UNCHANGED workers
            /\ at' = [at EXCEPT ![t] = "idle"] /\ looked' = [looked EXCEPT ![t] = {}]
      /\ executors' = [executors EXCEPT ![e] = r] /\ entry' = [entry EXCEPT ![t] = 0]
      /\ UNCHANGED <<cache, pool, building, wants, evicted>>
  BY DEF CacheInv, Run
<1>2. e \in 1 .. Len(executors)
  BY <1>1 DEF InTurn, Holding
<1>a. w = 0 => Crowded(t)
  <2>1. Recent(t) => Cached(e)
    BY DEF Recent, Cached
  <2>2. Cached(e) => w # 0
    BY <1>1, <1>2 DEF StillLoaded
  <2> QED BY <1>1, <2>1, <2>2 DEF LostInTurn
<1> HIDE DEF e
<1>3. r \in Executor /\ r.key = executors[e].key /\ r.handle = executors[e].handle
  <2>1. executors[e] \in Executor
    BY <1>1, <1>2 DEF CacheTypeOK
  <2> QED BY <2>1 DEF Executor
<1> HIDE DEF r
<1>4. /\ executors' \in Seq(Executor) /\ Len(executors') = Len(executors)
      /\ \A x \in 1 .. Len(executors) : /\ executors'[x] = IF x = e THEN r ELSE executors[x]
                                        /\ executors'[x].key = executors[x].key
  BY <1>1, <1>2, <1>3, OnExecutor
<1>5. ASSUME NEW u \in Thread, u # t
      PROVE  at'[u] = at[u] /\ entry'[u] = entry[u] /\ looked'[u] = looked[u]
  BY <1>1, <1>5 DEF CacheTypeOK
<1>6. at'[t] \in {"unloaded", "idle"} /\ entry'[t] = 0
  BY <1>1 DEF CacheTypeOK
<1>7. CacheTypeOK'
  <2>1. workers' \in Seq(Worker)
    <3>1. workers \in Seq(Worker)
      BY <1>1 DEF CacheTypeOK
    <3>2. CASE workers' = [workers EXCEPT ![w].up = TRUE]
      <4>1. workers \in [1 .. Len(workers) -> Worker] /\ Len(workers) \in Nat
        BY <3>1
      <4>2. ASSUME NEW x \in 1 .. Len(workers)
            PROVE  workers[x] \in Worker /\ [workers[x] EXCEPT !.up = TRUE] \in Worker
        <5>1. workers[x] \in Worker
          BY <4>1
        <5> QED BY <5>1 DEF Worker
      <4> HIDE DEF w
      <4>3. workers' = [workers EXCEPT ![w] = [workers[w] EXCEPT !.up = TRUE]]
        BY <3>2
      <4>4. workers' \in [1 .. Len(workers) -> Worker]
        BY <4>1, <4>2, <4>3
      <4> QED BY <4>1, <4>4, SeqDef
    <3> QED BY <1>1, <3>1, <3>2
  <2>2. at' \in [Thread -> Place] /\ entry' \in [Thread -> Nat] /\ looked' \in [Thread -> SUBSET Key]
    BY <1>1 DEF CacheTypeOK, Place
  <2>3. \A u \in Thread : IsFiniteSet(looked'[u])
    BY <1>1, FS_EmptySet DEF CacheTypeOK
  <2> QED BY <1>1, <1>4, <2>1, <2>2, <2>3 DEF CacheTypeOK
<1>8. InTurn'
  <2>1. \A i \in 1 .. Len(cache) : cache[i] \in 1 .. Len(executors)
    BY <1>1 DEF CacheTypeOK
  <2>2. ASSUME NEW u \in Thread
        PROVE  /\ at'[u] \in {"build", "insert"} <=> at[u] \in {"build", "insert"}
               /\ at'[u] \in Holding => at[u] \in Holding /\ entry'[u] = entry[u]
               /\ at'[u] \notin Holding => at[u] \notin Holding \/ entry'[u] = 0
               /\ at[u] \notin Holding => entry'[u] = entry[u]
               /\ at'[u] = "release" <=> at[u] = "release"
    BY <1>1, <1>5, <1>6 DEF Holding
  <2> QED BY <1>1, <1>4, <2>1, <2>2 DEF InTurn
<1>9. StillLoaded'
  <2>1. \A x \in 1 .. Len(executors) : Cached(x)' => Cached(x)
    BY <1>1, <1>5, <1>6 DEF Cached
  <2>2. \A x \in 1 .. Len(executors) : executors'[x].handle = executors[x].handle
    BY <1>3, <1>4
  <2> QED BY <1>1, <1>4, <2>1, <2>2 DEF StillLoaded
<1>10. LostInTurn'
  <2> SUFFICES ASSUME NEW u \in Thread
               PROVE  /\ at'[u] \in {"release", "lock", "run"} => Recent(u)' \/ Crowded(u)'
                      /\ at'[u] = "unloaded" => Crowded(u)'
    BY DEF LostInTurn
  <2>0. Len(executors) <= Len(executors')
    BY <1>1, <1>4 DEF CacheTypeOK
  <2>1. CASE u # t
    BY <1>1, <1>4, <1>5, <2>0, <2>1, SameCache DEF LostInTurn, CacheInv
  <2>2. CASE u = t
    <3>1. at'[t] = "unloaded" => w = 0 /\ looked' = looked
      BY <1>1 DEF CacheTypeOK
    <3> QED BY <1>a, <1>6, <2>2, <3>1 DEF Crowded
  <2> QED BY <2>1, <2>2
<1>11. OneEach'
  BY <1>1, <1>4, SameCache DEF CacheInv, CacheTypeOK
<1> QED BY <1>7, <1>8, <1>9, <1>10, <1>11 DEF CacheInv

\* The factory builds an executor on a worker of the pool.
LEMMA LoadKeeps ==
    ASSUME CacheInv, NEW t \in Thread, Load(t)
    PROVE  CacheInv'
<1> DEFINE found == Find(pool, workers, wants[t])
           order == IF found # {} THEN Touch(pool, CHOOSE i \in found : TRUE)
                    ELSE Append(pool, Len(workers) + 1)
           kept  == Evict(order)
           table == IF found # {} THEN workers
                    ELSE Append(workers, [key |-> wants[t], up |-> TRUE])
           r     == [key |-> wants[t], handle |-> Last(order), holder |-> None]
           n     == Len(executors) + 1
<1>1. /\ CacheTypeOK /\ InTurn /\ OneEach /\ StillLoaded /\ LostInTurn
      /\ at[t] = "build" /\ at' = [at EXCEPT ![t] = "insert"]
      /\ pool' = kept[1]
      /\ workers' = [x \in DOMAIN table |->
                        IF x \in kept[2] THEN [table[x] EXCEPT !.up = FALSE] ELSE table[x]]
      /\ executors' = Append(executors, r)
      /\ entry' = [entry EXCEPT ![t] = Len(executors')]
      /\ UNCHANGED <<cache, building, wants, looked, evicted>>
  BY DEF CacheInv, Load
<1>2. table \in Seq(Worker)
  <2>1. workers \in Seq(Worker) /\ [key |-> wants[t], up |-> TRUE] \in Worker
    BY <1>1 DEF CacheTypeOK, Worker
  <2> QED BY <2>1
<1>3. order \in Seq(Nat \ {0}) /\ Len(order) \in Nat \ {0}
  <2>1. pool \in Seq(Nat \ {0}) /\ Len(workers) \in Nat /\ Len(pool) \in Nat
    BY <1>1 DEF CacheTypeOK
  <2>2. CASE found # {}
    <3> DEFINE p == CHOOSE i \in found : TRUE
    <3>1. p \in 1 .. Len(pool)
      BY <2>1, <2>2 DEF Find
    <3> HIDE DEF p
    <3>2. Touch(pool, p) \in Seq(Nat \ {0}) /\ Len(Touch(pool, p)) = Len(pool)
      BY <2>1, <3>1, OnTouch
    <3> QED BY <2>1, <2>2, <3>1, <3>2 DEF p
  <2>3. CASE found = {}
    BY <2>1, <2>3
  <2> QED BY <2>2, <2>3
<1> HIDE DEF found, order, table
<1>4. kept[1] \in Seq(Nat \ {0})
  <2>1. CASE Len(order) <= CacheSize
    BY <1>3, <2>1, OnEvict
  <2>2. CASE Len(order) > CacheSize
    <3>1. Evict(order)[1] = Tail(order) /\ Tail(order) \in Seq(Nat \ {0})
      BY <1>3, <2>2, OnEvict
    <3> QED BY <3>1
  <2> QED BY <1>3, <2>1, <2>2, CacheAssumption
<1>5. workers' \in Seq(Worker)
  <2>1. \A x \in DOMAIN table : table[x] \in Worker /\ [table[x] EXCEPT !.up = FALSE] \in Worker
    <3>1. ASSUME NEW x \in DOMAIN table PROVE table[x] \in Worker
      BY <1>2
    <3> QED BY <3>1 DEF Worker
  <2>2. DOMAIN table = 1 .. Len(table) /\ Len(table) \in Nat
    BY <1>2
  <2> DEFINE f == [x \in DOMAIN table |->
                      IF x \in kept[2] THEN [table[x] EXCEPT !.up = FALSE] ELSE table[x]]
  <2>3. f \in [1 .. Len(table) -> Worker]
    BY <2>1, <2>2
  <2>4. f \in Seq(Worker)
    BY <2>2, <2>3, SeqDef
  <2> QED BY <1>1, <2>4
<1>6. r \in Executor /\ r.handle # 0 /\ r.key = wants[t]
  <2>1. Last(order) \in Nat \ {0}
    BY <1>3 DEF Last
  <2> QED BY <1>1, <2>1 DEF Executor, CacheTypeOK
<1> HIDE DEF kept, r
<1>7. /\ executors' \in Seq(Executor) /\ Len(executors') = n /\ executors'[n] = r
      /\ n \in Nat /\ Len(executors) \in Nat /\ Len(executors) <= n
      /\ \A x \in 1 .. Len(executors) : x # n /\ x \in 1 .. n /\ executors'[x] = executors[x]
      /\ \A x \in 1 .. n : x # n => x \in 1 .. Len(executors)
      /\ n \in 1 .. n
  <2>1. executors \in Seq(Executor)
    BY <1>1 DEF CacheTypeOK
  <2> QED BY <1>1, <1>6, <2>1
<1> HIDE DEF n
<1>8. /\ at'[t] = "insert" /\ entry'[t] = n
      /\ \A u \in Thread \ {t} : at'[u] = at[u] /\ entry'[u] = entry[u]
  BY <1>1, <1>7 DEF CacheTypeOK
<1>9. CacheTypeOK'
  <2>1. at' \in [Thread -> Place] /\ entry' \in [Thread -> Nat]
    BY <1>1, <1>7 DEF CacheTypeOK, Place, Holding
  <2>2. pool' \in Seq(Nat \ {0})
    BY <1>1, <1>4
  <2>3. \A i \in 1 .. Len(cache) : cache[i] \in 1 .. n
    BY <1>1, <1>7 DEF CacheTypeOK
  <2> QED BY <1>1, <1>5, <1>7, <2>1, <2>2, <2>3 DEF CacheTypeOK
<1>10. InTurn'
  <2>1. \A i \in 1 .. Len(cache) : cache[i] \in 1 .. Len(executors)
    BY <1>1 DEF CacheTypeOK
  <2>2. ASSUME NEW u \in Thread
        PROVE  /\ at'[u] \in {"build", "insert"} <=> building' = u
               /\ at'[u] \in Holding => /\ entry'[u] \in 1 .. Len(executors')
                                        /\ executors'[entry'[u]].key = wants'[u]
               /\ at'[u] \notin Holding => entry'[u] = 0
               /\ building' = u => \A i \in 1 .. Len(cache') : executors'[cache'[i]].key # wants'[u]
               /\ at'[u] = "release" => evicted'[u] \in 1 .. Len(executors')
               /\ at'[u] # "release" => evicted'[u] = 0
    <3>1. CASE u = t
      BY <1>1, <1>6, <1>7, <1>8, <2>1, <3>1 DEF InTurn, Holding
    <3>2. CASE u # t
      BY <1>1, <1>7, <1>8, <2>1, <3>2 DEF InTurn
    <3> QED BY <3>1, <3>2
  <2> QED BY <2>2 DEF InTurn
<1>11. StillLoaded'
  <2>1. ASSUME NEW x \in 1 .. n, Cached(x)', x # n PROVE Cached(x)
    BY <1>1, <1>7, <1>8, <2>1 DEF Cached
  <2>2. \A u \in Thread : evicted[u] # n
    BY <1>1, <1>7 DEF InTurn
  <2> QED BY <1>1, <1>6, <1>7, <2>1, <2>2 DEF StillLoaded
<1>12. LostInTurn'
  <2>1. \A u \in Thread \ {t} : looked'[u] = looked[u]
    BY <1>1
  <2>2. \A e \in 1 .. Len(executors) : executors'[e].key = executors[e].key
    BY <1>7
  <2> QED BY <1>1, <1>7, <1>8, <2>1, <2>2, SameCache DEF LostInTurn, CacheInv
<1>13. OneEach'
  <2>1. \A e \in 1 .. Len(executors) : executors'[e].key = executors[e].key
    BY <1>7
  <2> QED BY <1>1, <1>7, <2>1, SameCache DEF CacheInv
<1> QED BY <1>9, <1>10, <1>11, <1>12, <1>13 DEF CacheInv

\* A look-up of key k is noticed by the waiting requests for other keys.
LEMMA OnNoticed ==
    ASSUME CacheTypeOK, NEW k \in Key, NEW t \in Thread,
           looked' = [Noticed(k) EXCEPT ![t] = {}]
    PROVE  /\ looked' \in [Thread -> SUBSET Key] /\ \A u \in Thread : IsFiniteSet(looked'[u])
           /\ looked'[t] = {}
           /\ \A u \in Thread \ {t} :
                 /\ looked[u] \subseteq looked'[u]
                 /\ Crowded(u) => Crowded(u)'
                 /\ entry[u] = 0 => looked'[u] = looked[u]
                 /\ entry[u] # 0 /\ wants[u] # k => k \in looked'[u]
<1>1. /\ looked \in [Thread -> SUBSET Key] /\ \A u \in Thread : IsFiniteSet(looked[u])
      /\ CacheSize \in Nat
  BY CacheAssumption DEF CacheTypeOK
<1>2. ASSUME NEW u \in Thread \ {t}
      PROVE  looked'[u] = IF entry[u] = 0 \/ wants[u] = k THEN looked[u] ELSE looked[u] \union {k}
  BY <1>1 DEF Noticed
<1>3. looked' \in [Thread -> SUBSET Key] /\ looked'[t] = {}
  BY <1>1 DEF Noticed
<1>4. ASSUME NEW u \in Thread \ {t}
      PROVE  IsFiniteSet(looked'[u]) /\ looked[u] \subseteq looked'[u]
  <2>1. IsFiniteSet(looked[u]) /\ IsFiniteSet(looked[u] \union {k})
    BY <1>1, FS_AddElement
  <2> QED BY <1>2, <2>1
<1>5. ASSUME NEW u \in Thread \ {t}, Crowded(u) PROVE Crowded(u)'
  <2>1. looked[u] \in SUBSET looked'[u] /\ IsFiniteSet(looked'[u])
    BY <1>4
  <2>2. Cardinality(looked[u]) <= Cardinality(looked'[u])
    BY ONLY <2>1, FS_Subset
  <2>3. Cardinality(looked[u]) \in Nat /\ Cardinality(looked'[u]) \in Nat
    BY <1>1, <1>4, FS_CardinalityType
  <2> QED BY <1>1, <1>5, <2>2, <2>3 DEF Crowded
<1> QED BY <1>2, <1>3, <1>4, <1>5, FS_EmptySet

\* get_or_create finds the executor, or begins to build it.
LEMMA LookUpKeeps ==
    ASSUME CacheInv, NEW t \in Thread, LookUp(t)
    PROVE  CacheInv'
<1> DEFINE found == Find(cache, executors, wants[t])
           n == Len(cache)
<1>1. /\ CacheTypeOK /\ InTurn /\ OneEach /\ StillLoaded /\ LostInTurn
      /\ at[t] = "lookup" /\ building = None /\ None \notin Thread
      /\ UNCHANGED <<executors, pool, workers, wants, evicted>>
  BY CacheAssumption DEF CacheInv, LookUp
<1>2. /\ cache \in Seq(Nat) /\ n \in Nat /\ Len(executors) \in Nat
      /\ \A j \in 1 .. n : cache[j] \in 1 .. Len(executors)
      /\ DOMAIN cache = 1 .. n
  BY <1>1 DEF CacheTypeOK
<1>3. CASE found = {}
  <2>1. /\ building' = t /\ at' = [at EXCEPT ![t] = "build"] /\ UNCHANGED <<cache, entry, looked>>
    BY <1>3 DEF LookUp
  <2>2. CacheTypeOK'
    BY <1>1, <2>1 DEF CacheTypeOK, Place
  <2>3. \A i \in 1 .. n : executors[cache[i]].key # wants[t]
    BY <1>2, <1>3 DEF Find
  <2>4. /\ at'[t] = "build" /\ \A u \in Thread \ {t} : at'[u] = at[u] /\ building' # u
    BY <1>1, <2>1 DEF CacheTypeOK
  <2>5. InTurn'
    <3> SUFFICES ASSUME NEW u \in Thread
        PROVE  /\ at'[u] \in {"build", "insert"} <=> building' = u
               /\ at'[u] \in Holding => /\ entry'[u] \in 1 .. Len(executors')
                                        /\ executors'[entry'[u]].key = wants'[u]
               /\ at'[u] \notin Holding => entry'[u] = 0
               /\ building' = u => \A i \in 1 .. Len(cache') : executors'[cache'[i]].key # wants'[u]
               /\ at'[u] = "release" => evicted'[u] \in 1 .. Len(executors')
               /\ at'[u] # "release" => evicted'[u] = 0
      BY DEF InTurn
    <3>1. CASE u = t
      BY <1>1, <2>1, <2>3, <2>4, <3>1 DEF InTurn, Holding
    <3>2. CASE u # t
      BY <1>1, <2>1, <2>4, <3>2 DEF InTurn
    <3> QED BY <3>1, <3>2
  <2>6. OneEach'
    BY <1>1, <2>1 DEF OneEach
  <2>7. StillLoaded'
    <3>1. \A e \in 1 .. Len(executors) : Cached(e)' => Cached(e)
      BY <2>1, <2>4 DEF Cached
    <3> QED BY <1>1, <3>1 DEF StillLoaded
  <2>8. LostInTurn'
    BY <1>1, <2>1, <2>4 DEF LostInTurn, Recent, Crowded
  <2> QED BY <2>2, <2>5, <2>6, <2>7, <2>8 DEF CacheInv
<1>4. CASE found # {}
  <2>1. PICK i \in found : Reuse(t, i)
    BY <1>4 DEF LookUp
  <2>2. /\ at' = [at EXCEPT ![t] = "lock"] /\ looked' = [Noticed(wants[t]) EXCEPT ![t] = {}]
        /\ entry' = [entry EXCEPT ![t] = cache[i]] /\ cache' = Touch(cache, i)
        /\ building' = None
    BY <1>1, <1>4, <2>1 DEF LookUp, Reuse
  <2>3. i \in 1 .. n /\ executors[cache[i]].key = wants[t]
    BY <1>2 DEF Find
  <2>4. /\ cache' \in Seq(Nat) /\ Len(cache') = n
        /\ \A j \in 1 .. n : cache'[j] = IF j < i THEN cache[j]
                                        ELSE IF j < n THEN cache[j + 1] ELSE cache[i]
    BY <1>2, <2>2, <2>3, OnTouch
  <2> HIDE DEF n, found
  <2>5. \A j \in 1 .. n : IF j < i THEN cache'[j] = cache[j]
                          ELSE IF j < n THEN j + 1 \in 1 .. n /\ cache'[j] = cache[j + 1]
                          ELSE j = n /\ cache'[j] = cache[i]
    BY <1>2, <2>4
  <2>6. /\ at'[t] = "lock" /\ entry'[t] = cache[i]
        /\ \A u \in Thread \ {t} : at'[u] = at[u] /\ entry'[u] = entry[u]
        /\ \A u \in Thread : building # u /\ building' # u
    BY <1>1, <2>2 DEF CacheTypeOK
  <2>7. /\ looked' \in [Thread -> SUBSET Key] /\ \A u \in Thread : IsFiniteSet(looked'[u])
        /\ \A u \in Thread \ {t} :
              /\ looked[u] \subseteq looked'[u]
              /\ Crowded(u) => Crowded(u)'
              /\ entry[u] = 0 => looked'[u] = looked[u]
              /\ entry[u] # 0 /\ wants[u] # wants[t] => wants[t] \in looked'[u]
    <3>1. wants[t] \in Key
      BY <1>1 DEF CacheTypeOK
    <3> QED BY <1>1, <2>2, <3>1, OnNoticed
  <2>8. \A j \in 1 .. n : \E m \in 1 .. n : cache'[j] = cache[m]
    BY <2>3, <2>5
  <2>9. CacheTypeOK'
    <3>1. at' \in [Thread -> Place] /\ entry' \in [Thread -> Nat]
      BY <1>1, <1>2, <2>2, <2>3 DEF CacheTypeOK, Place, Holding
    <3>2. \A j \in 1 .. n : cache'[j] \in 1 .. Len(executors)
      BY <1>2, <2>8
    <3> QED BY <1>1, <2>2, <2>4, <2>7, <3>1, <3>2 DEF CacheTypeOK, n
  <2>10. InTurn'
    <3> SUFFICES ASSUME NEW u \in Thread
        PROVE  /\ at'[u] \in {"build", "insert"} <=> building' = u
               /\ at'[u] \in Holding => /\ entry'[u] \in 1 .. Len(executors')
                                        /\ executors'[entry'[u]].key = wants'[u]
               /\ at'[u] \notin Holding => entry'[u] = 0
               /\ at'[u] = "release" => evicted'[u] \in 1 .. Len(executors')
               /\ at'[u] # "release" => evicted'[u] = 0
      BY <2>6 DEF InTurn
    <3>1. CASE u = t
      BY <1>1, <1>2, <2>3, <2>6, <3>1 DEF InTurn, Holding
    <3>2. CASE u # t
      BY <1>1, <2>6, <3>2 DEF InTurn
    <3> QED BY <3>1, <3>2
  <2>11. OneEach'
    <3> DEFINE From(j) == IF j < i THEN j ELSE IF j < n THEN j + 1 ELSE i
    <3>1. \A j \in 1 .. n : From(j) \in 1 .. n /\ cache'[j] = cache[From(j)]
      BY <2>3, <2>5
    <3>2. \A j \in 1 .. n, m \in 1 .. n : From(j) = From(m) => j = m
      BY <1>2, <2>3, SMTT(30)
    <3>3. \A j \in 1 .. n, m \in 1 .. n : executors[cache[j]].key = executors[cache[m]].key => j = m
      BY <1>1 DEF OneEach, n
    <3> HIDE DEF From
    <3>4. \A j \in 1 .. n, m \in 1 .. n : executors[cache'[j]].key = executors[cache'[m]].key => j = m
      BY <3>1, <3>2, <3>3
    <3> QED BY <1>1, <2>4, <3>4 DEF OneEach
  <2>12. StillLoaded'
    <3>1. \A e \in 1 .. Len(executors) : Cached(e)' => Cached(e)
      BY <2>4, <2>6, <2>8, ZenonT(60) DEF Cached, n
    <3> QED BY <1>1, <3>1 DEF StillLoaded
  <2>13. LostInTurn'
    <3> SUFFICES ASSUME NEW u \in Thread
                 PROVE  /\ at'[u] \in {"release", "lock", "run"} => Recent(u)' \/ Crowded(u)'
                        /\ at'[u] = "unloaded" => Crowded(u)'
      BY DEF LostInTurn
    <3>1. CASE u = t
      <4>1. n \in 1 .. n /\ cache'[n] = entry'[t] /\ \A j \in 1 .. n : ~ (j > n)
        BY <1>2, <2>3, <2>5, <2>6
      <4>2. Recent(t)'
        BY <2>4, <4>1 DEF Recent
      <4> QED BY <2>6, <3>1, <4>2
    <3>2. CASE u # t /\ Crowded(u)
      BY <2>7, <3>2
    <3>3. CASE u # t /\ ~ Crowded(u)
      <4>1. at'[u] = at[u] /\ entry'[u] = entry[u] /\ at[u] # "unloaded"
        BY <1>1, <2>6, <3>3 DEF LostInTurn
      <4> SUFFICES ASSUME at[u] \in {"release", "lock", "run"} PROVE Recent(u)'
        BY <4>1
      <4>2. PICK p \in 1 .. n : /\ cache[p] = entry[u]
                                /\ \A j \in 1 .. n : j > p => executors[cache[j]].key \in looked[u]
        BY <1>1, <3>3 DEF LostInTurn, Recent, n
      <4>3. entry[u] # 0 /\ executors[entry[u]].key = wants[u]
        BY <1>1 DEF InTurn, Holding
      <4>4. CASE p = i
        <5>1. n \in 1 .. n /\ cache'[n] = entry'[u] /\ \A j \in 1 .. n : ~ (j > n)
          BY <1>2, <2>3, <2>5, <4>1, <4>2, <4>4
        <5> QED BY <2>4, <5>1 DEF Recent
      <4>5. CASE p # i
        <5> DEFINE q == IF p < i THEN p ELSE p - 1
        <5>1. wants[u] # wants[t]
          BY <1>1, <2>3, <4>2, <4>3, <4>5 DEF OneEach, n
        <5>2. looked[u] \subseteq looked'[u] /\ executors[cache[i]].key \in looked'[u]
          BY <2>3, <2>7, <3>3, <4>3, <5>1
        <5>3. q \in 1 .. n /\ cache'[q] = cache[p]
          <6>1. n \in Nat /\ i \in 1 .. n /\ p \in 1 .. n
            BY <1>2, <2>3
          <6>2. CASE p < i
            BY <2>5, <6>1, <6>2
          <6>3. CASE p > i
            BY <2>5, <6>1, <6>3
          <6> QED BY <4>5, <6>1, <6>2, <6>3
        <5>4. ASSUME NEW j \in 1 .. n, j > q PROVE executors[cache'[j]].key \in looked'[u]
          <6>1. \/ \E m \in 1 .. n : m > p /\ cache'[j] = cache[m]
                \/ cache'[j] = cache[i]
            <7>1. CASE j < i
              <8>1. cache'[j] = cache[j] /\ j > p
                BY <1>2, <2>3, <2>5, <4>5, <5>4, <7>1
              <8> QED BY <8>1
            <7>2. CASE ~ (j < i) /\ j < n
              <8>1. j + 1 \in 1 .. n /\ cache'[j] = cache[j + 1] /\ j + 1 > p
                BY <1>2, <2>3, <2>5, <4>5, <5>4, <7>2
              <8> QED BY <8>1
            <7>3. CASE ~ (j < i) /\ ~ (j < n)
              BY <2>5, <7>3
            <7> QED BY <7>1, <7>2, <7>3
          <6> QED BY <4>2, <5>2, <6>1
        <5> HIDE DEF q
        <5> QED BY <1>1, <2>4, <4>1, <4>2, <5>3, <5>4 DEF Recent
      <4> QED BY <4>4, <4>5
    <3> QED BY <3>1, <3>2, <3>3
  <2> QED BY <2>9, <2>10, <2>11, <2>12, <2>13 DEF CacheInv
<1> QED BY <1>3, <1>4

\* What an insertion leaves in the cache: the keys, all different, with the new
\* entry last, and the oldest one gone when there was no room.
LEMMA OnInsert ==
    ASSUME CacheInv, NEW t \in Thread, Insert(t)
    PROVE  \E d \in {0, 1} :
             /\ d = 1 => Len(cache) = CacheSize
             /\ cache' \in Seq(Nat) /\ Len(cache') = Len(cache) + 1 - d /\ Len(cache') <= CacheSize
             /\ \A j \in 1 .. Len(cache') :
                   IF j + d <= Len(cache) THEN j + d \in 1 .. Len(cache) /\ cache'[j] = cache[j + d]
                   ELSE j = Len(cache') /\ cache'[j] = entry[t]
             /\ d = 0 => at' = [at EXCEPT ![t] = "lock"] /\ UNCHANGED evicted
             /\ d = 1 => /\ at' = [at EXCEPT ![t] = "release"]
                         /\ evicted' = [evicted EXCEPT ![t] = cache[1]]
<1> DEFINE c == Append(cache, entry[t])
           kept == Evict(c)
           n == Len(cache)
<1>1. /\ cache \in Seq(Nat) /\ n \in Nat /\ n <= CacheSize /\ CacheSize \in Nat \ {0} /\ entry[t] \in Nat
      /\ cache' = kept[1]
      /\ IF kept[2] = {} THEN at' = [at EXCEPT ![t] = "lock"] /\ UNCHANGED evicted
         ELSE /\ at' = [at EXCEPT ![t] = "release"]
              /\ \E e \in kept[2] : evicted' = [evicted EXCEPT ![t] = e]
  BY CacheAssumption DEF CacheInv, CacheTypeOK, Insert
<1>2. /\ c \in Seq(Nat) /\ Len(c) = n + 1 /\ c[n + 1] = entry[t]
      /\ \A j \in 1 .. n : c[j] = cache[j]
  BY <1>1
<1> HIDE DEF c
<1>3. CASE n + 1 <= CacheSize
  <2>1. kept[1] = c /\ kept[2] = {}
    BY <1>2, <1>3, OnEvict
  <2> HIDE DEF kept
  <2>2. \A j \in 1 .. n + 1 : IF j + 0 <= n THEN j + 0 \in 1 .. n /\ c[j] = cache[j + 0]
                              ELSE j = n + 1 /\ c[j] = entry[t]
    BY <1>1, <1>2
  <2>3. cache' = c /\ Len(c) = n + 1 - 0 /\ at' = [at EXCEPT ![t] = "lock"] /\ UNCHANGED evicted
    BY <1>1, <1>2, <2>1
  <2> HIDE DEF n
  <2> WITNESS 0 \in {0, 1}
  <2> QED BY <1>2, <1>3, <2>2, <2>3 DEF n
<1>4. CASE ~ (n + 1 <= CacheSize)
  <2>0. n = CacheSize /\ Len(c) > CacheSize
    BY <1>1, <1>2, <1>4
  <2>1. /\ kept[1] = Tail(c) /\ kept[2] = {c[1]} /\ Tail(c) \in Seq(Nat) /\ Len(Tail(c)) = Len(c) - 1
        /\ \A j \in 1 .. Len(c) - 1 : Tail(c)[j] = c[j + 1]
    BY <1>2, <2>0, OnEvict
  <2>2. c[1] = cache[1]
    BY <1>1, <1>2, <2>0
  <2> HIDE DEF kept
  <2>3. /\ cache' \in Seq(Nat) /\ Len(cache') = n /\ \A j \in 1 .. n : cache'[j] = c[j + 1]
    BY <1>1, <1>2, <2>1
  <2>4. \A j \in 1 .. n : IF j + 1 <= n THEN j + 1 \in 1 .. n /\ cache'[j] = cache[j + 1]
                          ELSE j = n /\ cache'[j] = entry[t]
    <3> TAKE j \in 1 .. n
    <3> HIDE DEF n
    <3>1. CASE j + 1 <= n
      <4>1. j + 1 \in 1 .. n
        BY <1>1, <3>1
      <4> QED BY <1>2, <2>3, <3>1, <4>1 DEF n
    <3>2. CASE ~ (j + 1 <= n)
      <4>1. j = n
        BY <1>1, <3>2
      <4> QED BY <1>2, <2>3, <3>2, <4>1 DEF n
    <3> QED BY <3>1, <3>2
  <2>5. at' = [at EXCEPT ![t] = "release"] /\ evicted' = [evicted EXCEPT ![t] = cache[1]]
    BY <1>1, <2>1, <2>2
  <2>6. n = n + 1 - 1
    BY <1>1
  <2> HIDE DEF n
  <2> WITNESS 1 \in {0, 1}
  <2> QED BY <1>1, <2>0, <2>3, <2>4, <2>5, <2>6 DEF n
<1> QED BY <1>3, <1>4

\* The new executor is inserted and the oldest one taken out.
LEMMA InsertKeeps ==
    ASSUME CacheInv, NEW t \in Thread, Insert(t)
    PROVE  CacheInv'
<1> DEFINE n == Len(cache)
           k == wants[t]
<1>1. /\ CacheTypeOK /\ InTurn /\ OneEach /\ StillLoaded /\ LostInTurn
      /\ at[t] = "insert" /\ building' = None /\ None \notin Thread
      /\ looked' = [Noticed(k) EXCEPT ![t] = {}]
      /\ UNCHANGED <<executors, pool, workers, wants, entry>>
  BY CacheAssumption DEF CacheInv, Insert
<1>2. /\ cache \in Seq(Nat) /\ n \in Nat /\ n <= CacheSize /\ CacheSize \in Nat \ {0}
      /\ Len(executors) \in Nat /\ \A j \in 1 .. n : cache[j] \in 1 .. Len(executors)
  BY <1>1, CacheAssumption DEF CacheTypeOK
<1>3. PICK d \in {0, 1} :
        /\ d = 1 => n = CacheSize
        /\ cache' \in Seq(Nat) /\ Len(cache') = n + 1 - d /\ Len(cache') <= CacheSize
        /\ \A j \in 1 .. Len(cache') :
              IF j + d <= n THEN j + d \in 1 .. n /\ cache'[j] = cache[j + d]
              ELSE j = Len(cache') /\ cache'[j] = entry[t]
        /\ d = 0 => at' = [at EXCEPT ![t] = "lock"] /\ UNCHANGED evicted
        /\ d = 1 => /\ at' = [at EXCEPT ![t] = "release"]
                    /\ evicted' = [evicted EXCEPT ![t] = cache[1]]
  BY OnInsert
<1> DEFINE m == Len(cache')
<1>4. m \in Nat \ {0} /\ m = n + 1 - d /\ m \in 1 .. m /\ cache'[m] = entry[t]
  BY <1>2, <1>3
<1> HIDE DEF n, m
<1>5. /\ \A j \in 1 .. m : IF j + d <= n THEN j + d \in 1 .. n /\ cache'[j] = cache[j + d]
                           ELSE j = m /\ cache'[j] = entry[t]
      /\ d \in Nat
  BY <1>3 DEF m
<1>6. /\ building = t /\ entry[t] \in 1 .. Len(executors) /\ executors[entry[t]].key = k
      /\ \A j \in 1 .. n : executors[cache[j]].key # k
      /\ evicted[t] = 0
  BY <1>1 DEF InTurn, Holding, n
<1>7. /\ at'[t] \in {"lock", "release"}
      /\ at'[t] = "release" <=> d = 1
      /\ evicted'[t] = IF d = 1 THEN cache[1] ELSE 0
      /\ \A u \in Thread \ {t} : at'[u] = at[u] /\ evicted'[u] = evicted[u]
      /\ at' \in [Thread -> Place]
  <2>1. d = 1 => cache[1] \in Nat
    BY <1>2, <1>3
  <2>2. CASE d = 0
    BY <1>1, <1>3, <1>6, <2>2 DEF CacheTypeOK, Place, Holding
  <2>3. CASE d = 1
    BY <1>1, <1>3, <2>1, <2>3 DEF CacheTypeOK, Place, Holding
  <2> QED BY <1>3, <2>2, <2>3
<1>8. d = 1 => 1 \in 1 .. n
  BY <1>2, <1>3
<1>9. /\ looked' \in [Thread -> SUBSET Key] /\ \A u \in Thread : IsFiniteSet(looked'[u])
      /\ \A u \in Thread \ {t} :
            /\ looked[u] \subseteq looked'[u]
            /\ Crowded(u) => Crowded(u)'
            /\ entry[u] = 0 => looked'[u] = looked[u]
            /\ entry[u] # 0 /\ wants[u] # k => k \in looked'[u]
  <2>1. k \in Key
    BY <1>1 DEF CacheTypeOK
  <2> QED BY <1>1, <2>1, OnNoticed
<1> HIDE DEF k
<1>10. CacheTypeOK'
  <2>1. evicted' \in [Thread -> Nat]
    <3>1. d = 1 => cache[1] \in Nat
      BY <1>2, <1>8
    <3> QED BY <1>1, <1>3, <3>1 DEF CacheTypeOK
  <2>2. \A j \in 1 .. m : cache'[j] \in 1 .. Len(executors)
    BY <1>2, <1>5, <1>6
  <2> QED BY <1>1, <1>3, <1>7, <1>9, <2>1, <2>2 DEF CacheTypeOK, m
<1>11. InTurn'
  <2> SUFFICES ASSUME NEW u \in Thread
      PROVE  /\ at'[u] \notin {"build", "insert"}
             /\ at'[u] \in Holding => entry[u] \in 1 .. Len(executors) /\ executors[entry[u]].key = wants[u]
             /\ at'[u] \notin Holding => entry[u] = 0
             /\ at'[u] = "release" => evicted'[u] \in 1 .. Len(executors)
             /\ at'[u] # "release" => evicted'[u] = 0
    BY <1>1 DEF InTurn
  <2>1. CASE u = t
    <3>1. d = 1 => cache[1] \in 1 .. Len(executors)
      BY <1>2, <1>8
    <3> QED BY <1>1, <1>3, <1>7, <2>1, <3>1 DEF InTurn, Holding
  <2>2. CASE u # t
    BY <1>1, <1>6, <1>7, <2>2 DEF InTurn
  <2> QED BY <2>1, <2>2
<1>12. OneEach'
  <2> SUFFICES ASSUME NEW i \in 1 .. m, NEW j \in 1 .. m,
                      executors[cache'[i]].key = executors[cache'[j]].key
               PROVE  i = j
    BY <1>1 DEF OneEach, m
  <2>1. CASE i + d <= n /\ j + d <= n
    <3>1. i + d \in 1 .. n /\ j + d \in 1 .. n
          /\ executors[cache[i + d]].key = executors[cache[j + d]].key
      BY <1>5, <2>1
    <3>2. i + d = j + d
      BY <1>1, <3>1 DEF OneEach, n
    <3> QED BY <1>5, <3>2
  <2>2. CASE ~ (i + d <= n) /\ ~ (j + d <= n)
    BY <1>5, <2>2
  <2>3. CASE i + d <= n /\ ~ (j + d <= n)
    BY <1>5, <1>6, <2>3
  <2>4. CASE ~ (i + d <= n) /\ j + d <= n
    BY <1>5, <1>6, <2>4
  <2> QED BY <2>1, <2>2, <2>3, <2>4
<1>13. StillLoaded'
  <2> SUFFICES ASSUME NEW e \in 1 .. Len(executors), Cached(e)'
               PROVE  executors[e].handle # 0 /\ \A u \in Thread : evicted'[u] # e
    BY <1>1 DEF StillLoaded
  <2>1. PICK j \in 1 .. m : cache'[j] = e
    <3>1. \A u \in Thread : at'[u] # "insert"
      BY <1>1, <1>6, <1>7 DEF InTurn
    <3> QED BY <3>1 DEF Cached, m
  <2>2. \/ e = entry[t]
        \/ j + d \in 1 .. n /\ e = cache[j + d]
    BY <1>5, <2>1
  <2>3. Cached(e)
    BY <1>1, <2>2 DEF Cached, n
  <2>4. executors[e].handle # 0 /\ \A u \in Thread : evicted[u] # e
    BY <1>1, <2>3 DEF StillLoaded
  <2>5. evicted'[t] # e
    <3>1. CASE d = 0
      BY <1>7, <3>1
    <3>2. CASE d = 1 /\ e = entry[t]
      BY <1>6, <1>7, <1>8, <3>2
    <3>3. CASE d = 1 /\ j + d \in 1 .. n /\ e = cache[j + d]
      <4>1. j + d # 1
        BY <3>3
      <4> QED BY <1>1, <1>7, <1>8, <3>3, <4>1 DEF OneEach, n
    <3> QED BY <2>2, <3>1, <3>2, <3>3
  <2> QED BY <1>7, <2>4, <2>5
<1>14. LostInTurn'
  <2> SUFFICES ASSUME NEW u \in Thread
               PROVE  /\ at'[u] \in {"release", "lock", "run"} => Recent(u)' \/ Crowded(u)'
                      /\ at'[u] = "unloaded" => Crowded(u)'
    BY DEF LostInTurn
  <2>1. CASE u = t
    <3>1. \A j \in 1 .. m : ~ (j > m)
      BY <1>4
    <3>2. Recent(t)'
      BY <1>1, <1>4, <3>1 DEF Recent, m
    <3> QED BY <1>7, <2>1, <3>2
  <2>2. CASE u # t /\ Crowded(u)
    BY <1>9, <2>2
  <2>3. CASE u # t /\ ~ Crowded(u)
    <3>1. at'[u] = at[u] /\ at[u] # "unloaded"
      BY <1>1, <1>7, <2>3 DEF LostInTurn
    <3> SUFFICES ASSUME at[u] \in {"release", "lock", "run"} PROVE Recent(u)' \/ Crowded(u)'
      BY <3>1
    <3>2. PICK p \in 1 .. n : /\ cache[p] = entry[u]
                              /\ \A j \in 1 .. n : j > p => executors[cache[j]].key \in looked[u]
      BY <1>1, <2>3 DEF LostInTurn, Recent, n
    <3>3. entry[u] # 0 /\ executors[entry[u]].key = wants[u]
      BY <1>1 DEF InTurn, Holding
    <3>4. wants[u] # k
      BY <1>6, <3>2, <3>3
    <3>5. looked[u] \subseteq looked'[u] /\ k \in looked'[u]
      BY <1>9, <2>3, <3>3, <3>4
    <3>6. ASSUME NEW j \in 1 .. m, j + d > p PROVE executors[cache'[j]].key \in looked'[u]
      <4>1. CASE j + d <= n
        BY <1>5, <3>2, <3>5, <3>6, <4>1
      <4>2. CASE ~ (j + d <= n)
        BY <1>5, <1>6, <3>5, <4>2
      <4> QED BY <4>1, <4>2
    <3>7. CASE p > d
      <4>1. p - d \in 1 .. m /\ p - d + d = p /\ p - d + d <= n
        BY <1>3, <1>4, <1>2, <3>7
      <4>2. cache'[p - d] = entry[u]
        BY <1>5, <3>2, <4>1
      <4>3. \A j \in 1 .. m : j > p - d => executors[cache'[j]].key \in looked'[u]
        BY <1>5, <3>6
      <4>4. Recent(u)'
        BY <1>1, <4>1, <4>2, <4>3 DEF Recent, m
      <4> QED BY <4>4
    <3>8. CASE ~ (p > d)
      <4>1. p = 1 /\ d = 1
        BY <1>2, <3>8
      <4>0. m = CacheSize
        BY <1>2, <1>3, <1>4, <4>1
      <4>2. \A j \in 1 .. CacheSize : executors[cache'[j]].key \in looked'[u]
        BY <3>6, <4>0, <4>1
      <4>3. \A i \in 1 .. CacheSize, j \in 1 .. CacheSize :
               executors[cache'[i]].key = executors[cache'[j]].key => i = j
        BY <1>1, <1>12, <4>0 DEF OneEach, m
      <4> DEFINE f == [j \in 1 .. CacheSize |-> executors[cache'[j]].key]
      <4>4. f \in Injection(1 .. CacheSize, looked'[u])
        BY <4>2, <4>3 DEF Injection, IsInjective
      <4>5. Cardinality(1 .. CacheSize) = CacheSize
        <5>1. 1 \in Int /\ CacheSize \in Int /\ ~ (1 > CacheSize) /\ CacheSize - 1 + 1 = CacheSize
          BY <1>2
        <5> QED BY <5>1, FS_Interval
      <4>6. IsFiniteSet(looked'[u])
        BY <1>9
      <4> HIDE DEF f
      <4>7. CacheSize <= Cardinality(looked'[u]) /\ Cardinality(looked'[u]) \in Nat
        BY <4>4, <4>5, <4>6, FS_Injection, FS_CardinalityType
      <4> QED BY <1>2, <4>7 DEF Crowded
    <3> QED BY <1>5, <3>7, <3>8
  <2> QED BY <2>1, <2>2, <2>3
<1> QED BY <1>10, <1>11, <1>12, <1>13, <1>14 DEF CacheInv

\* A request that has looked its executor up finds it unloaded only when as many
\* other keys as the cache has room for were looked up before it ran.
THEOREM LostOnlyWhenCrowded == CacheSpec => []LostToOthersOnly
<1>1. CacheInit => CacheInv
  <2> SUFFICES ASSUME CacheInit PROVE CacheInv
    OBVIOUS
  <2>1. CacheTypeOK
    BY FS_EmptySet, CacheAssumption DEF CacheInit, CacheTypeOK, Key, Place
  <2>2. /\ \A e \in 1 .. Len(executors) : FALSE
        /\ \A i \in 1 .. Len(cache) : FALSE
    BY DEF CacheInit
  <2>3. InTurn
    BY <2>2, CacheAssumption DEF CacheInit, InTurn, Holding
  <2>4. OneEach /\ StillLoaded
    BY <2>2 DEF OneEach, StillLoaded
  <2>5. LostInTurn
    BY DEF CacheInit, LostInTurn
  <2> QED BY <2>1, <2>3, <2>4, <2>5 DEF CacheInv
<1>2. CacheInv /\ [CacheNext]_cacheVars => CacheInv'
  <2> SUFFICES ASSUME CacheInv, [CacheNext]_cacheVars PROVE CacheInv'
    OBVIOUS
  <2>1. CASE UNCHANGED cacheVars
    BY <2>1 DEF cacheVars, CacheInv, CacheTypeOK, InTurn, OneEach, StillLoaded, Cached,
                LostInTurn, Recent, Crowded
  <2> QED BY <2>1, RequestKeeps, LookUpKeeps, LoadKeeps, LoadFailsKeeps, InsertKeeps,
             ReleaseKeeps, LockKeeps, RunKeeps DEF CacheNext, CacheStep
<1>3. CacheInv => LostToOthersOnly
  BY DEF CacheInv, LostInTurn, Crowded, LostToOthersOnly
<1> QED BY <1>1, <1>2, <1>3, PTL DEF CacheSpec

-------------------------------------------------------------------------------
(* The token-window stream.  What the client has heard and what waits for  *)
(* it in the output queue make one line of sounds.                         *)

Note == {TOKEN, STOP, END, ERROR}
Item == Nat \X Nat

Line == played \o out

Faulty == \E k \in DOMAIN Line : Line[k] = ERROR

\* How far the segment at hand is sounded.
Edge == IF context THEN prefix ELSE until

Over == decoder \in {"ending", "done"}

TokenTypeInv ==
    /\ context \in BOOLEAN /\ streamed \in BOOLEAN
    /\ seg \in Segment
    /\ speaker \in [Segment -> {"none", "run", "ending", "ended"}]
    /\ said \in [Segment -> 0 .. MaxTokens]
    /\ tokenq \in [Segment -> Seq(Note)]
    /\ batch \in Nat /\ prefix \in Nat /\ until \in Nat
    /\ decoder \in {"start", "batch", "segment", "failed", "ending", "done"}
    /\ client \in {"reading", "ended", "error", "gone"}
    /\ out \in Seq(Item) /\ played \in Seq(Item)

\* A segment the worker has not begun has no thread and no token.
Unbegun ==
    /\ ~ streamed => \A s \in Segment : speaker[s] = "none"
    /\ \A s \in Segment : s > seg \/ (s = seg /\ decoder = "start")
          => speaker[s] = "none" /\ said[s] = 0 /\ tokenq[s] = << >>

\* Nothing more is said in a segment the worker is through with.
Behind ==
    /\ \A s \in Segment : s < seg => ~ MayGoOn(s)
    /\ decoder = "segment" => ~ MayGoOn(seg) /\ prefix = said[seg]

\* What is decoded was said, and what is sounded was decoded.
Decoded ==
    /\ decoder # "start" => until <= prefix /\ prefix <= said[seg]
    /\ decoder = "batch" /\ ~ streamed => prefix = said[seg]

\* The tokens come first in the queue: those that were said and are neither
\* decoded nor in the batch; behind them come only the marks of an end.
Ahead == said[seg] - prefix - batch

QueueInv ==
    decoder = "batch" /\ streamed =>
        /\ Ahead \in 0 .. Len(tokenq[seg])
        /\ \A k \in DOMAIN tokenq[seg] : tokenq[seg][k] = TOKEN <=> k <= Ahead
        /\ speaker[seg] = "run" => Ahead = Len(tokenq[seg])

WorkerInv == TokenTypeInv /\ Unbegun /\ Behind /\ Decoded /\ QueueInv

Ascending(l) ==
    \A j, k \in DOMAIN l : j < k /\ l[j][1] # 0 /\ l[k][1] # 0 => Before(l[j], l[k])

Bound(s) ==
    IF s < seg \/ Over THEN said[s] ELSE IF s = seg /\ decoder # "start" THEN Edge ELSE 0

Sounded(x) == \E s \in Segment : \E i \in 1 .. Bound(s) : x = <<s, i>>

\* What is in the line: sounds of tokens that were sounded, an error mark once the
\* worker gave up, and the end last.
LineHolds ==
    \A k \in DOMAIN Line :
        \/ Line[k] = END /\ k = Len(Line) /\ decoder = "done"
        \/ Line[k] = ERROR /\ Over
        \/ Sounded(Line[k])

\* What must be in it: every token up to the edge, and all when the worker is done
\* and did not fail.
Owed(s, i) ==
    \/ s < seg
    \/ s = seg /\ decoder # "start" /\ i <= Edge
    \/ Over /\ ~ Faulty

LineCovers ==
    \A s \in Segment, i \in 1 .. MaxTokens :
        i <= said[s] /\ Owed(s, i) => \E k \in DOMAIN Line : Line[k] = <<s, i>>

LineInv ==
    /\ Ascending(Line) /\ LineHolds /\ LineCovers
    /\ \A k \in DOMAIN played : played[k][1] # 0
    /\ Over /\ ~ Faulty => \A s \in Segment : ~ MayGoOn(s)

TokenInv ==
    /\ WorkerInv
    /\ client = "reading" => LineInv
    /\ client = "ended" =>
          EverythingSpoken /\ decoder = "done" /\ \A s \in Segment : ~ MayGoOn(s)

\* The least and the greatest of two numbers.
LEMMA OfTwo ==
    ASSUME NEW a \in Nat, NEW b \in Nat
    PROVE  /\ Min({a, b}) \in {a, b} /\ Min({a, b}) <= a /\ Min({a, b}) <= b
           /\ Max({a, b}) \in {a, b} /\ Max({a, b}) >= a /\ Max({a, b}) >= b
<1>1. \E x \in {a, b} : \A y \in {a, b} : x <= y
  OBVIOUS
<1>2. Min({a, b}) \in {a, b} /\ \A y \in {a, b} : Min({a, b}) <= y
  BY <1>1 DEF Min
<1>3. \E x \in {a, b} : \A y \in {a, b} : x >= y
  OBVIOUS
<1>4. Max({a, b}) \in {a, b} /\ \A y \in {a, b} : Max({a, b}) >= y
  BY <1>3 DEF Max
<1> QED
  BY <1>2, <1>4

\* Nothing is sounded twice, or before it is decoded.
LEMMA SafeBetween ==
    ASSUME until \in Nat, NEW size \in Nat, until <= size, NEW final \in BOOLEAN
    PROVE  Safe(size, final) \in Nat /\ until <= Safe(size, final) /\ Safe(size, final) <= size
<1>1. size \div 3 \in Nat /\ size \div 3 <= size
  OBVIOUS
<1>2. OverlapTokens \in Nat
  BY TokenAssumption
<1> DEFINE held == Min({OverlapTokens, size \div 3})
<1>3. held \in Nat /\ held <= size
  BY <1>1, <1>2, OfTwo
<1>4. size - held \in Nat /\ size - held <= size
  BY <1>3
<1>5. /\ Max({until, size - held}) \in {until, size - held}
      /\ Max({until, size - held}) >= until
  BY <1>4, OfTwo
<1> QED
  BY <1>4, <1>5 DEF Safe

\* the sounds from one token to another, if there are any
Part(from, to) == IF to > from THEN Sounds(from, to) ELSE << >>

\* A decode fails, or it sounds what is new of the segment up to a point.
Sounding(size) ==
    /\ prefix' = size /\ size \in Nat /\ until' \in Nat /\ until' <= size
    /\ \E to \in Nat : Edge <= to /\ to <= size /\ Edge' = to /\ out' = out \o Part(Edge, to)

\* What a decode comes to.
LEMMA DecodeEffect ==
    ASSUME TokenTypeInv, until <= prefix, context' = context,
           NEW new \in Nat, NEW final \in BOOLEAN, Decode(new, final)
    PROVE  \/ decoder' = "failed" /\ UNCHANGED <<prefix, until, out>>
           \/ /\ Sounding(prefix + new)
              /\ decoder' = IF final \/ prefix + new >= MaxTokens THEN "segment" ELSE "batch"
<1> DEFINE size == prefix + new
           last == final \/ size >= MaxTokens
           to == IF context THEN size ELSE Safe(size, last)
<1>1. prefix \in Nat /\ until \in Nat /\ size \in Nat /\ until <= size /\ prefix <= size
      /\ last \in BOOLEAN
  BY DEF TokenTypeInv
<1>2. to \in Nat /\ Edge <= to /\ to <= size
  <2>1. CASE context
    BY <1>1, <2>1 DEF Edge
  <2>2. CASE ~ context
    <3>1. Safe(size, last) \in Nat /\ until <= Safe(size, last) /\ Safe(size, last) <= size
      BY ONLY <1>1, SafeBetween
    <3> QED
      BY <2>2, <3>1 DEF Edge
  <2> QED
    BY <2>1, <2>2
<1>3. CASE decoder' = "failed" /\ UNCHANGED <<prefix, until, out>>
  BY <1>3
<1>4. CASE /\ prefix' = size /\ until' = IF context THEN until ELSE to
           /\ out' = out \o Part(Edge, to)
           /\ decoder' = IF last THEN "segment" ELSE "batch"
  <2>1. Edge' = to
    BY <1>4 DEF Edge
  <2>2. until' \in Nat /\ until' <= size
    BY <1>1, <1>2, <1>4
  <2> HIDE DEF to
  <2> QED
    BY <1>2, <1>4, <2>1, <2>2 DEF Sounding
<1> QED
  BY <1>3, <1>4 DEF Decode, Part, Edge

\* A line has no sound beyond the one given of the segment at hand.
UpTo(l, from) == \A k \in DOMAIN l : l[k][1] <= seg /\ (l[k][1] = seg => l[k][2] <= from)

\* A line is another one and the sounds of the segment at hand between the two given.
GrownBy(l, m, from, to) ==
    /\ \A k \in DOMAIN l : k \in DOMAIN m /\ m[k] = l[k]
    /\ \A k \in DOMAIN m : \/ k \in DOMAIN l /\ m[k] = l[k]
                           \/ \E i \in from + 1 .. to : m[k] = <<seg, i>>
    /\ \A i \in from + 1 .. to : \E k \in DOMAIN m : m[k] = <<seg, i>>

\* Sounds of a segment put behind those before them stay in order.
LEMMA PartBehind ==
    ASSUME NEW l \in Seq(Item), Ascending(l), seg \in Nat \ {0},
           NEW from \in Nat, NEW to \in Nat, from <= to,
           UpTo(l, from), NEW m, m = l \o Part(from, to)
    PROVE  Ascending(m) /\ GrownBy(l, m, from, to)
<1> DEFINE part == Part(from, to)
           n == Len(l)
<1>1. /\ part \in Seq(Item) /\ Len(part) = to - from
      /\ \A k \in 1 .. to - from : part[k] = <<seg, from + k>>
  <2>1. CASE to > from
    BY <2>1 DEF Part, Sounds, Item
  <2>2. CASE to = from
    BY <2>2 DEF Part
  <2> QED
    BY <2>1, <2>2
<1>2. n \in Nat /\ DOMAIN l = 1 .. n /\ \A k \in 1 .. n : l[k][1] \in Nat /\ l[k][2] \in Nat
  BY DEF Item
<1>0. m = l \o part
  OBVIOUS
<1> HIDE DEF part
<1>3. /\ m \in Seq(Item) /\ Len(m) = n + (to - from) /\ DOMAIN m = 1 .. n + (to - from)
      /\ \A k \in 1 .. n + (to - from) : m[k] = IF k <= n THEN l[k] ELSE part[k - n]
  <2>1. /\ m \in Seq(Item) /\ Len(m) = Len(l) + Len(part)
        /\ \A k \in 1 .. Len(l) + Len(part) :
              m[k] = IF k <= Len(l) THEN l[k] ELSE part[k - Len(l)]
    BY ONLY <1>0, <1>1, l \in Seq(Item), ConcatProperties
  <2> QED
    BY <1>1, <1>2, <2>1
<1> HIDE DEF n
<1>10. \A k \in 1 .. n : k \in DOMAIN l /\ k \in DOMAIN m /\ m[k] = l[k]
  BY <1>2, <1>3
<1>4. ASSUME NEW k \in n + 1 .. n + (to - from)
      PROVE  k \in DOMAIN m /\ from + (k - n) \in from + 1 .. to /\ m[k] = <<seg, from + (k - n)>>
  <2>1. k - n \in 1 .. to - from /\ k \in 1 .. n + (to - from) /\ ~ (k <= n)
    BY <1>2
  <2>2. m[k] = part[k - n]
    BY <1>3, <2>1
  <2> QED
    BY <1>1, <1>2, <1>3, <2>1, <2>2
<1>5. ASSUME NEW k \in DOMAIN m
      PROVE  \/ k \in DOMAIN l /\ m[k] = l[k]
             \/ \E i \in from + 1 .. to : m[k] = <<seg, i>>
  <2>1. k \in 1 .. n \/ k \in n + 1 .. n + (to - from)
    BY <1>2, <1>3
  <2> QED
    BY <1>4, <1>10, <2>1
<1>6. \A i \in from + 1 .. to : \E k \in DOMAIN m : m[k] = <<seg, i>>
  <2> SUFFICES ASSUME NEW i \in from + 1 .. to
               PROVE  \E k \in DOMAIN m : m[k] = <<seg, i>>
    OBVIOUS
  <2>1. /\ n + (i - from) \in n + 1 .. n + (to - from)
        /\ from + ((n + (i - from)) - n) = i
    BY <1>2
  <2>2. PICK k \in n + 1 .. n + (to - from) : from + (k - n) = i
    BY <2>1
  <2>3. m[k] = <<seg, i>> /\ k \in DOMAIN m
    BY <1>4, <2>2
  <2> QED
    BY <2>3
<1>7. Ascending(m)
  <2> SUFFICES ASSUME NEW j \in DOMAIN m, NEW k \in DOMAIN m,
                      j < k, m[j][1] # 0, m[k][1] # 0
               PROVE  Before(m[j], m[k])
    BY DEF Ascending
  <2>1. CASE k \in 1 .. n
    <3>1. j \in DOMAIN l /\ k \in DOMAIN l /\ m[j] = l[j] /\ m[k] = l[k]
      <4>1. j \in 1 .. n
        BY <1>2, <1>3, <2>1
      <4> QED
        BY <1>10, <2>1, <4>1
    <3> QED
      BY <3>1 DEF Ascending
  <2>2. CASE j \in 1 .. n /\ k \in n + 1 .. n + (to - from)
    <3>1. m[j] = l[j] /\ l[j][1] <= seg /\ (l[j][1] = seg => l[j][2] <= from)
      BY <1>10, <2>2 DEF UpTo
    <3>2. m[k][1] = seg /\ m[k][2] = from + (k - n) /\ from + (k - n) > from
      <4>1. m[k] = <<seg, from + (k - n)>> /\ from + (k - n) \in from + 1 .. to
        BY <1>4, <2>2
      <4> QED
        BY <4>1
    <3>3. l[j][1] \in Nat /\ l[j][2] \in Nat /\ from + (k - n) \in Nat
      BY <1>2, <2>2, SMTT(30)
    <3>4. l[j][1] < seg \/ (l[j][1] = seg /\ l[j][2] < from + (k - n))
      BY <3>1, <3>2, <3>3, SMTT(30)
    <3> QED
      BY <3>1, <3>2, <3>4 DEF Before
  <2>3. CASE j \in n + 1 .. n + (to - from) /\ k \in n + 1 .. n + (to - from)
    <3>1. /\ m[j][1] = seg /\ m[j][2] = from + (j - n)
          /\ m[k][1] = seg /\ m[k][2] = from + (k - n)
          /\ from + (j - n) < from + (k - n)
      <4>1. m[k] = <<seg, from + (k - n)>> /\ m[j] = <<seg, from + (j - n)>>
        BY <1>4, <2>3
      <4> QED
        BY <1>2, <2>3, <4>1
    <3> QED
      BY <3>1 DEF Before
  <2>4. \/ k \in 1 .. n
        \/ j \in 1 .. n /\ k \in n + 1 .. n + (to - from)
        \/ j \in n + 1 .. n + (to - from) /\ k \in n + 1 .. n + (to - from)
    <3>1. n \in Nat /\ j \in 1 .. n + (to - from) /\ k \in 1 .. n + (to - from) /\ j < k
      BY <1>2, <1>3
    <3> QED
      BY ONLY <3>1, from \in Nat, to \in Nat
  <2> QED
    BY <2>1, <2>2, <2>3, <2>4
<1>8. \A k \in DOMAIN l : k \in DOMAIN m /\ m[k] = l[k]
  BY <1>2, <1>10
<1> QED
  BY ONLY <1>5, <1>6, <1>7, <1>8 DEF GrownBy

\* The bounds are numbers.
LEMMA BoundType ==
    ASSUME NEW s \in Segment
    PROVE  /\ TokenTypeInv => Bound(s) \in Nat /\ Edge \in Nat
           /\ TokenTypeInv' => Bound(s)' \in Nat /\ Edge' \in Nat
  BY DEF TokenTypeInv, Bound, Edge

\* The line holds words of the worker, each of two numbers.
LEMMA LineType ==
    ASSUME TokenTypeInv
    PROVE  Line \in Seq(Item) /\ Len(Line) = Len(played) + Len(out)
           /\ (\A k \in 1 .. Len(played) : Line[k] = played[k])
           /\ (\A k \in 1 .. Len(out) : Line[Len(played) + k] = out[k])
  BY DEF TokenTypeInv, Line

\* A step that leaves the line alone: nothing becomes due that was not.
LEMMA LineStays ==
    ASSUME TokenTypeInv, TokenTypeInv', LineInv, Line' = Line,
           \A k \in DOMAIN played' : played'[k][1] # 0,
           \A s \in Segment : Bound(s) <= Bound(s)',
           Over => Over', decoder = "done" => decoder' = "done",
           \A s \in Segment, i \in 1 .. MaxTokens :
              i <= said'[s] /\ Owed(s, i)' => i <= said[s] /\ Owed(s, i),
           Over' /\ ~ Faulty' => \A s \in Segment : ~ MayGoOn(s)'
    PROVE  LineInv'
<1>1. Ascending(Line)'
  BY DEF LineInv, Ascending
<1>2. LineHolds'
  <2> SUFFICES ASSUME NEW k \in DOMAIN Line
               PROVE  \/ Line[k] = END /\ k = Len(Line) /\ decoder' = "done"
                      \/ Line[k] = ERROR /\ Over'
                      \/ Sounded(Line[k])'
    BY DEF LineHolds
  <2>1. CASE Sounded(Line[k])
    <3>1. PICK s \in Segment : \E i \in 1 .. Bound(s) : Line[k] = <<s, i>>
      BY <2>1 DEF Sounded
    <3>2. PICK i \in 1 .. Bound(s) : Line[k] = <<s, i>>
      BY <3>1
    <3>3. i \in 1 .. Bound(s)'
      BY BoundType
    <3>4. (Line[k])' = <<s, i>>
      BY <3>2
    <3> QED
      BY <3>3, <3>4 DEF Sounded
  <2> QED
    BY <2>1 DEF LineInv, LineHolds
<1>3. LineCovers'
  BY DEF LineInv, LineCovers
<1> QED
  BY <1>1, <1>2, <1>3 DEF LineInv

\* What is put behind the output queue is put behind the line.
LEMMA Associative ==
    ASSUME NEW S, NEW a \in Seq(S), NEW b \in Seq(S), NEW c \in Seq(S)
    PROVE  a \o (b \o c) = (a \o b) \o c
  BY ConcatAssociative

\* A step that sounds a part of the segment at hand.
LEMMA LineGrows ==
    ASSUME TokenTypeInv, TokenTypeInv', LineInv, ~ Over, decoder # "start",
           NEW to \in Nat, Edge <= to, out' = out \o Part(Edge, to), played' = played,
           \A s \in Segment : Bound(s) <= Bound(s)' /\ (s = seg => to <= Bound(s)'),
           \A s \in Segment, i \in 1 .. MaxTokens :
              i <= said'[s] /\ Owed(s, i)'
                 => \/ i <= said[s] /\ Owed(s, i)
                    \/ s = seg /\ i \in Edge + 1 .. to,
           Over' /\ ~ Faulty' => \A s \in Segment : ~ MayGoOn(s)'
    PROVE  LineInv'
<1> DEFINE from == Edge
           m == Line \o Part(from, to)
<1>0. seg \in Segment /\ seg \in Nat \ {0} /\ Segment \subseteq Nat
  <2>1. seg \in Segment
    BY DEF TokenTypeInv
  <2>2. Segment \subseteq Nat \ {0}
    BY TokenAssumption DEF Segment
  <2> QED
    BY <2>1, <2>2
<1>1. /\ seg \in Segment /\ seg \in Nat \ {0} /\ Segment \subseteq Nat
      /\ from \in Nat /\ Line \in Seq(Item)
      /\ \A s \in Segment : Bound(s) \in Nat /\ Bound(s)' \in Nat
  BY <1>0, BoundType, LineType
<1>2. \A k \in DOMAIN Line : Sounded(Line[k])
  BY DEF LineInv, LineHolds, Over
<1>3. \A s \in Segment : /\ s > seg => Bound(s) = 0
                         /\ s = seg => Bound(s) = from
  BY <1>1 DEF Bound
<1>4. UpTo(Line, from)
  <2> SUFFICES ASSUME NEW k \in DOMAIN Line
               PROVE  Line[k][1] <= seg /\ (Line[k][1] = seg => Line[k][2] <= from)
    BY DEF UpTo
  <2>1. PICK s \in Segment : \E i \in 1 .. Bound(s) : Line[k] = <<s, i>>
    BY <1>2 DEF Sounded
  <2>2. PICK i \in 1 .. Bound(s) : Line[k] = <<s, i>>
    BY <2>1
  <2>3. s <= seg /\ (s = seg => i <= from)
    BY <1>1, <1>3
  <2> QED
    BY <2>2, <2>3
<1>5. Line' = m
  <2>1. /\ played \in Seq(Item) /\ out \in Seq(Item)
        /\ Part(from, to) \in Seq(Item)
    <3>1. Part(from, to) \in Seq(Item)
      <4>1. CASE to > from
        BY <1>1, <4>1 DEF Part, Sounds, Item
      <4>2. CASE ~ (to > from)
        BY <4>2 DEF Part
      <4> QED
        BY <4>1, <4>2
    <3> QED
      BY <3>1 DEF TokenTypeInv
  <2> HIDE DEF from
  <2>2. played \o (out \o Part(from, to)) = (played \o out) \o Part(from, to)
    BY ONLY <2>1, Associative
  <2> QED
    BY <2>2 DEF Line, from
<1>6. /\ Ascending(m)
      /\ \A k \in DOMAIN Line : k \in DOMAIN m /\ m[k] = Line[k]
      /\ \A k \in DOMAIN m : \/ k \in DOMAIN Line /\ m[k] = Line[k]
                             \/ \E i \in from + 1 .. to : m[k] = <<seg, i>>
      /\ \A i \in from + 1 .. to : \E k \in DOMAIN m : m[k] = <<seg, i>>
  <2>1. Ascending(Line) /\ from <= to
    BY DEF LineInv
  <2> HIDE DEF from, m
  <2>2. seg \in Nat \ {0} /\ from \in Nat /\ Line \in Seq(Item) /\ m = Line \o Part(from, to)
    BY <1>1 DEF m
  <2>3. Ascending(m) /\ GrownBy(Line, m, from, to)
    BY ONLY <1>4, <2>1, <2>2, to \in Nat, PartBehind
  <2> QED
    BY <2>3 DEF GrownBy
<1> HIDE DEF m, from
<1>7. Ascending(Line)'
  BY <1>5, <1>6 DEF Ascending
<1>8. LineHolds'
  <2>1. ASSUME NEW s \in Segment, NEW i \in 1 .. Bound(s)', NEW k, Line'[k] = <<s, i>>
        PROVE  Sounded(Line[k])'
    BY <2>1 DEF Sounded
  <2>2. ASSUME NEW k \in DOMAIN Line, m[k] = Line[k]
        PROVE  Sounded(Line[k])'
    <3>1. PICK s \in Segment : \E i \in 1 .. Bound(s) : Line[k] = <<s, i>>
      BY <1>2, <2>2 DEF Sounded
    <3>2. PICK i \in 1 .. Bound(s) : Line[k] = <<s, i>>
      BY <3>1
    <3>3. i \in 1 .. Bound(s)'
      BY <1>1
    <3>4. Line'[k] = <<s, i>>
      BY <1>5, <2>2, <3>2
    <3> QED
      BY <2>1, <3>3, <3>4
  <2>3. ASSUME NEW k, NEW i \in from + 1 .. to, m[k] = <<seg, i>>
        PROVE  Sounded(Line[k])'
    <3>1. ASSUME NEW s \in Segment, s = seg
          PROVE  Sounded(Line[k])'
      <4>1. to <= Bound(s)' /\ Bound(s)' \in Nat
        BY <1>1, <3>1
      <4>2. i \in 1 .. Bound(s)'
        BY <1>1, <4>1
      <4>3. Line'[k] = <<s, i>>
        BY <1>5, <2>3, <3>1
      <4> QED
        BY <2>1, <4>2, <4>3
    <3> QED
      BY <1>1, <3>1
  <2>4. \A k \in DOMAIN Line' : Sounded(Line[k])'
    BY <1>5, <1>6, <2>2, <2>3
  <2> QED
    BY <2>4 DEF LineHolds
<1>9. LineCovers'
  <2> SUFFICES ASSUME NEW s \in Segment, NEW i \in 1 .. MaxTokens, i <= said'[s], Owed(s, i)'
               PROVE  \E k \in DOMAIN m : m[k] = <<s, i>>
    BY <1>5 DEF LineCovers
  <2>1. CASE i <= said[s] /\ Owed(s, i)
    <3>1. PICK k \in DOMAIN Line : Line[k] = <<s, i>>
      BY <2>1 DEF LineInv, LineCovers
    <3> QED
      BY <1>6, <3>1
  <2>2. CASE s = seg /\ i \in from + 1 .. to
    BY <1>6, <2>2
  <2> QED
    BY <2>1, <2>2 DEF from
<1> QED
  BY <1>7, <1>8, <1>9 DEF LineInv

\* What is sounded of the segment at hand was said.
LEMMA EdgeSaid ==
    ASSUME TokenTypeInv, Decoded
    PROVE  /\ seg \in Nat /\ Segment \subseteq Nat /\ Edge \in Nat /\ said[seg] \in 0 .. MaxTokens
           /\ \A s \in Segment : said[s] \in 0 .. MaxTokens
           /\ decoder # "start" => Edge <= prefix /\ Edge <= said[seg]
<1>1. /\ seg \in Segment /\ said \in [Segment -> 0 .. MaxTokens] /\ context \in BOOLEAN
      /\ prefix \in Nat /\ until \in Nat
      /\ decoder # "start" => until <= prefix /\ prefix <= said[seg]
  BY DEF TokenTypeInv, Decoded
<1>2. Segment \subseteq Nat
  BY TokenAssumption DEF Segment
<1>3. MaxTokens \in Nat
  BY TokenAssumption
<1>4. Edge = prefix \/ Edge = until
  BY DEF Edge
<1> QED
  BY <1>1, <1>2, <1>3, <1>4

\* Only the segment at hand gets new tokens in a step of the worker.
SaidHere ==
    /\ \A s \in Segment : s # seg => said'[s] = said[s]
    /\ said[seg] <= said'[seg]

\* A step of the worker in a segment that sounds nothing.
LEMMA LineRests ==
    ASSUME TokenTypeInv, TokenTypeInv', Decoded, LineInv, SaidHere,
           decoder \in {"batch", "segment", "failed"},
           decoder' \in {"batch", "segment", "failed"},
           UNCHANGED <<context, seg, prefix, until, out, played>>
    PROVE  LineInv'
<1>1. Edge' = Edge /\ Line' = Line /\ seg' = seg /\ played' = played
  BY DEF Edge, Line
<1>2. ~ Over /\ ~ Over' /\ decoder # "start" /\ decoder' # "start"
  BY DEF Over
<1>3. \A s \in Segment : Bound(s)' = Bound(s)
  <2> SUFFICES ASSUME NEW s \in Segment
               PROVE  Bound(s)' = Bound(s)
    OBVIOUS
  <2>1. s < seg => said'[s] = said[s]
    BY EdgeSaid DEF SaidHere
  <2> QED
    BY <1>1, <1>2, <2>1 DEF Bound
<1>4. ASSUME NEW s \in Segment, NEW i \in 1 .. MaxTokens, i <= said'[s], Owed(s, i)'
      PROVE  i <= said[s] /\ Owed(s, i)
  <2>1. s < seg \/ (s = seg /\ i <= Edge)
    BY <1>1, <1>2, <1>4 DEF Owed
  <2>2. CASE s < seg
    BY <1>4, <2>2, EdgeSaid DEF Owed, SaidHere
  <2>3. CASE s = seg /\ i <= Edge
    BY <1>2, <2>3, EdgeSaid DEF Owed
  <2> QED
    BY <2>1, <2>2, <2>3
<1>5. \A k \in DOMAIN played' : played'[k][1] # 0
  BY <1>1 DEF LineInv
<1>6. \A s \in Segment : Bound(s) <= Bound(s)'
  <2>1. \A s \in Segment : Bound(s) \in Nat
    BY BoundType
  <2> QED
    BY <1>3, <2>1
<1>8. decoder # "done"
  OBVIOUS
<1> QED
  BY ONLY TokenTypeInv, TokenTypeInv', LineInv, <1>1, <1>2, <1>4, <1>5, <1>6, <1>8, LineStays

\* A step of the worker that sounds what it decoded.
LEMMA LineSounds ==
    ASSUME TokenTypeInv, TokenTypeInv', Decoded, LineInv, SaidHere, decoder = "batch",
           decoder' \in {"batch", "segment"}, NEW size \in Nat, Sounding(size), size <= said'[seg],
           UNCHANGED <<context, seg, played>>
    PROVE  LineInv'
<1>1. PICK to \in Nat : /\ Edge <= to /\ to <= size /\ Edge' = to
                        /\ out' = out \o Part(Edge, to)
  BY DEF Sounding
<1>2. ~ Over /\ ~ Over' /\ decoder # "start" /\ decoder' # "start" /\ seg' = seg
  BY DEF Over
<1>3. ASSUME NEW s \in Segment
      PROVE  Bound(s) <= Bound(s)' /\ (s = seg => to <= Bound(s)')
  <2>1. Bound(s) \in Nat /\ seg \in Nat /\ s \in Nat
    BY BoundType, EdgeSaid
  <2>2. CASE s < seg
    BY <1>2, <2>1, <2>2 DEF Bound, SaidHere
  <2>3. CASE s = seg
    BY <1>1, <1>2, <2>1, <2>3 DEF Bound
  <2>4. CASE s > seg
    BY <1>2, <2>1, <2>4 DEF Bound
  <2> QED
    BY <2>1, <2>2, <2>3, <2>4
<1>4. ASSUME NEW s \in Segment, NEW i \in 1 .. MaxTokens, i <= said'[s], Owed(s, i)'
      PROVE  \/ i <= said[s] /\ Owed(s, i)
             \/ s = seg /\ i \in Edge + 1 .. to
  <2>1. s < seg \/ (s = seg /\ i <= to)
    BY <1>1, <1>2, <1>4 DEF Owed
  <2>2. CASE s < seg
    BY <1>4, <2>2, EdgeSaid DEF Owed, SaidHere
  <2>3. CASE s = seg /\ i <= Edge
    BY <1>2, <2>3, EdgeSaid DEF Owed
  <2>4. CASE s = seg /\ i <= to /\ ~ (i <= Edge)
    BY <1>1, <2>4, EdgeSaid
  <2> QED
    BY <2>1, <2>2, <2>3, <2>4
<1> QED
  BY ONLY TokenTypeInv, TokenTypeInv', LineInv, <1>1, <1>2, <1>3, <1>4, played' = played, LineGrows

\* A thread that has ended generating never says a token again.
LEMMA GenerateShape ==
    ASSUME TokenTypeInv, NEW s \in Segment, Generate(s)
    PROVE  /\ UNCHANGED <<context, streamed, seg, batch, first, prefix, until, decoder, fault,
                          out, played, client>>
           /\ \A t \in Segment : t # s => /\ speaker'[t] = speaker[t] /\ said'[t] = said[t]
                                          /\ tokenq'[t] = tokenq[t]
           /\ speaker[s] \in {"run", "ending"} /\ speaker' \in [Segment -> {"none", "run", "ending", "ended"}]
           /\ said' \in [Segment -> 0 .. MaxTokens] /\ tokenq' \in [Segment -> Seq(Note)]
           /\ \/ /\ MayGoOn(s) /\ said'[s] = said[s] + 1 /\ speaker'[s] = "run"
                 /\ tokenq'[s] = Append(tokenq[s], TOKEN)
              \/ /\ said'[s] = said[s] /\ speaker'[s] \in {"ending", "ended"}
                 /\ \E mark \in {STOP, END, ERROR} : tokenq'[s] = Append(tokenq[s], mark)
<1> USE DEF TokenTypeInv
<1>1. MaxTokens \in Nat
  BY TokenAssumption
<1>2. ASSUME NEW token \in Note, NEW next \in {"run", "ending", "ended"}, Speak(s, token, next)
      PROVE  /\ UNCHANGED <<context, streamed, seg, batch, first, prefix, until, decoder, fault,
                            out, played, client>>
             /\ tokenq'[s] = Append(tokenq[s], token) /\ speaker'[s] = next
             /\ \A t \in Segment : t # s => speaker'[t] = speaker[t] /\ tokenq'[t] = tokenq[t]
             /\ speaker' \in [Segment -> {"none", "run", "ending", "ended"}]
             /\ tokenq' \in [Segment -> Seq(Note)]
  <2>1. tokenq[s] \in Seq(Note) /\ Append(tokenq[s], token) \in Seq(Note)
    OBVIOUS
  <2> QED
    BY <1>2, <2>1 DEF Speak, decoderVars
<1>3. CASE MayGoOn(s) /\ said' = [said EXCEPT ![s] = @ + 1] /\ Speak(s, TOKEN, "run")
  <2>1. said[s] \in 0 .. MaxTokens /\ said[s] + 1 \in 0 .. MaxTokens /\ speaker[s] = "run"
    BY <1>1, <1>3 DEF MayGoOn
  <2>2. /\ said' \in [Segment -> 0 .. MaxTokens] /\ said'[s] = said[s] + 1
        /\ \A t \in Segment : t # s => said'[t] = said[t]
    BY <1>3, <2>1
  <2>3. TOKEN \in Note
    BY DEF Note
  <2> QED
    BY <1>2, <1>3, <2>1, <2>2, <2>3
<1>4. ASSUME NEW mark \in {STOP, END, ERROR}, NEW next \in {"ending", "ended"},
             Speak(s, mark, next), UNCHANGED said, speaker[s] \in {"run", "ending"}
      PROVE  /\ UNCHANGED <<context, streamed, seg, batch, first, prefix, until, decoder, fault,
                            out, played, client>>
             /\ said' = said /\ tokenq'[s] = Append(tokenq[s], mark) /\ speaker'[s] = next
             /\ \A t \in Segment : t # s => speaker'[t] = speaker[t] /\ tokenq'[t] = tokenq[t]
             /\ speaker' \in [Segment -> {"none", "run", "ending", "ended"}]
             /\ tokenq' \in [Segment -> Seq(Note)]
  <2>1. mark \in Note
    BY DEF Note
  <2> QED
    BY <1>2, <1>4, <2>1
<1>5. CASE \E mark \in {STOP, END, ERROR}, next \in {"ending", "ended"} :
              Speak(s, mark, next) /\ UNCHANGED said /\ speaker[s] \in {"run", "ending"}
  BY <1>4, <1>5
<1> QED
  BY <1>3, <1>5 DEF Generate, MayGoOn

\* A step that no longer changes what was said: a client that was told the end
\* still has heard everything.
LEMMA EndStays ==
    ASSUME EverythingSpoken, client = "ended", UNCHANGED <<played, said>>
    PROVE  EverythingSpoken'
  BY DEF EverythingSpoken, Spoken

\* A generate thread says a token or comes to its end.
LEMMA GenerateKeeps ==
    ASSUME TokenInv, NEW s \in Segment, Generate(s)
    PROVE  TokenInv'
<1>0. TokenTypeInv /\ Unbegun /\ Behind /\ Decoded /\ QueueInv /\ seg \in Segment
  BY DEF TokenInv, WorkerInv, TokenTypeInv
<1>1. UNCHANGED <<context, streamed, seg, batch, prefix, until, decoder, out, played, client>>
  BY <1>0, GenerateShape
<1>2. /\ speaker[s] \in {"run", "ending"}
      /\ \A t \in Segment : t # s => /\ speaker'[t] = speaker[t] /\ said'[t] = said[t]
                                     /\ tokenq'[t] = tokenq[t]
  BY <1>0, GenerateShape
<1>3. \/ /\ MayGoOn(s) /\ said'[s] = said[s] + 1 /\ speaker'[s] = "run"
         /\ tokenq'[s] = Append(tokenq[s], TOKEN)
      \/ /\ said'[s] = said[s] /\ speaker'[s] \in {"ending", "ended"}
         /\ \E mark \in {STOP, END, ERROR} : tokenq'[s] = Append(tokenq[s], mark)
  BY <1>0, GenerateShape
<1>4. TokenTypeInv'
  BY <1>0, <1>1, GenerateShape DEF TokenTypeInv
<1>5. \A t \in Segment : ~ MayGoOn(t) => ~ MayGoOn(t)' /\ said'[t] = said[t]
  BY <1>2, <1>3 DEF MayGoOn
<1>6. \A t \in Segment : said[t] \in Nat /\ said'[t] \in Nat /\ said[t] <= said'[t]
  <2>1. \A t \in Segment : said[t] \in Nat
    BY <1>0, EdgeSaid
  <2>2. said'[s] = said[s] \/ said'[s] = said[s] + 1
    BY <1>3
  <2> QED
    BY <1>2, <2>1, <2>2
<1>7. Unbegun'
  BY <1>0, <1>1, <1>2 DEF Unbegun
<1>8. Behind'
  BY <1>0, <1>1, <1>5 DEF Behind
<1>9. Decoded'
  <2>1. streamed /\ streamed'
    BY <1>0, <1>1, <1>2 DEF Unbegun
  <2>2. prefix \in Nat /\ until \in Nat
    BY <1>0 DEF TokenTypeInv
  <2> QED
    BY <1>0, <1>1, <1>6, <2>1, <2>2 DEF Decoded
<1>10. QueueInv'
  <2> SUFFICES ASSUME decoder = "batch", streamed
               PROVE  /\ Ahead' \in 0 .. Len(tokenq'[seg])
                      /\ \A k \in DOMAIN tokenq'[seg] : tokenq'[seg][k] = TOKEN <=> k <= Ahead'
                      /\ speaker'[seg] = "run" => Ahead' = Len(tokenq'[seg])
    BY <1>1 DEF QueueInv
  <2>1. /\ Ahead \in 0 .. Len(tokenq[seg])
        /\ \A k \in DOMAIN tokenq[seg] : tokenq[seg][k] = TOKEN <=> k <= Ahead
        /\ speaker[seg] = "run" => Ahead = Len(tokenq[seg])
    BY <1>0 DEF QueueInv
  <2>2. CASE s # seg
    <3>1. said'[seg] = said[seg] /\ tokenq'[seg] = tokenq[seg] /\ speaker'[seg] = speaker[seg]
      BY <1>0, <1>2, <2>2
    <3>2. Ahead' = Ahead
      BY <1>1, <3>1 DEF Ahead
    <3> QED
      BY <2>1, <3>1, <3>2
  <2>3. CASE s = seg
    <3> DEFINE q == tokenq[seg]
               n == Len(q)
    <3>1. /\ q \in Seq(Note) /\ n \in Nat /\ DOMAIN q = 1 .. n /\ said[seg] \in Nat
          /\ prefix \in Nat /\ batch \in Nat
      BY <1>0, EdgeSaid DEF TokenTypeInv
    <3>2. \A e \in Note : /\ DOMAIN Append(q, e) = 1 .. n + 1 /\ Len(Append(q, e)) = n + 1
                          /\ Append(q, e)[n + 1] = e
                          /\ \A k \in 1 .. n : Append(q, e)[k] = q[k]
      BY <3>1
    <3>3. CASE MayGoOn(s) /\ said'[s] = said[s] + 1 /\ tokenq'[s] = Append(q, TOKEN)
      <4>1. Ahead = n
        BY <2>1, <2>3, <3>3 DEF MayGoOn
      <4>2. Ahead' = n + 1
        BY <1>1, <2>3, <3>1, <3>3, <4>1, SMTT(30) DEF Ahead
      <4>3. TOKEN \in Note
        BY DEF Note
      <4>4. \A k \in 1 .. n + 1 : Append(q, TOKEN)[k] = TOKEN
        BY <2>1, <3>1, <3>2, <4>1, <4>3
      <4> HIDE DEF q, n
      <4> QED
        BY <2>3, <3>1, <3>2, <3>3, <4>2, <4>3, <4>4
    <3>4. ASSUME NEW mark \in {STOP, END, ERROR}, tokenq'[s] = Append(q, mark),
                 said'[s] = said[s], speaker'[s] \in {"ending", "ended"}
          PROVE  /\ Ahead' \in 0 .. Len(tokenq'[seg])
                 /\ \A k \in DOMAIN tokenq'[seg] : tokenq'[seg][k] = TOKEN <=> k <= Ahead'
                 /\ speaker'[seg] = "run" => Ahead' = Len(tokenq'[seg])
      <4>1. Ahead' = Ahead /\ Ahead \in 0 .. n
        BY <1>1, <2>1, <2>3, <3>4 DEF Ahead
      <4>2. mark \in Note /\ mark # TOKEN
        BY DEF Note, TOKEN, STOP, END, ERROR
      <4>3. \A k \in 1 .. n : q[k] = TOKEN <=> k <= Ahead
        BY <2>1, <3>1
      <4>4. speaker'[seg] # "run" /\ tokenq'[seg] = Append(q, mark)
        BY <2>3, <3>4
      <4> HIDE DEF q, n
      <4>5. \A k \in 1 .. n + 1 : Append(q, mark)[k] = TOKEN <=> k <= Ahead
        BY <3>1, <3>2, <4>1, <4>2, <4>3
      <4> QED
        BY <3>1, <3>2, <4>1, <4>2, <4>4, <4>5
    <3> QED
      BY <1>3, <2>3, <3>3, <3>4
  <2> QED
    BY <2>2, <2>3
<1>11. ASSUME LineInv
       PROVE  LineInv'
  <2>1. Line' = Line /\ Edge' = Edge /\ (Over' <=> Over) /\ (Faulty' <=> Faulty)
    BY <1>1 DEF Line, Edge, Over, Faulty
  <2>2. \A t \in Segment : Bound(t) <= Bound(t)'
    <3> SUFFICES ASSUME NEW t \in Segment
                 PROVE  Bound(t) <= Bound(t)'
      OBVIOUS
    <3>1. Bound(t) \in Nat /\ Bound(t)' = (IF t < seg \/ Over THEN said'[t] ELSE Bound(t))
      BY <1>0, <1>1, <2>1, BoundType DEF Bound
    <3> QED
      BY <1>6, <3>1 DEF Bound
  <2>3. ASSUME NEW t \in Segment, NEW i \in 1 .. MaxTokens, i <= said'[t], Owed(t, i)'
        PROVE  i <= said[t] /\ Owed(t, i)
    <3>1. Owed(t, i)
      BY <1>1, <2>1, <2>3 DEF Owed
    <3>2. CASE t < seg \/ (Over /\ ~ Faulty)
      <4>1. ~ MayGoOn(t)
        BY <1>0, <3>2, <1>11 DEF Behind, LineInv
      <4> QED
        BY <1>5, <2>3, <3>1, <4>1
    <3>3. CASE t = seg /\ decoder # "start" /\ i <= Edge
      <4>1. Edge \in Nat /\ Edge <= said[t]
        BY <1>0, <3>3, EdgeSaid
      <4> QED
        BY <1>6, <3>1, <3>3, <4>1
    <3> QED
      BY <3>1, <3>2, <3>3 DEF Owed
  <2>4. \A k \in DOMAIN played' : played'[k][1] # 0
    BY <1>1, <1>11 DEF LineInv
  <2>5. (Over => Over') /\ (decoder = "done" => decoder' = "done")
    BY <1>1, <2>1
  <2>6. Over' /\ ~ Faulty' => \A t \in Segment : ~ MayGoOn(t)'
    BY <1>5, <1>11, <2>1 DEF LineInv
  <2> QED
    BY ONLY <1>0, <1>4, <1>11, <2>1, <2>2, <2>3, <2>4, <2>5, <2>6, LineStays
<1>12. WorkerInv'
  BY <1>4, <1>7, <1>8, <1>9, <1>10 DEF WorkerInv
<1>13. CASE client = "ended"
  <2>1. EverythingSpoken /\ decoder = "done" /\ \A t \in Segment : ~ MayGoOn(t)
    BY <1>13 DEF TokenInv
  <2>2. said' = said
    <3>1. \A t \in Segment : said'[t] = said[t]
      BY <1>5, <2>1
    <3> QED
      BY <1>0, <1>4, <3>1 DEF TokenTypeInv
  <2>3. EverythingSpoken'
    BY <1>1, <1>13, <2>1, <2>2, EndStays
  <2> QED
    BY <1>1, <1>5, <1>12, <1>13, <2>1, <2>3 DEF TokenInv
<1> QED
  BY <1>1, <1>11, <1>12, <1>13 DEF TokenInv

\* The worker begins a segment: nothing of it was said yet.
LEMMA StartKeeps ==
    ASSUME WorkerInv, StartSegment
    PROVE  WorkerInv' /\ (LineInv => LineInv')
<1>0. TokenTypeInv /\ Unbegun /\ Behind /\ Decoded /\ QueueInv /\ seg \in Segment
  BY DEF WorkerInv, TokenTypeInv
<1>1. /\ UNCHANGED <<context, streamed, seg, said, tokenq, out, played, client>>
      /\ decoder = "start" /\ decoder' = "batch" /\ batch' = 0 /\ prefix' = 0 /\ until' = 0
      /\ speaker' = IF streamed THEN [speaker EXCEPT ![seg] = "run"] ELSE speaker
  BY DEF StartSegment
<1>2. /\ said[seg] = 0 /\ tokenq[seg] = << >> /\ speaker[seg] = "none"
      /\ \A s \in Segment : s > seg => speaker[s] = "none" /\ said[s] = 0 /\ tokenq[s] = << >>
  BY <1>0, <1>1 DEF Unbegun
<1>3. /\ speaker' \in [Segment -> {"none", "run", "ending", "ended"}]
      /\ \A s \in Segment : s # seg => speaker'[s] = speaker[s]
      /\ ~ streamed => speaker' = speaker
  BY <1>0, <1>1 DEF TokenTypeInv
<1>4. TokenTypeInv'
  BY <1>0, <1>1, <1>3 DEF TokenTypeInv
<1>5. seg \in Nat /\ Segment \subseteq Nat /\ Edge' = 0 /\ ~ Over /\ ~ Over' /\ Line' = Line
  BY <1>0, <1>1, EdgeSaid DEF Edge, Over, Line
<1>6. Unbegun'
  BY <1>0, <1>1, <1>2, <1>3, <1>5 DEF Unbegun
<1>7. Behind'
  <2>1. \A s \in Segment : s < seg => s # seg
    BY <1>5
  <2> QED
    BY <1>0, <1>1, <1>3, <2>1 DEF Behind, MayGoOn
<1>8. Decoded'
  BY <1>0, <1>1, <1>2 DEF Decoded
<1>9. QueueInv'
  BY <1>1, <1>2 DEF QueueInv, Ahead
<1>10. ASSUME LineInv
       PROVE  LineInv'
  <2>1. \A s \in Segment : Bound(s) <= Bound(s)'
    <3> SUFFICES ASSUME NEW s \in Segment
                 PROVE  Bound(s) <= Bound(s)'
      OBVIOUS
    <3>1. Bound(s) \in Nat /\ Bound(s)' = Bound(s)
      BY <1>0, <1>1, <1>5, BoundType DEF Bound
    <3> QED
      BY <3>1
  <2>2. ASSUME NEW s \in Segment, NEW i \in 1 .. MaxTokens, i <= said'[s], Owed(s, i)'
        PROVE  i <= said[s] /\ Owed(s, i)
    <3>1. ~ (i <= 0)
      BY TokenAssumption
    <3> QED
      BY <1>1, <1>5, <2>2, <3>1 DEF Owed
  <2>3. \A k \in DOMAIN played' : played'[k][1] # 0
    BY <1>1, <1>10 DEF LineInv
  <2>4. decoder # "done"
    BY <1>1
  <2> QED
    BY ONLY <1>0, <1>4, <1>5, <1>10, <2>1, <2>2, <2>3, <2>4, LineStays
<1> QED
  BY <1>4, <1>6, <1>7, <1>8, <1>9, <1>10 DEF WorkerInv

\* The segment is over: what is held back is sounded.
LEMMA EndSegmentKeeps ==
    ASSUME WorkerInv, EndSegment
    PROVE  WorkerInv' /\ (LineInv => LineInv')
<1>0. TokenTypeInv /\ Unbegun /\ Behind /\ Decoded /\ QueueInv /\ seg \in Segment
  BY DEF WorkerInv, TokenTypeInv
<1>1. /\ UNCHANGED <<context, streamed, speaker, said, tokenq, batch, prefix, until, played, client>>
      /\ decoder = "segment"
      /\ out' = IF ~ context /\ until < prefix THEN out \o Sounds(until, prefix) ELSE out
      /\ \/ seg < Segments /\ seg' = seg + 1 /\ decoder' = "start"
         \/ ~ (seg < Segments) /\ seg' = seg /\ decoder' = "ending"
  BY DEF EndSegment
<1>2. /\ prefix = said[seg] /\ until <= prefix /\ ~ MayGoOn(seg) /\ prefix \in Nat /\ until \in Nat
      /\ \A s \in Segment : s < seg => ~ MayGoOn(s)
  BY <1>0, <1>1 DEF Behind, Decoded, TokenTypeInv
<1>3. /\ Segments \in Nat \ {0} /\ seg \in 1 .. Segments /\ Segment = 1 .. Segments
      /\ \A s \in Segment : s \in Nat /\ said[s] \in Nat
  BY <1>0, TokenAssumption, EdgeSaid DEF Segment
<1>4. seg' \in Segment
  BY <1>1, <1>3
<1>5. /\ Edge \in Nat /\ Edge <= prefix /\ out' = out \o Part(Edge, prefix)
      /\ Part(Edge, prefix) \in Seq(Item)
  <2>1. CASE context
    <3>1. Edge = prefix /\ Part(Edge, prefix) = << >>
      BY <1>2, <2>1 DEF Edge, Part
    <3>2. out \o << >> = out
      BY <1>0 DEF TokenTypeInv
    <3> QED
      BY <1>1, <1>2, <2>1, <3>1, <3>2
  <2>2. CASE ~ context /\ ~ (until < prefix)
    <3>1. Edge = prefix /\ Part(Edge, prefix) = << >>
      BY <1>2, <2>2 DEF Edge, Part
    <3>2. out \o << >> = out
      BY <1>0 DEF TokenTypeInv
    <3> QED
      BY <1>1, <1>2, <2>2, <3>1, <3>2
  <2>3. CASE ~ context /\ until < prefix
    <3>1. Edge = until /\ Part(Edge, prefix) = Sounds(until, prefix)
      BY <1>2, <2>3 DEF Edge, Part
    <3>2. Sounds(until, prefix) \in Seq(Item)
      <4>1. prefix - until \in Nat /\ seg \in Nat
        BY <1>2, <1>3, <2>3
      <4>2. \A k \in 1 .. prefix - until : <<seg, until + k>> \in Item
        BY <1>2, <4>1 DEF Item
      <4> QED
        BY <4>1, <4>2 DEF Sounds
    <3> QED
      BY <1>1, <1>2, <2>3, <3>1, <3>2
  <2> QED
    BY <2>1, <2>2, <2>3
<1>6. TokenTypeInv'
  <2>1. out' \in Seq(Item)
    BY <1>0, <1>5 DEF TokenTypeInv
  <2> QED
    BY <1>0, <1>1, <1>4, <2>1 DEF TokenTypeInv
<1>7. \A s \in Segment : (s > seg' \/ (s = seg' /\ decoder' = "start")) => s > seg
  BY <1>1, <1>3
<1>8. \A s \in Segment : s < seg' => s < seg \/ s = seg
  BY <1>1, <1>3
<1>9. Unbegun' /\ Behind' /\ Decoded' /\ QueueInv'
  <2>1. Unbegun'
    BY <1>0, <1>1, <1>7 DEF Unbegun
  <2>2. Behind'
    BY <1>0, <1>1, <1>2, <1>8 DEF Behind, MayGoOn
  <2>3. Decoded' /\ QueueInv'
    BY <1>0, <1>1, <1>2 DEF Decoded, QueueInv
  <2> QED
    BY <2>1, <2>2, <2>3
<1>10. ASSUME LineInv
       PROVE  LineInv'
  <2>1. ~ Over /\ decoder # "start" /\ (Over' => seg = Segments)
    BY <1>1, <1>3 DEF Over
  <2>2. ASSUME NEW s \in Segment
        PROVE  Bound(s) <= Bound(s)' /\ (s = seg => prefix <= Bound(s)')
    <3>1. /\ Bound(s) = IF s < seg THEN said[s] ELSE IF s = seg THEN Edge ELSE 0
          /\ said'[s] = said[s] /\ Bound(s)' \in Nat
      BY <1>1, <1>6, <2>1, BoundType DEF Bound
    <3>2. s < seg \/ s = seg => Bound(s)' = said[s]
      BY <1>1, <1>3 DEF Bound, Over
    <3> QED
      BY <1>2, <1>3, <1>5, <3>1, <3>2
  <2>3. ASSUME NEW s \in Segment, NEW i \in 1 .. MaxTokens, i <= said'[s], Owed(s, i)'
        PROVE  \/ i <= said[s] /\ Owed(s, i)
               \/ s = seg /\ i \in Edge + 1 .. prefix
    <3>1. s < seg \/ s = seg
      BY <1>1, <1>3, <1>8, <2>3 DEF Owed, Over
    <3>2. i <= said[s] /\ i \in Nat
      BY <1>1, <2>3, TokenAssumption
    <3>3. CASE s = seg /\ ~ (i <= Edge)
      BY <1>2, <1>5, <3>2, <3>3
    <3>4. CASE s < seg \/ (s = seg /\ i <= Edge)
      BY <2>1, <3>2, <3>4 DEF Owed
    <3> QED
      BY <3>1, <3>3, <3>4
  <2>4. Over' /\ ~ Faulty' => \A s \in Segment : ~ MayGoOn(s)'
    BY <1>1, <1>2, <1>3, <2>1 DEF MayGoOn
  <2>5. played' = played
    BY <1>1
  <2> QED
    BY ONLY <1>0, <1>2, <1>5, <1>6, <1>10, <2>1, <2>2, <2>3, <2>4, <2>5, LineGrows
<1> QED
  BY <1>6, <1>9, <1>10 DEF WorkerInv

\* What is left of the queue when an item is taken: a token fewer ahead.
LEMMA TailOfQueue ==
    ASSUME NEW q \in Seq(Note), q # << >>, NEW a \in 0 .. Len(q),
           \A k \in DOMAIN q : q[k] = TOKEN <=> k <= a
    PROVE  /\ Head(q) \in Note /\ Tail(q) \in Seq(Note)
           /\ Head(q) = TOKEN <=> a > 0
           /\ a > 0 => /\ a - 1 \in 0 .. Len(Tail(q))
                       /\ \A k \in DOMAIN Tail(q) : Tail(q)[k] = TOKEN <=> k <= a - 1
                       /\ a = Len(q) => a - 1 = Len(Tail(q))
<1>1. /\ Len(q) \in Nat \ {0} /\ DOMAIN q = 1 .. Len(q) /\ Head(q) = q[1] /\ q[1] \in Note
      /\ Tail(q) \in Seq(Note) /\ Len(Tail(q)) = Len(q) - 1 /\ DOMAIN Tail(q) = 1 .. Len(q) - 1
      /\ \A k \in 1 .. Len(q) - 1 : Tail(q)[k] = q[k + 1]
  OBVIOUS
<1>2. Head(q) = TOKEN <=> a > 0
  BY <1>1
<1>3. ASSUME a > 0, NEW k \in 1 .. Len(q) - 1
      PROVE  Tail(q)[k] = TOKEN <=> k <= a - 1
  <2>1. k + 1 \in DOMAIN q /\ (k + 1 <= a <=> k <= a - 1)
    BY <1>1
  <2> QED
    BY <1>1, <2>1
<1>4. a > 0 => a - 1 \in 0 .. Len(Tail(q)) /\ (a = Len(q) => a - 1 = Len(Tail(q)))
  <2>1. Len(q) \in Nat /\ Len(Tail(q)) = Len(q) - 1 /\ a \in 0 .. Len(q)
    BY <1>1
  <2> QED
    BY ONLY <2>1
<1> QED
  BY <1>1, <1>2, <1>3, <1>4

\* The types after a step of the worker within a segment.
LEMMA WorkTypes ==
    ASSUME TokenTypeInv, UNCHANGED <<context, streamed, seg, speaker, played, client>>,
           decoder' \in {"batch", "segment", "failed"},
           said' \in [Segment -> 0 .. MaxTokens], tokenq' \in [Segment -> Seq(Note)], batch' \in Nat,
           UNCHANGED <<prefix, until, out>> \/ \E size : Sounding(size)
    PROVE  TokenTypeInv'
<1>1. CASE UNCHANGED <<prefix, until, out>>
  BY <1>1 DEF TokenTypeInv
<1>2. ASSUME NEW size, Sounding(size)
      PROVE  TokenTypeInv'
  <2>1. PICK to \in Nat : Edge <= to /\ out' = out \o Part(Edge, to)
    BY <1>2 DEF Sounding
  <2>2. Edge \in Nat /\ seg \in Nat /\ out \in Seq(Item)
    <3>1. seg \in Segment /\ Segment \subseteq Nat
      BY TokenAssumption DEF TokenTypeInv, Segment
    <3> QED
      BY <3>1, BoundType DEF TokenTypeInv
  <2>3. Part(Edge, to) \in Seq(Item)
    <3> DEFINE from == Edge
    <3>1. from \in Nat
      BY <2>2
    <3> HIDE DEF from
    <3>2. CASE to > from
      <4>1. to - from \in Nat
        BY <3>1, <3>2
      <4>2. \A k \in 1 .. to - from : <<seg, from + k>> \in Item
        BY <2>2, <3>1 DEF Item
      <4> QED
        BY <3>2, <4>1, <4>2 DEF Part, Sounds, from
    <3>3. CASE ~ (to > from)
      BY <3>3 DEF Part, from
    <3> QED
      BY <3>2, <3>3
  <2>4. out' \in Seq(Item)
    BY <2>1, <2>2, <2>3
  <2> QED
    BY <1>2, <2>4 DEF TokenTypeInv, Sounding
<1> QED
  BY <1>1, <1>2

\* The other segments in a step of the worker within one.
LEMMA WorkElsewhere ==
    ASSUME TokenTypeInv, Unbegun, Behind, Decoded, SaidHere, decoder = "batch",
           UNCHANGED <<context, streamed, seg, speaker>>,
           decoder' \in {"batch", "segment", "failed"},
           \A s \in Segment : s # seg => tokenq'[s] = tokenq[s],
           decoder' = "segment" => prefix' = said'[seg] /\ ~ MayGoOn(seg)',
           until' <= prefix' /\ prefix' <= said'[seg]
    PROVE  Unbegun' /\ Behind' /\ (decoder' = "batch" /\ streamed => Decoded')
<1>1. \A s \in Segment : (s < seg \/ s > seg) => s # seg
  BY EdgeSaid
<1>2. Unbegun'
  BY <1>1 DEF Unbegun, SaidHere
<1>3. Behind'
  BY <1>1 DEF Behind, SaidHere, MayGoOn
<1> QED
  BY <1>2, <1>3 DEF Decoded

\* A thread that still generates has put nothing but tokens: behind a mark of an
\* end, or at the limit, nothing more is said.
LEMMA HeadOfQueue ==
    ASSUME WorkerInv, decoder = "batch", streamed, tokenq[seg] # << >>
    PROVE  /\ Head(tokenq[seg]) \in Note
           /\ [tokenq EXCEPT ![seg] = Tail(@)] \in [Segment -> Seq(Note)]
           /\ until <= prefix /\ prefix + batch <= said[seg]
           /\ Head(tokenq[seg]) = TOKEN =>
                 /\ prefix + (batch + 1) <= said[seg]
                 /\ Ahead - 1 \in 0 .. Len(Tail(tokenq[seg]))
                 /\ \A k \in DOMAIN Tail(tokenq[seg]) :
                       Tail(tokenq[seg])[k] = TOKEN <=> k <= Ahead - 1
                 /\ speaker[seg] = "run" => Ahead - 1 = Len(Tail(tokenq[seg]))
           /\ Head(tokenq[seg]) # TOKEN => prefix + batch = said[seg] /\ ~ MayGoOn(seg)
<1> DEFINE q == tokenq[seg]
<1>1. /\ q \in Seq(Note) /\ q # << >> /\ Ahead \in 0 .. Len(q)
      /\ \A k \in DOMAIN q : q[k] = TOKEN <=> k <= Ahead
      /\ speaker[seg] = "run" => Ahead = Len(q)
      /\ prefix \in Nat /\ batch \in Nat /\ said[seg] \in Nat /\ until <= prefix
      /\ tokenq \in [Segment -> Seq(Note)] /\ Len(q) \in Nat \ {0}
  BY EdgeSaid DEF WorkerInv, TokenTypeInv, QueueInv, Decoded
<1>2. /\ Head(q) \in Note /\ Tail(q) \in Seq(Note) /\ (Head(q) = TOKEN <=> Ahead > 0)
      /\ Ahead > 0 => /\ Ahead - 1 \in 0 .. Len(Tail(q))
                      /\ \A k \in DOMAIN Tail(q) : Tail(q)[k] = TOKEN <=> k <= Ahead - 1
                      /\ Ahead = Len(q) => Ahead - 1 = Len(Tail(q))
  <2> DEFINE a == Ahead
  <2> HIDE DEF q, a
  <2> QED
    BY <1>1, TailOfQueue DEF a
<1>3. [tokenq EXCEPT ![seg] = Tail(@)] \in [Segment -> Seq(Note)]
  BY <1>1, <1>2
<1>4. Ahead = said[seg] - prefix - batch
  BY DEF Ahead
<1>5. prefix + batch <= said[seg] /\ (Ahead > 0 => prefix + (batch + 1) <= said[seg])
  BY <1>1, <1>4
<1>6. ~ (Ahead > 0) => prefix + batch = said[seg] /\ ~ MayGoOn(seg)
  <2>1. ~ (Ahead > 0) => Ahead = 0
    BY <1>1
  <2>2. Ahead = 0 => prefix + batch = said[seg]
    <3>1. prefix \in Nat /\ batch \in Nat /\ said[seg] \in Nat
      BY <1>1
    <3> QED
      BY ONLY <1>4, <3>1
  <2>3. Ahead = 0 => speaker[seg] # "run"
    BY <1>1
  <2> QED
    BY <2>1, <2>2, <2>3 DEF MayGoOn
<1> HIDE DEF Ahead
<1> QED
  BY <1>1, <1>2, <1>3, <1>5, <1>6

\* A step of the worker within a segment, in the invariant's terms: it sounds
\* nothing, or what it decoded.
Worked(size) ==
    \/ /\ decoder' \in {"batch", "segment", "failed"} /\ UNCHANGED <<prefix, until, out>>
       /\ decoder' = "segment" => prefix = said'[seg]
    \/ /\ decoder' \in {"batch", "segment"} /\ Sounding(size) /\ size <= said'[seg]
       /\ decoder' = "segment" => size = said'[seg]

\* Such a step keeps the line, and all but the queue of the segment at hand.
LEMMA WorkKeeps ==
    ASSUME WorkerInv, decoder = "batch", NEW size, Worked(size), SaidHere,
           UNCHANGED <<context, streamed, seg, speaker, played, client>>,
           said' \in [Segment -> 0 .. MaxTokens], tokenq' \in [Segment -> Seq(Note)], batch' \in Nat,
           \A s \in Segment : s # seg => tokenq'[s] = tokenq[s],
           decoder' = "segment" => ~ MayGoOn(seg)',
           decoder' = "batch" /\ ~ streamed => prefix' = said'[seg],
           QueueInv'
    PROVE  WorkerInv' /\ (LineInv => LineInv')
<1>0. TokenTypeInv /\ Unbegun /\ Behind /\ Decoded
  BY DEF WorkerInv
<1>1. TokenTypeInv'
  <2>1. decoder' \in {"batch", "segment", "failed"}
    BY DEF Worked
  <2>2. UNCHANGED <<prefix, until, out>> \/ Sounding(size)
    BY DEF Worked
  <2> QED
    BY <1>0, <2>1, <2>2, WorkTypes
<1>2. /\ until' <= prefix' /\ prefix' <= said'[seg] /\ (decoder' = "segment" => prefix' = said'[seg])
      /\ decoder' \in {"batch", "segment", "failed"}
  <2>1. /\ until <= prefix /\ prefix <= said[seg] /\ said[seg] <= said'[seg]
        /\ until \in Nat /\ prefix \in Nat /\ said[seg] \in Nat /\ said'[seg] \in Nat
    <3>1. until <= prefix /\ prefix <= said[seg] /\ said[seg] <= said'[seg]
      BY <1>0 DEF Decoded, SaidHere
    <3>2. seg \in Segment /\ said[seg] \in Nat
      BY <1>0, EdgeSaid DEF TokenTypeInv
    <3>3. said'[seg] \in Nat
      BY <3>2, TokenAssumption
    <3> QED
      BY <1>0, <3>1, <3>2, <3>3 DEF TokenTypeInv
  <2>2. CASE UNCHANGED <<prefix, until, out>> /\ (decoder' = "segment" => prefix = said'[seg])
    BY <2>1, <2>2 DEF Worked
  <2>3. CASE Sounding(size) /\ size <= said'[seg] /\ (decoder' = "segment" => size = said'[seg])
    BY <2>1, <2>3 DEF Worked, Sounding
  <2> QED
    BY <2>2, <2>3 DEF Worked
<1>3. Unbegun' /\ Behind'
  BY ONLY <1>0, <1>2, SaidHere, decoder = "batch", WorkElsewhere,
          UNCHANGED <<context, streamed, seg, speaker, played, client>>,
          \A s \in Segment : s # seg => tokenq'[s] = tokenq[s],
          decoder' = "segment" => ~ MayGoOn(seg)'
<1>4. Decoded'
  BY <1>2 DEF Decoded
<1>5. ASSUME LineInv
      PROVE  LineInv'
  <2>1. CASE decoder' \in {"batch", "segment", "failed"} /\ UNCHANGED <<prefix, until, out>>
    BY <1>0, <1>1, <1>5, <2>1, LineRests
  <2>2. CASE decoder' \in {"batch", "segment"} /\ Sounding(size) /\ size <= said'[seg]
    <3>1. size \in Nat
      BY <2>2 DEF Sounding
    <3> QED
      BY <1>0, <1>1, <1>5, <2>2, <3>1, LineSounds
  <2> QED
    BY <2>1, <2>2 DEF Worked
<1> QED
  BY <1>1, <1>3, <1>4, <1>5 DEF WorkerInv

\* _iter_token_batches and what the worker does with the batch.
LEMMA NextTokenKeeps ==
    ASSUME WorkerInv, NextToken
    PROVE  WorkerInv' /\ (LineInv => LineInv')
<1> DEFINE item     == Head(tokenq[seg])
           finished == item = STOP
           size     == IF finished THEN batch ELSE batch + 1
           limit    == prefix + size >= MaxTokens
           full     == size > 0 /\ (size >= Target \/ finished \/ limit)
<1>0. TokenTypeInv /\ Decoded /\ seg \in Segment
  BY DEF WorkerInv, TokenTypeInv
<1>1. /\ decoder = "batch" /\ streamed /\ tokenq[seg] # << >>
      /\ UNCHANGED <<context, streamed, seg, speaker, said, played, client>>
      /\ tokenq' = [tokenq EXCEPT ![seg] = Tail(@)]
  BY DEF NextToken
<1>2. \/ item = ERROR /\ decoder' = "failed" /\ UNCHANGED <<batch, prefix, until, out>>
      \/ /\ item = END /\ batch' = 0
         /\ \/ batch > 0 /\ Decode(batch, TRUE)
            \/ ~ (batch > 0) /\ decoder' = "segment" /\ UNCHANGED <<prefix, until, out>>
      \/ item \notin {ERROR, END} /\ full /\ Decode(size, finished \/ limit) /\ batch' = 0
      \/ /\ item \notin {ERROR, END} /\ ~ full /\ batch' = size
         /\ decoder' = IF finished THEN "segment" ELSE decoder
         /\ UNCHANGED <<prefix, until, out>>
  BY DEF NextToken
<1>3. /\ item \in Note /\ tokenq' \in [Segment -> Seq(Note)] /\ until <= prefix
      /\ prefix + batch <= said[seg]
  BY <1>1, HeadOfQueue
<1>4. item = TOKEN => /\ prefix + (batch + 1) <= said[seg]
                      /\ Ahead - 1 \in 0 .. Len(Tail(tokenq[seg]))
                      /\ \A k \in DOMAIN Tail(tokenq[seg]) :
                            Tail(tokenq[seg])[k] = TOKEN <=> k <= Ahead - 1
                      /\ speaker[seg] = "run" => Ahead - 1 = Len(Tail(tokenq[seg]))
  BY <1>1, HeadOfQueue
<1>5. item # TOKEN => prefix + batch = said[seg] /\ ~ MayGoOn(seg)
  BY <1>1, HeadOfQueue
<1>6. /\ batch \in Nat /\ prefix \in Nat /\ said[seg] \in 0 .. MaxTokens /\ said[seg] \in Nat
      /\ MaxTokens \in Nat \ {0} /\ said \in [Segment -> 0 .. MaxTokens]
      /\ \A s \in Segment : said[s] \in Nat
  BY <1>0, EdgeSaid, TokenAssumption DEF TokenTypeInv
<1>7. TOKEN # ERROR /\ TOKEN # END /\ TOKEN # STOP
  BY DEF TOKEN, STOP, END, ERROR
<1> HIDE DEF item
<1>8. /\ SaidHere /\ said' \in [Segment -> 0 .. MaxTokens]
      /\ MayGoOn(seg)' <=> MayGoOn(seg)
      /\ \A s \in Segment : s # seg => tokenq'[s] = tokenq[s]
      /\ tokenq'[seg] = Tail(tokenq[seg])
  <2>1. tokenq \in [Segment -> Seq(Note)]
    BY <1>0 DEF TokenTypeInv
  <2> QED
    BY <1>0, <1>1, <1>6, <2>1 DEF SaidHere, MayGoOn
<1>9. ASSUME NEW d, Worked(d), batch' \in Nat, decoder' = "segment" => ~ MayGoOn(seg), QueueInv'
      PROVE  WorkerInv' /\ (LineInv => LineInv')
  BY <1>1, <1>3, <1>8, <1>9, WorkKeeps
<1>10. ASSUME decoder' # "batch"
       PROVE  QueueInv'
  BY <1>10 DEF QueueInv
<1>11. ASSUME item = TOKEN, prefix' + batch' = prefix + batch + 1, prefix' \in Nat, batch' \in Nat
       PROVE  QueueInv'
  <2>1. Ahead' = Ahead - 1
    <3>1. prefix' + batch' = prefix + batch + 1 /\ said'[seg'] = said[seg]
      BY <1>1, <1>11
    <3>2. /\ prefix \in Nat /\ batch \in Nat /\ said[seg] \in Nat
          /\ prefix' \in Nat /\ batch' \in Nat
      BY <1>6, <1>11
    <3>3. \A a, p, b, q, d \in Nat : q + d = p + b + 1 => a - q - d = (a - p - b) - 1
      OBVIOUS
    <3>4. said[seg] - prefix' - batch' = (said[seg] - prefix - batch) - 1
      <4>1. prefix' + batch' = prefix + batch + 1
        BY <3>1
      <4>2. \A q, d \in Nat :
               q + d = prefix + batch + 1 => said[seg] - q - d = (said[seg] - prefix - batch) - 1
        BY ONLY <3>2, <3>3
      <4> QED
        BY ONLY <3>2, <4>1, <4>2
    <3>5. Ahead = said[seg] - prefix - batch /\ Ahead' = said[seg] - prefix' - batch'
      BY <3>1 DEF Ahead
    <3> QED
      BY <3>4, <3>5
  <2> QED
    BY <1>1, <1>4, <1>8, <1>11, <2>1 DEF QueueInv
<1>12. CASE item = ERROR /\ decoder' = "failed" /\ UNCHANGED <<batch, prefix, until, out>>
  <2>1. Worked(0) /\ batch' \in Nat
    BY <1>6, <1>12 DEF Worked
  <2> QED
    BY <1>9, <1>10, <1>12, <2>1
<1>13. ASSUME NEW new \in Nat, NEW final \in BOOLEAN, Decode(new, final), batch' = 0,
              prefix + new <= said[seg],
              final => prefix + new = said[seg] /\ ~ MayGoOn(seg),
              ~ final => item = TOKEN /\ new = batch + 1
       PROVE  WorkerInv' /\ (LineInv => LineInv')
  <2>1. \/ decoder' = "failed" /\ UNCHANGED <<prefix, until, out>>
        \/ /\ Sounding(prefix + new)
           /\ decoder' = IF final \/ prefix + new >= MaxTokens THEN "segment" ELSE "batch"
    BY <1>0, <1>1, <1>3, <1>13, DecodeEffect
  <2>2. CASE decoder' = "failed" /\ UNCHANGED <<prefix, until, out>>
    <3>1. Worked(0) /\ batch' \in Nat
      BY <1>13, <2>2 DEF Worked
    <3> QED
      BY <1>9, <1>10, <2>2, <3>1
  <2>3. CASE /\ Sounding(prefix + new)
             /\ decoder' = IF final \/ prefix + new >= MaxTokens THEN "segment" ELSE "batch"
    <3>1. prefix + new >= MaxTokens => prefix + new = said[seg] /\ ~ MayGoOn(seg)
      BY <1>6, <1>13 DEF MayGoOn
    <3>2. Worked(prefix + new)
      BY <1>1, <1>13, <2>3, <3>1 DEF Worked
    <3>3. QueueInv'
      <4>1. CASE decoder' = "batch"
        <5>1. ~ final /\ prefix' = prefix + new
          BY <2>3, <4>1 DEF Sounding
        <5>2. prefix' + batch' = prefix + batch + 1 /\ prefix' \in Nat /\ batch' \in Nat
          BY <1>6, <1>13, <5>1
        <5> QED
          BY <1>11, <1>13, <5>1, <5>2
      <4> QED
        BY <1>10, <4>1
    <3>4. decoder' = "segment" => ~ MayGoOn(seg)
      BY <1>13, <2>3, <3>1
    <3> QED
      BY <1>9, <1>13, <3>2, <3>3, <3>4
  <2> QED
    BY <2>1, <2>2, <2>3
<1>14. CASE /\ item = END /\ batch' = 0
            /\ \/ batch > 0 /\ Decode(batch, TRUE)
               \/ ~ (batch > 0) /\ decoder' = "segment" /\ UNCHANGED <<prefix, until, out>>
  <2>1. prefix + batch = said[seg] /\ ~ MayGoOn(seg)
    BY <1>5, <1>7, <1>14
  <2>2. CASE batch > 0 /\ Decode(batch, TRUE)
    BY <1>3, <1>6, <1>13, <1>14, <2>1, <2>2
  <2>3. CASE ~ (batch > 0) /\ decoder' = "segment" /\ UNCHANGED <<prefix, until, out>>
    <3>1. prefix = said[seg]
      BY <1>6, <2>1, <2>3
    <3>2. Worked(0)
      BY <1>1, <2>3, <3>1 DEF Worked
    <3> QED
      BY <1>9, <1>10, <1>14, <2>1, <2>3, <3>2
  <2> QED
    BY <1>14, <2>2, <2>3
<1>15. CASE item \notin {ERROR, END} /\ full /\ Decode(size, finished \/ limit) /\ batch' = 0
  <2> DEFINE final == finished \/ limit
  <2>1. size \in Nat /\ final \in BOOLEAN
    BY <1>6
  <2>2. CASE finished
    <3>1. prefix + size = said[seg] /\ ~ MayGoOn(seg) /\ final
      BY <1>5, <1>7, <2>2
    <3>2. prefix + size <= said[seg]
      BY <1>6, <3>1
    <3> HIDE DEF size, final, finished
    <3> QED
      BY <1>13, <1>15, <2>1, <3>1, <3>2 DEF final
  <2>3. CASE ~ finished
    <3>1. item = TOKEN /\ size = batch + 1 /\ prefix + size <= said[seg]
      BY <1>3, <1>4, <1>15, <2>3 DEF Note
    <3>2. final => prefix + size = said[seg] /\ ~ MayGoOn(seg)
      BY <1>6, <2>1, <2>3, <3>1 DEF MayGoOn
    <3> HIDE DEF size, final, finished
    <3> QED
      BY <1>13, <1>15, <2>1, <3>1, <3>2 DEF final
  <2> QED
    BY <2>2, <2>3
<1>16. CASE /\ item \notin {ERROR, END} /\ ~ full /\ batch' = size
            /\ decoder' = IF finished THEN "segment" ELSE decoder
            /\ UNCHANGED <<prefix, until, out>>
  <2>1. CASE finished
    <3>1. prefix + batch = said[seg] /\ ~ MayGoOn(seg)
      BY <1>5, <1>7, <2>1
    <3>2. batch = 0 /\ prefix = said[seg]
      BY <1>6, <1>16, <2>1, <3>1
    <3>3. Worked(0) /\ batch' \in Nat
      BY <1>1, <1>6, <1>16, <2>1, <3>2 DEF Worked
    <3> QED
      BY <1>9, <1>10, <1>16, <2>1, <3>1, <3>3
  <2>2. CASE ~ finished
    <3>1. item = TOKEN /\ batch' = batch + 1 /\ decoder' = "batch"
      BY <1>1, <1>3, <1>16, <2>2 DEF Note
    <3>2. Worked(0) /\ batch' \in Nat
      BY <1>6, <1>16, <3>1 DEF Worked
    <3>3. prefix' + batch' = prefix + batch + 1 /\ prefix' \in Nat /\ batch' \in Nat
      BY <1>6, <1>16, <3>1
    <3> QED
      BY <1>9, <1>11, <3>1, <3>2, <3>3
  <2> QED
    BY <2>1, <2>2
<1> QED
  BY <1>2, <1>12, <1>14, <1>15, <1>16

\* _iter_iterative_speech_code_batches and what the worker does with the batch.
LEMMA NextCodesKeeps ==
    ASSUME WorkerInv, NextCodes
    PROVE  WorkerInv' /\ (LineInv => LineInv')
<1> DEFINE step == Min({Target, MaxTokens - prefix})
<1>0. /\ TokenTypeInv /\ Decoded /\ Unbegun /\ seg \in Segment
      /\ decoder = "batch" /\ ~ streamed /\ UNCHANGED <<context, streamed, seg, speaker, tokenq, batch,
                                                        played, client>>
  BY DEF WorkerInv, TokenTypeInv, NextCodes
<1>1. /\ prefix \in Nat /\ batch \in Nat /\ MaxTokens \in Nat \ {0} /\ prefix = said[seg]
      /\ said \in [Segment -> 0 .. MaxTokens] /\ said[seg] \in 0 .. MaxTokens
      /\ \A s \in Segment : said[s] \in Nat
      /\ tokenq \in [Segment -> Seq(Note)] /\ until <= prefix
  BY <1>0, EdgeSaid, TokenAssumption DEF TokenTypeInv, Decoded
<1>2. step \in Nat /\ step <= MaxTokens - prefix
  <2>1. Target \in Nat /\ MaxTokens - prefix \in Nat
    BY <1>1, TokenAssumption DEF Target
  <2> QED
    BY <2>1, OfTwo
<1> HIDE DEF step
<1>3. PICK new \in 0 .. step :
         /\ said' = [said EXCEPT ![seg] = @ + new]
         /\ \/ new = 0 /\ decoder' = "segment" /\ UNCHANGED <<prefix, until, out>>
            \/ Decode(new, new < step)
  BY DEF NextCodes, step
<1>4. new \in Nat /\ prefix + new \in 0 .. MaxTokens
  BY <1>1, <1>2
<1>5. /\ said' \in [Segment -> 0 .. MaxTokens] /\ said'[seg] = prefix + new
      /\ SaidHere
  <2>1. said[seg] + new \in 0 .. MaxTokens /\ said[seg] <= said[seg] + new
    BY <1>1, <1>4
  <2> QED
    BY <1>0, <1>1, <1>3, <2>1 DEF SaidHere
<1>6. ~ MayGoOn(seg)'
  BY <1>0 DEF MayGoOn, Unbegun
<1>7. QueueInv'
  BY <1>0 DEF QueueInv
<1>8. ASSUME NEW d, Worked(d), decoder' = "batch" => prefix' = said'[seg]
      PROVE  WorkerInv' /\ (LineInv => LineInv')
  BY <1>0, <1>1, <1>5, <1>6, <1>7, <1>8, WorkKeeps
<1>9. CASE new = 0 /\ decoder' = "segment" /\ UNCHANGED <<prefix, until, out>>
  <2>1. Worked(0)
    BY <1>1, <1>5, <1>9 DEF Worked
  <2> QED
    BY <1>8, <1>9, <2>1
<1>10. CASE Decode(new, new < step)
  <2>1. \/ decoder' = "failed" /\ UNCHANGED <<prefix, until, out>>
        \/ Sounding(prefix + new) /\ decoder' \in {"segment", "batch"}
    <3>1. (new < step) \in BOOLEAN
      BY <1>2, <1>4
    <3>2. ASSUME NEW final \in BOOLEAN, final = (new < step)
          PROVE  \/ decoder' = "failed" /\ UNCHANGED <<prefix, until, out>>
                 \/ Sounding(prefix + new) /\ decoder' \in {"segment", "batch"}
      <4>1. Decode(new, final)
        BY <1>10, <3>2
      <4> QED
        BY <1>0, <1>1, <1>4, <4>1, DecodeEffect
    <3> QED
      BY <3>1, <3>2
  <2>2. CASE decoder' = "failed" /\ UNCHANGED <<prefix, until, out>>
    <3>1. Worked(0)
      BY <2>2 DEF Worked
    <3> QED
      BY <1>8, <2>2, <3>1
  <2>3. CASE Sounding(prefix + new) /\ decoder' \in {"segment", "batch"}
    <3>1. Worked(prefix + new)
      BY <1>4, <1>5, <2>3 DEF Worked
    <3>2. prefix' = said'[seg]
      BY <1>5, <2>3 DEF Sounding
    <3> QED
      BY <1>8, <3>1, <3>2
  <2> QED
    BY <2>1, <2>2, <2>3
<1> QED
  BY <1>3, <1>9, <1>10

\* The worker ends with a mark of the error, if it failed, and one of the end.
LEMMA EndStreamKeeps ==
    ASSUME WorkerInv, EndStream
    PROVE  WorkerInv' /\ (LineInv => LineInv')
<1>0. TokenTypeInv /\ Unbegun /\ Behind /\ Decoded /\ QueueInv
  BY DEF WorkerInv
<1>1. /\ UNCHANGED <<context, streamed, seg, speaker, said, tokenq, batch, prefix, until, played, client>>
      /\ \/ decoder = "failed" /\ out' = Append(out, ERROR) /\ decoder' = "ending"
         \/ decoder = "ending" /\ out' = Append(out, END) /\ decoder' = "done"
  BY DEF EndStream
<1>2. PICK mark \in {ERROR, END} : /\ out' = Append(out, mark)
                                   /\ mark = ERROR => decoder = "failed" /\ decoder' = "ending"
                                   /\ mark = END => decoder = "ending" /\ decoder' = "done"
  <2>1. ERROR # END
    BY DEF ERROR, END
  <2> QED
    BY <1>1, <2>1
<1>3. mark \in Item /\ mark[1] = 0
  BY DEF Item, ERROR, END
<1>4. TokenTypeInv'
  <2>1. out' \in Seq(Item) /\ decoder' \in {"start", "batch", "segment", "failed", "ending", "done"}
    BY <1>0, <1>2, <1>3 DEF TokenTypeInv
  <2> QED
    BY <1>0, <1>1, <2>1 DEF TokenTypeInv
<1>5. Unbegun' /\ Behind' /\ Decoded' /\ QueueInv'
  BY <1>0, <1>1 DEF Unbegun, Behind, Decoded, QueueInv, MayGoOn
<1>6. ASSUME LineInv
      PROVE  LineInv'
  <2> DEFINE l == Line
             n == Len(l)
  <2>1. l \in Seq(Item) /\ n \in Nat /\ DOMAIN l = 1 .. n
    BY <1>0, LineType
  <2>2. Line' = Append(l, mark)
    <3>1. played' = played /\ played \in Seq(Item) /\ out \in Seq(Item)
      BY <1>0, <1>1 DEF TokenTypeInv
    <3>2. \A s, t \in Seq(Item) : s \o Append(t, mark) = Append(s \o t, mark)
      BY <1>3
    <3> QED
      BY <1>2, <3>1, <3>2 DEF Line
  <2>3. /\ DOMAIN Line' = 1 .. n + 1 /\ Len(Line') = n + 1 /\ Line'[n + 1] = mark
        /\ \A k \in 1 .. n : Line'[k] = l[k]
    BY <1>3, <2>1, <2>2
  <2>4. /\ Over' /\ decoder # "done" /\ decoder # "start" /\ decoder' # "start" /\ Edge' = Edge
        /\ decoder' = "done" <=> mark = END
        /\ Over <=> mark = END
    BY <1>1, <1>2 DEF Over, Edge, ERROR, END
  <2>5. \A k \in 1 .. n : \/ l[k] = ERROR /\ Over
                          \/ Sounded(l[k])
    BY <1>6, <2>1, <2>4 DEF LineInv, LineHolds
  <2>6. ASSUME NEW s \in Segment
        PROVE  Bound(s) \in Nat /\ Bound(s)' \in Nat /\ Bound(s) <= Bound(s)'
    <3>1. Bound(s) \in Nat /\ Bound(s)' \in Nat /\ Bound(s)' = said[s] /\ said[s] \in Nat
      BY <1>0, <1>1, <1>4, <2>4, BoundType, EdgeSaid DEF Bound
    <3>2. seg \in Segment /\ Edge <= said[seg]
      BY <1>0, <2>4, EdgeSaid DEF TokenTypeInv
    <3> QED
      BY <3>1, <3>2 DEF Bound
  <2>7. ASSUME NEW x, Sounded(x)
        PROVE  Sounded(x)'
    <3>1. PICK s \in Segment : \E i \in 1 .. Bound(s) : x = <<s, i>>
      BY <2>7 DEF Sounded
    <3>2. PICK i \in 1 .. Bound(s) : x = <<s, i>>
      BY <3>1
    <3>3. i \in 1 .. Bound(s)'
      BY <2>6
    <3> QED
      BY <3>2, <3>3 DEF Sounded
  <2>8. LineHolds'
    <3> SUFFICES ASSUME NEW k \in 1 .. n + 1
                 PROVE  \/ Line'[k] = END /\ k = Len(Line') /\ decoder' = "done"
                        \/ Line'[k] = ERROR /\ Over'
                        \/ Sounded(Line[k])'
      BY <2>3 DEF LineHolds
    <3>1. CASE k = n + 1
      BY <2>3, <2>4, <3>1
    <3>2. CASE k \in 1 .. n
      <4>1. Line'[k] = l[k] /\ (l[k] = ERROR \/ Sounded(l[k]))
        BY <2>3, <2>5, <3>2
      <4>2. ASSUME NEW x, x = l[k]
            PROVE  x = ERROR \/ Sounded(Line[k])'
        <5>1. x = ERROR \/ Sounded(x)
          BY <4>1, <4>2
        <5>2. x = ERROR \/ Sounded(x)'
          BY <2>7, <5>1
        <5> QED
          BY <4>1, <4>2, <5>2 DEF Sounded
      <4> QED
        BY <2>4, <4>1, <4>2
    <3> QED
      BY <2>1, <3>1, <3>2
  <2>9. Ascending(Line)'
    <3>1. \A j, k \in 1 .. n : j < k /\ l[j][1] # 0 /\ l[k][1] # 0 => Before(l[j], l[k])
      BY <1>6, <2>1 DEF LineInv, Ascending
    <3> HIDE DEF l, n
    <3> QED
      BY <1>3, <2>1, <2>3, <3>1 DEF Ascending
  <2>10. Over' /\ ~ Faulty' => Over /\ ~ Faulty
    <3> SUFFICES ASSUME ~ Faulty'
                 PROVE  Over /\ ~ Faulty
      OBVIOUS
    <3>1. \A k \in 1 .. n + 1 : Line'[k] # ERROR
      BY <2>3 DEF Faulty
    <3>2. mark # ERROR /\ \A k \in 1 .. n : l[k] # ERROR
      BY <2>1, <2>3, <3>1
    <3> QED
      BY <2>1, <2>4, <3>2 DEF Faulty
  <2>11. LineCovers'
    <3> SUFFICES ASSUME NEW s \in Segment, NEW i \in 1 .. MaxTokens, i <= said'[s], Owed(s, i)'
                 PROVE  \E k \in DOMAIN Line' : Line'[k] = <<s, i>>
      BY DEF LineCovers
    <3>1. i <= said[s] /\ Owed(s, i)
      BY <1>1, <2>4, <2>10 DEF Owed
    <3>2. PICK k \in 1 .. n : l[k] = <<s, i>>
      BY <1>6, <2>1, <3>1 DEF LineInv, LineCovers
    <3> QED
      BY <2>1, <2>3, <3>2
  <2>12. /\ \A k \in DOMAIN played' : played'[k][1] # 0
         /\ Over' /\ ~ Faulty' => \A s \in Segment : ~ MayGoOn(s)'
    BY <1>1, <1>6, <2>10 DEF LineInv, MayGoOn
  <2> QED
    BY <2>8, <2>9, <2>11, <2>12 DEF LineInv
<1> QED
  BY <1>4, <1>5, <1>6 DEF WorkerInv

\* The client takes the next item: a sound goes to what was heard; at the end,
\* which comes last and without an error before it, everything was heard.
LEMMA ReadKeeps ==
    ASSUME TokenInv, Read
    PROVE  TokenInv'
<1>0. TokenTypeInv /\ Unbegun /\ Behind /\ Decoded /\ QueueInv /\ LineInv
  BY DEF TokenInv, WorkerInv, Read
<1>1. /\ UNCHANGED <<context, streamed, seg, speaker, said, tokenq, batch, prefix, until, decoder>>
      /\ client = "reading" /\ out # << >> /\ out' = Tail(out)
      /\ \/ Head(out) = END /\ client' = "ended" /\ UNCHANGED played
         \/ Head(out) = ERROR /\ client' = "error" /\ UNCHANGED played
         \/ /\ Head(out) \notin {END, ERROR}
            /\ played' = Append(played, Head(out)) /\ UNCHANGED client
  BY DEF Read
<1>2. /\ played \in Seq(Item) /\ out \in Seq(Item) /\ Head(out) \in Item /\ Tail(out) \in Seq(Item)
      /\ Len(played) \in Nat /\ Len(out) \in Nat \ {0}
  BY <1>0, <1>1 DEF TokenTypeInv
<1>3. TokenTypeInv'
  <2>1. out' \in Seq(Item) /\ played' \in Seq(Item) /\ client' \in {"reading", "ended", "error", "gone"}
    <3>1. played' = played \/ played' = Append(played, Head(out))
      BY <1>1
    <3>2. Append(played, Head(out)) \in Seq(Item)
      BY <1>2
    <3> QED
      BY <1>1, <1>2, <3>1, <3>2
  <2> QED
    BY <1>0, <1>1, <2>1 DEF TokenTypeInv
<1>4. Unbegun' /\ Behind' /\ Decoded' /\ QueueInv'
  BY <1>0, <1>1 DEF Unbegun, Behind, Decoded, QueueInv, Ahead, MayGoOn
<1>5. /\ DOMAIN Line = 1 .. Len(played) + Len(out) /\ Len(Line) = Len(played) + Len(out)
      /\ Line[Len(played) + 1] = Head(out) /\ Len(played) + 1 \in DOMAIN Line
      /\ \A k \in 1 .. Len(played) : Line[k] = played[k] /\ k \in DOMAIN Line
  <2>1. /\ Line \in Seq(Item) /\ Len(Line) = Len(played) + Len(out)
        /\ (\A k \in 1 .. Len(played) : Line[k] = played[k])
        /\ (\A k \in 1 .. Len(out) : Line[Len(played) + k] = out[k])
    BY <1>0, LineType
  <2>2. DOMAIN Line = 1 .. Len(played) + Len(out) /\ 1 \in 1 .. Len(out) /\ out[1] = Head(out)
    BY <1>2, <2>1
  <2> QED
    BY <1>2, <2>1, <2>2
<1>6. CASE Head(out) = ERROR /\ client' = "error"
  BY <1>3, <1>4, <1>6 DEF TokenInv, WorkerInv
<1>7. CASE Head(out) \notin {END, ERROR} /\ played' = Append(played, Head(out)) /\ UNCHANGED client
  <2>1. Line' = Line
    <3>1. \A s, t \in Seq(Item) : t # << >> => Append(s, Head(t)) \o Tail(t) = s \o t
      OBVIOUS
    <3> QED
      BY <1>1, <1>2, <1>7, <3>1 DEF Line
  <2>2. Edge' = Edge /\ (Over' <=> Over) /\ (Faulty' <=> Faulty)
    BY <1>1, <2>1 DEF Edge, Over, Faulty
  <2>3. Head(out)[1] # 0
    <3>1. Sounded(Head(out))
      BY <1>0, <1>5, <1>7 DEF LineInv, LineHolds
    <3>2. \A s \in Segment : s # 0
      BY TokenAssumption DEF Segment
    <3> QED
      BY <3>1, <3>2 DEF Sounded
  <2>4. \A k \in DOMAIN played' : played'[k][1] # 0
    BY <1>0, <1>2, <1>7, <2>3 DEF LineInv
  <2>5. \A s \in Segment : Bound(s) <= Bound(s)'
    <3> SUFFICES ASSUME NEW s \in Segment
                 PROVE  Bound(s) <= Bound(s)'
      OBVIOUS
    <3>1. Bound(s) \in Nat /\ Bound(s)' = Bound(s)
      BY <1>0, <1>1, <2>2, BoundType DEF Bound
    <3> QED
      BY <3>1
  <2>6. \A s \in Segment, i \in 1 .. MaxTokens :
           i <= said'[s] /\ Owed(s, i)' => i <= said[s] /\ Owed(s, i)
    BY <1>1, <2>2 DEF Owed
  <2>7. /\ (Over => Over') /\ (decoder = "done" => decoder' = "done")
        /\ Over' /\ ~ Faulty' => \A s \in Segment : ~ MayGoOn(s)'
    BY <1>0, <1>1, <2>2 DEF LineInv, MayGoOn
  <2>8. LineInv'
    BY ONLY <1>0, <1>3, <2>1, <2>4, <2>5, <2>6, <2>7, LineStays
  <2> QED
    BY <1>1, <1>3, <1>4, <1>7, <2>8 DEF TokenInv, WorkerInv
<1>8. CASE Head(out) = END /\ client' = "ended" /\ UNCHANGED played
  <2>1. END # ERROR /\ END[1] = 0 /\ ERROR[1] = 0
    BY DEF END, ERROR
  <2>2. \A s \in Segment : s # 0
    BY TokenAssumption DEF Segment
  <2>3. \A x : Sounded(x) => x[1] # 0
    BY <2>2 DEF Sounded
  <2>4. decoder = "done" /\ Len(out) = 1
    <3>1. \/ Len(played) + 1 = Len(Line) /\ decoder = "done"
          \/ Line[Len(played) + 1] = ERROR
          \/ Sounded(Line[Len(played) + 1])
      BY <1>0, <1>5 DEF LineInv, LineHolds
    <3>2. Len(played) + 1 = Len(Line) /\ decoder = "done"
      BY <1>5, <1>8, <2>1, <2>3, <3>1
    <3>3. Len(played) + 1 = Len(played) + Len(out)
      BY <1>5, <3>2
    <3>4. Len(played) \in Nat /\ Len(out) \in Nat
      BY <1>2
    <3>5. Len(out) = 1
      <4>1. \A a, b \in Nat : a + 1 = a + b => b = 1
        OBVIOUS
      <4> QED
        BY ONLY <3>3, <3>4, <4>1
    <3> QED
      BY ONLY <3>2, <3>5
  <2>5. /\ DOMAIN played = 1 .. Len(played) /\ DOMAIN Line = 1 .. Len(played) + 1
        /\ Line[Len(played) + 1] = END
        /\ \A k \in 1 .. Len(played) : Line[k] = played[k] /\ played[k][1] # 0
    BY <1>0, <1>2, <1>5, <1>8, <2>4 DEF LineInv
  <2>6. \A k \in 1 .. Len(played) + 1 : k \in 1 .. Len(played) \/ k = Len(played) + 1
    BY <1>2
  <2>7. Over /\ ~ Faulty
    BY <2>1, <2>4, <2>5, <2>6 DEF Over, Faulty
  <2>8. \A s \in Segment : ~ MayGoOn(s)
    BY <1>0, <2>7 DEF LineInv
  <2>9. Range(played) \subseteq Spoken
    <3> SUFFICES ASSUME NEW k \in 1 .. Len(played)
                 PROVE  played[k] \in Spoken
      BY <2>5 DEF Range
    <3>1. Sounded(Line[k])
      <4>1. \/ Line[k] = END \/ Line[k] = ERROR \/ Sounded(Line[k])
        BY <1>0, <1>5 DEF LineInv, LineHolds
      <4> QED
        BY <2>1, <2>5, <4>1
    <3>2. PICK s \in Segment : \E i \in 1 .. Bound(s) : Line[k] = <<s, i>>
      BY <3>1 DEF Sounded
    <3>3. PICK i \in 1 .. Bound(s) : played[k] = <<s, i>>
      BY <2>5, <3>2
    <3>4. Bound(s) = said[s] /\ said[s] \in 0 .. MaxTokens
      BY <1>0, <2>7, EdgeSaid DEF Bound
    <3>5. i \in 1 .. MaxTokens /\ i <= said[s]
      BY <3>4, TokenAssumption
    <3> QED
      BY <3>3, <3>5 DEF Spoken
  <2>10. Spoken \subseteq Range(played)
    <3> SUFFICES ASSUME NEW s \in Segment, NEW i \in 1 .. MaxTokens, i <= said[s]
                 PROVE  <<s, i>> \in Range(played)
      BY DEF Spoken
    <3>1. Owed(s, i)
      BY <2>7 DEF Owed
    <3>2. PICK k \in DOMAIN Line : Line[k] = <<s, i>>
      BY <1>0, <3>1 DEF LineInv, LineCovers
    <3>3. <<s, i>>[1] # 0
      BY <2>2
    <3>4. k \in 1 .. Len(played)
      BY <2>1, <2>5, <2>6, <3>2, <3>3
    <3> QED
      BY <2>5, <3>2, <3>4 DEF Range
  <2>11. \A j, k \in DOMAIN played : j < k => Before(played[j], played[k])
    BY <1>0, <1>5, <2>5 DEF LineInv, Ascending
  <2>12. EverythingSpoken'
    <3>1. played' = played /\ Spoken' = Spoken
      BY <1>1, <1>8 DEF Spoken
    <3> QED
      BY <2>9, <2>10, <2>11, <3>1 DEF EverythingSpoken
  <2>13. decoder' = "done" /\ \A s \in Segment : ~ MayGoOn(s)'
    BY <1>1, <2>4, <2>8 DEF MayGoOn
  <2> QED
    BY <1>3, <1>4, <1>8, <2>12, <2>13 DEF TokenInv, WorkerInv
<1> QED
  BY <1>1, <1>6, <1>7, <1>8

\* Nothing was said, heard or begun.
LEMMA InitTokens == TokenInit => TokenInv
<1> SUFFICES ASSUME TokenInit
             PROVE  TokenInv
  OBVIOUS
<1>1. 1 \in Segment /\ Segment \subseteq Nat /\ 0 \in 0 .. MaxTokens
  BY TokenAssumption DEF Segment
<1>2. WorkerInv
  BY <1>1 DEF TokenInit, WorkerInv, TokenTypeInv, Unbegun, Behind, Decoded, QueueInv, MayGoOn
<1>3. Line = << >> /\ ~ Over /\ seg = 1 /\ decoder = "start" /\ played = << >>
  BY DEF TokenInit, Line, Over
<1>4. LineInv
  <2>1. \A s \in Segment : ~ (s < 1)
    BY TokenAssumption DEF Segment
  <2> QED
    BY <1>3, <2>1 DEF LineInv, Ascending, LineHolds, LineCovers, Owed, Over
<1> QED
  BY <1>2, <1>4 DEF TokenInv, TokenInit

\* Every step keeps the invariant.
LEMMA NextTokens == TokenInv /\ [TokenNext]_tokenVars => TokenInv'
<1> SUFFICES ASSUME TokenInv, [TokenNext]_tokenVars
             PROVE  TokenInv'
  OBVIOUS
<1>1. ASSUME WorkerNext
      PROVE  TokenInv'
  <2>1. decoder # "done" /\ client' = client
    BY <1>1 DEF WorkerNext, StartSegment, NextToken, NextCodes, EndSegment, EndStream
  <2>2. WorkerInv' /\ (LineInv => LineInv')
    BY <1>1, StartKeeps, NextTokenKeeps, NextCodesKeeps, EndSegmentKeeps, EndStreamKeeps
       DEF WorkerNext, TokenInv
  <2> QED
    BY <2>1, <2>2 DEF TokenInv
<1>2. CASE Leave
  <2>1. /\ UNCHANGED <<context, streamed, seg, speaker, said, tokenq, batch, prefix, until,
                       decoder, out, played>>
        /\ client' = "gone"
    BY <1>2 DEF Leave
  <2>2. WorkerInv'
    BY <2>1 DEF TokenInv, WorkerInv, TokenTypeInv, Unbegun, Behind, Decoded, QueueInv, Ahead, MayGoOn
  <2> QED
    BY <2>1, <2>2 DEF TokenInv
<1>3. CASE UNCHANGED tokenVars
  <2>1. UNCHANGED <<context, streamed, seg, speaker, said, tokenq, batch, prefix, until,
                    decoder, out, played, client>>
    BY <1>3 DEF tokenVars
  <2>2. WorkerInv'
    BY <2>1 DEF TokenInv, WorkerInv, TokenTypeInv, Unbegun, Behind, Decoded, QueueInv, Ahead, MayGoOn
  <2>3. LineInv => LineInv'
    <3>1. /\ Line' = Line /\ (Over' <=> Over) /\ (Faulty' <=> Faulty) /\ Edge' = Edge
          /\ \A s \in Segment : MayGoOn(s)' <=> MayGoOn(s)
      BY <2>1 DEF Line, Over, Faulty, Edge, MayGoOn
    <3>2. \A s : Bound(s)' = Bound(s)
      BY <2>1, <3>1 DEF Bound
    <3>3. \A s, i : Owed(s, i)' <=> Owed(s, i)
      BY <2>1, <3>1 DEF Owed
    <3>4. LineHolds => LineHolds'
      BY <2>1, <3>1, <3>2 DEF LineHolds, Sounded
    <3>5. LineCovers => LineCovers'
      BY <2>1, <3>1, <3>3 DEF LineCovers
    <3> QED
      BY <2>1, <3>1, <3>4, <3>5 DEF LineInv, Ascending
  <2>4. client = "ended" => EverythingSpoken' /\ \A s \in Segment : ~ MayGoOn(s)'
    BY <2>1, EndStays DEF TokenInv, MayGoOn
  <2> QED
    BY <2>1, <2>2, <2>3, <2>4 DEF TokenInv
<1> QED
  BY <1>1, <1>2, <1>3, GenerateKeeps, ReadKeeps DEF TokenNext

\* A client that is told the stream ended without an error has played every token
\* of every segment once and in order, for any windows, limits and queues.
THEOREM SpeechIsWhole == TokenSpec => []EverythingSpoken
<1>1. TokenInv => EverythingSpoken
  BY DEF TokenInv, EverythingSpoken
<1> QED
  BY <1>1, InitTokens, NextTokens, PTL DEF TokenSpec
================================================================================
