-------------------------- MODULE ManagedWorkerProofs --------------------------
(***************************************************************************)
(* The supervised worker, for any number of threads, any restart budget,   *)
(* window and cool-down, and any bounds on the clock and the submits.      *)
(*                                                                         *)
(* A thread gives up no lock between its decision to restart and the new   *)
(* process, which it starts after the back-off without looking at the      *)
(* breaker again.  That the breaker is closed then is what RestartsAlone   *)
(* says: only the owner of the supervisor lock opens it.                   *)
(*                                                                         *)
(* The restart budget is about all restarts, the code keeps the times of   *)
(* the last of them: BudgetInv says that those it dropped are out of the   *)
(* window, or before a cool-down that was waited for (DroppedIsOld), and   *)
(* that any two that are MaxRestarts apart are a window or a cool-down     *)
(* apart (Spaced).  FirstIsProbe is what an opening of the breaker needs:  *)
(* the stamps that fill the budget are all of the time since the probe.    *)
(***************************************************************************)
EXTENDS ManagedWorker, FiniteSetTheorems, SequenceTheorems, WellFoundedInduction, TLAPS

CallState == [at : Label, goal : {"idle", "ensure", "connect", "rpc", "retry"},
              attempt : 0 .. 2,
              link : {"none", "open", "lost"}]

\* The part of ManagedTypeOK the argument needs.
TypesUsed == now \in Nat \ {0} /\ openUntil \in Nat /\ call \in [Caller -> CallState]

\* A thread in the back-off or the start-up has the lock; in the back-off it
\* found the breaker closed.
RestartsAlone ==
    \A c \in Caller : /\ At(c, "backoff") => lock = c /\ openUntil = 0
                      /\ At(c, "boot") => lock = c

SupervisorInv == TypesUsed /\ RestartsAlone

\* A thread whose call state is replaced by another, the others' links apart.
LEMMA CallTypes ==
    ASSUME call \in [Caller -> CallState], NEW c \in Caller
    PROVE  /\ Idle \in CallState
           /\ Lost(call) \in [Caller -> CallState]
           /\ \A d \in Caller : Lost(call)[d].at = call[d].at
<1>1. Idle \in CallState
  BY DEF Idle, CallState, Label
<1>2. \A d \in Caller : /\ [call[d] EXCEPT !.link = "lost"] \in CallState
                        /\ [call[d] EXCEPT !.link = "lost"].at = call[d].at
  BY DEF CallState
<1>3. Lost(call) \in [Caller -> CallState]
  BY <1>2 DEF Lost
<1>4. \A d \in Caller : Lost(call)[d].at = call[d].at
  BY <1>2 DEF Lost
<1> QED
  BY <1>1, <1>3, <1>4

\* Initially nobody restarts anything.
LEMMA InitSupervisor == ManagedInit => SupervisorInv
  BY DEF ManagedInit, SupervisorInv, TypesUsed, RestartsAlone, CallState, Idle, Label, At

\* What a step of thread c does to the supervisor: a lock or a breaker that
\* another thread relies on is left alone.
Effect(c) ==
    /\ now' = now /\ openUntil' \in Nat
    /\ call' \in [Caller -> CallState]
    /\ \A d \in Caller \ {c} : call'[d].at = call[d].at
    /\ call'[c].at = "backoff" => lock' = c /\ openUntil' = 0
    /\ call'[c].at = "boot" => lock' = c
    /\ \/ lock \in {NoCaller, c}
       \/ lock' \in {lock, Freed(lock, c)} /\ openUntil' = openUntil

\* Such a step keeps the invariant: another thread in the back-off has the lock.
LEMMA EffectKeeps ==
    ASSUME SupervisorInv, NEW c \in Caller, Effect(c)
    PROVE  SupervisorInv'
<1>1. ASSUME NEW d \in Caller \ {c}
      PROVE  /\ At(d, "backoff")' => lock' = d /\ openUntil' = 0
             /\ At(d, "boot")' => lock' = d
  <2>1. call'[d].at = call[d].at
    BY DEF Effect
  <2>2. CASE lock = d
    <3>1. lock' = lock /\ openUntil' = openUntil
      BY <2>2, ManagedAssumption DEF Effect, Freed
    <3> QED
      BY <2>1, <2>2, <3>1 DEF At, SupervisorInv, RestartsAlone
  <2>3. CASE lock # d
    BY <2>1, <2>3 DEF At, SupervisorInv, RestartsAlone
  <2> QED
    BY <2>2, <2>3
<1>2. RestartsAlone'
  BY <1>1 DEF RestartsAlone, Effect, At
<1> QED
  BY <1>2 DEF SupervisorInv, TypesUsed, Effect

\* The new state of one thread.
LEMMA OneThread ==
    ASSUME call \in [Caller -> CallState], NEW c \in Caller, NEW state \in CallState,
           NEW before, before \in [Caller -> CallState],
           \A d \in Caller : before[d].at = call[d].at,
           call' = [before EXCEPT ![c] = state]
    PROVE  /\ call' \in [Caller -> CallState]
           /\ \A d \in Caller \ {c} : call'[d].at = call[d].at
           /\ call'[c] = state
  OBVIOUS

\* A thread that returns, whatever becomes of the breaker if it had the lock.
LEMMA LeaveEffect ==
    ASSUME SupervisorInv, NEW c \in Caller, Leave(c), now' = now,
           openUntil' \in Nat,
           lock \in {NoCaller, c} \/ openUntil' = openUntil
    PROVE  Effect(c)
<1>1. /\ call' \in [Caller -> CallState] /\ call'[c] = Idle
      /\ \A d \in Caller \ {c} : call'[d].at = call[d].at
  <2>1. call' = [call EXCEPT ![c] = Idle] /\ call \in [Caller -> CallState]
    BY DEF Leave, SupervisorInv, TypesUsed
  <2> QED
    BY <2>1, CallTypes, OneThread
<1>2. Idle.at \notin {"backoff", "boot"}
  BY DEF Idle
<1> QED
  BY <1>1, <1>2 DEF Effect, Leave, SupervisorInv

\* A thread that goes to another place of its call and touches neither the lock
\* nor the breaker.
LEMMA GoEffect ==
    ASSUME SupervisorInv, NEW c \in Caller, NEW state \in CallState,
           call' = [call EXCEPT ![c] = state], state.at # "backoff",
           state.at = "boot" => lock' = c,
           UNCHANGED <<now, openUntil>>,
           lock' = lock \/ lock \in {NoCaller, c}
    PROVE  Effect(c)
<1>1. /\ call' \in [Caller -> CallState] /\ call'[c] = state
      /\ \A d \in Caller \ {c} : call'[d].at = call[d].at
  BY OneThread DEF SupervisorInv, TypesUsed
<1> QED
  BY <1>1 DEF Effect, SupervisorInv, TypesUsed

\* _start_unlocked under the supervisor lock.
LEMMA StartUnlockedEffect ==
    ASSUME SupervisorInv, NEW c \in Caller,
           NEW goal \in {"idle", "ensure", "connect", "rpc", "retry"},
           StartUnlocked(c, goal), UNCHANGED <<now, openUntil>>,
           lock \in {NoCaller, c}
    PROVE  Effect(c)
<1>2. CASE Boot(c, goal)
  <2> DEFINE state == [call[c] EXCEPT !.at = "boot", !.goal = goal]
  <2>1. state \in CallState /\ state.at # "backoff"
    BY DEF SupervisorInv, TypesUsed, CallState, Label
  <2>2. call' = [call EXCEPT ![c] = state] /\ lock' = c
    BY <1>2 DEF Boot, SupervisorInv, TypesUsed
  <2> HIDE DEF state
  <2> QED
    BY <2>1, <2>2, GoEffect
<1>3. CASE Leave(c)
  BY <1>3, LeaveEffect DEF SupervisorInv, TypesUsed
<1> QED
  BY <1>2, <1>3 DEF StartUnlocked

\* _record_failure_and_restart, called with the breaker closed: it is reset
\* before the back-off, so that the restart that follows is not under an open one.
LEMMA RecordFailureEffect ==
    ASSUME SupervisorInv, NEW c \in Caller, NEW goal \in {"connect", "retry"},
           RecordFailure(c, goal), now' = now, ~ BreakerIsOpen, lock = NoCaller
    PROVE  Effect(c)
<1>1. CASE shut /\ Leave(c) /\ UNCHANGED <<process, client, breaker>>
  BY <1>1, LeaveEffect DEF breaker, SupervisorInv, TypesUsed
<1>2. CASE OpenBreaker(c)
  <2>1. now + Cooldown \in Nat
    BY ManagedAssumption, SMT DEF SupervisorInv, TypesUsed
  <2> QED
    BY <1>2, <2>1, LeaveEffect DEF OpenBreaker
<1>3. CASE GoDown(c, goal)
  <2> DEFINE state == [Lost(call)[c] EXCEPT !.at = "backoff", !.goal = goal, !.link = "none"]
  <2>1. Lost(call) \in [Caller -> CallState] /\ \A d \in Caller : Lost(call)[d].at = call[d].at
    BY CallTypes DEF SupervisorInv, TypesUsed
  <2>2. state \in CallState /\ state.at # "boot"
    <3>1. \A old \in CallState :
             LET new == [old EXCEPT !.at = "backoff", !.goal = goal, !.link = "none"]
             IN  new \in CallState /\ new.at # "boot"
      BY ZenonT(60) DEF CallState, Label
    <3> QED
      BY <2>1, <3>1
  <2>3. call' = [Lost(call) EXCEPT ![c] = state]
    BY <1>3, <2>1 DEF GoDown
  <2>4. openUntil' = 0
    BY <1>3, SMT DEF GoDown, HalfClosed, BreakerIsOpen, SupervisorInv, TypesUsed
  <2>5. lock' = c
    BY <1>3 DEF GoDown
  <2> HIDE DEF state
  <2>6. /\ call' \in [Caller -> CallState]
        /\ \A d \in Caller \ {c} : call'[d].at = call[d].at
        /\ call'[c] = state
    BY <2>1, <2>2, <2>3, OneThread DEF SupervisorInv, TypesUsed
  <2> QED
    BY <2>4, <2>5, <2>6 DEF Effect, SupervisorInv
<1> QED
  BY <1>1, <1>2, <1>3 DEF RecordFailure

\* The steps of a call that take the supervisor lock, or hold it.
LEMMA SupervisorStepEffect ==
    ASSUME SupervisorInv, NEW c \in Caller,
           \/ Start(c) \/ EnsureReady(c) \/ BackoffEnds(c)
           \/ BootSucceeds(c) \/ BootFails(c) \/ Recover(c)
    PROVE  Effect(c)
<1> USE DEF SupervisorInv, TypesUsed
<1>1. ASSUME NEW label \in Label \ {"backoff", "boot"}, Go(c, label),
             UNCHANGED <<now, openUntil>>,
             lock' = lock \/ lock \in {NoCaller, c}
      PROVE  Effect(c)
  <2> DEFINE state == [call[c] EXCEPT !.at = label]
  <2>1. /\ state \in CallState /\ state.at \notin {"backoff", "boot"}
        /\ call' = [call EXCEPT ![c] = state]
    BY <1>1 DEF CallState, Go
  <2> HIDE DEF state
  <2> QED
    BY <1>1, <2>1, GoEffect
<1>2. CASE Start(c)
  <2> DEFINE goal == IF At(c, "handle") THEN "ensure" ELSE "rpc"
  <2>1. UNCHANGED <<now, openUntil>> /\ lock = NoCaller
    BY <1>2 DEF Start, breaker
  <2>2. CASE Leave(c) /\ UNCHANGED process
    BY <2>1, <2>2, LeaveEffect
  <2>5. CASE Go(c, "recover") /\ UNCHANGED <<handle, lock, process>>
    BY <1>1, <2>1, <2>5 DEF Label
  <2>3. CASE Go(c, goal) /\ UNCHANGED <<lock, process>>
    <3>1. goal \in Label \ {"backoff", "boot"}
      BY DEF Label
    <3> QED
      BY <1>1, <2>1, <2>3, <3>1
  <2>4. CASE StartUnlocked(c, goal)
    BY <2>1, <2>4, StartUnlockedEffect
  <2> QED
    BY <1>2, <2>2, <2>3, <2>4, <2>5 DEF Start
<1>3. CASE EnsureReady(c)
  <2>1. lock = NoCaller /\ now' = now
    BY <1>3 DEF EnsureReady
  <2>2. CASE Leave(c) /\ UNCHANGED <<process, client, breaker>>
    BY <2>1, <2>2, LeaveEffect DEF breaker
  <2>3. CASE StartUnlocked(c, "connect") /\ UNCHANGED <<client, breaker>>
    BY <2>1, <2>3, StartUnlockedEffect DEF breaker
  <2>4. CASE Go(c, "connect") /\ UNCHANGED <<handle, lock, process, client, breaker>>
    BY <1>1, <2>1, <2>4 DEF breaker, Label
  <2>5. CASE ~ BreakerIsOpen /\ RecordFailure(c, "connect")
    BY <2>1, <2>5, RecordFailureEffect
  <2> QED
    BY <1>3, <2>2, <2>3, <2>4, <2>5 DEF EnsureReady
<1>4. CASE BackoffEnds(c)
  <2>1. /\ lock = c /\ UNCHANGED <<now, openUntil>> /\ StartUnlocked(c, call[c].goal)
        /\ call[c].goal \in {"idle", "ensure", "connect", "rpc", "retry"}
    BY <1>4 DEF BackoffEnds, RestartsAlone, CallState
  <2> QED
    BY <2>1, StartUnlockedEffect
<1>5. CASE BootSucceeds(c)
  <2>1. /\ Go(c, call[c].goal) /\ UNCHANGED <<now, openUntil>>
        /\ lock = c /\ call[c].goal \in Label \ {"backoff", "boot"}
    BY <1>5 DEF BootSucceeds, RestartsAlone, CallState, Label
  <2> QED
    BY <1>1, <2>1
<1>6. CASE BootFails(c)
  <2>1. lock = c /\ UNCHANGED <<now, openUntil>>
    BY <1>6 DEF BootFails, RestartsAlone
  <2>2. CASE Leave(c)
    BY <2>1, <2>2, LeaveEffect
  <2>3. CASE Go(c, "recover")
    BY <1>1, <2>1, <2>3 DEF Label
  <2> QED
    BY <1>6, <2>2, <2>3 DEF BootFails
<1>7. CASE Recover(c)
  <2>1. lock = NoCaller /\ now' = now
    BY <1>7 DEF Recover
  <2>2. CASE Leave(c) /\ UNCHANGED <<process, client, breaker>>
    BY <2>1, <2>2, LeaveEffect DEF breaker
  <2>3. CASE ~ BreakerIsOpen /\ RecordFailure(c, "retry")
    BY <2>1, <2>3, RecordFailureEffect
  <2> QED
    BY <1>7, <2>2, <2>3 DEF Recover
<1> QED
  BY <1>2, <1>3, <1>4, <1>5, <1>6, <1>7

\* The states a call goes through outside the supervisor lock.
LEMMA CallStates ==
    ASSUME NEW old \in CallState
    PROVE  /\ [old EXCEPT !.at = "enter", !.attempt = 1] \in CallState
           /\ [old EXCEPT !.at = "connect", !.attempt = 2] \in CallState
           /\ \A label \in Label : /\ [old EXCEPT !.at = label] \in CallState
                                   /\ [old EXCEPT !.at = label].at = label
           /\ \A link \in {"none", "open", "lost"} :
                 [old EXCEPT !.at = "wait", !.link = link] \in CallState
           /\ [old EXCEPT !.at = "recover", !.link = "none"] \in CallState
<1>0. \A label \in Label, n \in 0 .. 2 : [old EXCEPT !.at = label, !.attempt = n] \in CallState
  <2>1. \A S : old \in [at : Label, goal : {"idle", "ensure", "connect", "rpc", "retry"},
                        attempt : S,
                        link : {"none", "open", "lost"}]
               => \A label \in Label, n \in S :
                     [old EXCEPT !.at = label, !.attempt = n]
                        \in [at : Label, goal : {"idle", "ensure", "connect", "rpc", "retry"},
                             attempt : S,
                             link : {"none", "open", "lost"}]
    OBVIOUS
  <2> QED
    BY <2>1 DEF CallState
<1>1. [old EXCEPT !.at = "enter", !.attempt = 1] \in CallState
  <2>1. "enter" \in Label /\ 1 \in 0 .. 2
    BY DEF Label
  <2> QED
    BY <1>0, <2>1
<1>2. [old EXCEPT !.at = "connect", !.attempt = 2] \in CallState
  <2>1. "connect" \in Label /\ 2 \in 0 .. 2
    BY DEF Label
  <2> QED
    BY <1>0, <2>1
<1>3. \A label \in Label : /\ [old EXCEPT !.at = label] \in CallState
                           /\ [old EXCEPT !.at = label].at = label
  BY DEF CallState
<1>4. \A link \in {"none", "open", "lost"} :
         [old EXCEPT !.at = "wait", !.link = link] \in CallState
  BY DEF CallState, Label
<1>5. [old EXCEPT !.at = "recover", !.link = "none"] \in CallState
  BY DEF CallState, Label
<1> QED
  BY <1>1, <1>2, <1>3, <1>4, <1>5

\* A thread returns, or goes where it needs no lock.
Moves(c) ==
    \/ Leave(c)
    \/ /\ lock' = lock
       /\ \E state \in CallState : /\ call' = [call EXCEPT ![c] = state]
                                   /\ state.at \notin {"backoff", "boot"}

\* A call that fails is tried once more or given up.
LEMMA FailMoves ==
    ASSUME NEW c \in Caller, call \in [Caller -> CallState],
           Fail(c)
    PROVE  Moves(c)
<1> DEFINE failed == [call[c] EXCEPT !.at = "recover", !.link = "none"]
<1>1. failed \in CallState
  BY CallStates
<1>2. failed.at = "recover"
  BY <1>1 DEF CallState
<1>3. CASE Leave(c)
  BY <1>3 DEF Moves
<1>4. CASE ~ Leave(c)
  <2>1. lock' = lock
    BY <1>4 DEF Fail
  <2>2. call' = [call EXCEPT ![c].at = "recover", ![c].link = "none"]
    BY <1>4 DEF Fail
  <2>3. call' = [call EXCEPT ![c] = failed]
    BY <2>2
  <2> HIDE DEF failed
  <2> QED
    BY <1>1, <1>2, <2>1, <2>3 DEF Moves
<1> QED
  BY <1>3, <1>4

\* The steps of a call outside the supervisor lock.
LEMMA CallMoves ==
    ASSUME NEW c \in Caller, call \in [Caller -> CallState],
           \/ Submit(c) \/ Enter(c) \/ Send(c) \/ Succeed(c) \/ FailClosed(c) \/ Retry(c)
    PROVE  Moves(c)
<1> DEFINE entered == [call[c] EXCEPT !.at = "enter", !.attempt = 1]
           again   == [call[c] EXCEPT !.at = "connect", !.attempt = 2]
           sent    == [call[c] EXCEPT !.at = "wait", !.link = IF Ready THEN "open" ELSE "lost"]
           to(label) == [call[c] EXCEPT !.at = label]
<1>1. /\ entered \in CallState /\ again \in CallState /\ sent \in CallState
      /\ \A label \in Label : to(label) \in CallState /\ to(label).at = label
  BY CallStates
<1>2. entered.at = "enter" /\ again.at = "connect" /\ sent.at = "wait"
  BY <1>1 DEF CallState
<1>3. \A label : Go(c, label) => call' = [call EXCEPT ![c] = to(label)]
  BY DEF Go
<1>4. CASE Submit(c)
  <2>1. lock' = lock /\ call' = [call EXCEPT ![c] = entered]
    BY <1>4 DEF Submit
  <2> HIDE DEF entered
  <2> QED
    BY <1>1, <1>2, <2>1 DEF Moves
<1>5. CASE Retry(c)
  <2>1. lock' = lock /\ call' = [call EXCEPT ![c] = again]
    BY <1>5 DEF Retry
  <2> HIDE DEF again
  <2> QED
    BY <1>1, <1>2, <2>1 DEF Moves
<1>6. CASE Enter(c)
  <2>1. lock' = lock /\ (Go(c, "ensure") \/ Go(c, "handle"))
    BY <1>6 DEF Enter
  <2> HIDE DEF to
  <2> QED
    BY <1>1, <1>3, <2>1 DEF Moves, Label
<1>7. CASE Send(c)
  <2>1. \/ Leave(c)
        \/ lock' = lock /\ (call' = [call EXCEPT ![c] = sent] \/ Go(c, "recover"))
    BY <1>7 DEF Send
  <2> HIDE DEF to, sent
  <2> QED
    BY <1>1, <1>2, <1>3, <2>1 DEF Moves, Label
<1>8. CASE Succeed(c) \/ FailClosed(c)
  BY <1>8 DEF Succeed, FailClosed, Moves
<1> QED
  BY <1>4, <1>5, <1>6, <1>7, <1>8

\* None of them touches the breaker or a process.
LEMMA CallStepEffect ==
    ASSUME SupervisorInv, NEW c \in Caller,
           \/ Submit(c) \/ Enter(c) \/ Send(c) \/ Succeed(c) \/ Fail(c) \/ FailClosed(c)
           \/ Retry(c)
    PROVE  Effect(c)
<1>1. UNCHANGED <<now, openUntil>>
  BY DEF Submit, Enter, Send, Succeed, FailClosed, Retry, Fail, breaker
<1>2. Moves(c)
  BY CallMoves, FailMoves DEF SupervisorInv, TypesUsed
<1> QED
  BY <1>1, <1>2, LeaveEffect, GoEffect DEF Moves, SupervisorInv, TypesUsed

\* The shut-down, the process and the clock: no thread moves, and the lock is
\* touched by none.
LEMMA OtherStepKeeps ==
    ASSUME SupervisorInv, Shutdown \/ ProcessStep \/ Tick \/ UNCHANGED vars
    PROVE  SupervisorInv'
<1>1. /\ now' \in Nat \ {0} /\ UNCHANGED <<lock, openUntil>>
      /\ call' \in [Caller -> CallState] /\ \A c \in Caller : call'[c].at = call[c].at
  <2>1. now' = now \/ now' = now + 1
    BY DEF Shutdown, ProcessStep, Tick, vars
  <2>2. UNCHANGED <<lock, openUntil>>
    BY DEF Shutdown, ProcessStep, Tick, breaker, vars
  <2>3. call' = call \/ call' = Lost(call)
    BY DEF Shutdown, ProcessStep, Tick, vars
  <2>4. call \in [Caller -> CallState] /\ now \in Nat \ {0}
    BY DEF SupervisorInv, TypesUsed
  <2>5. /\ call' \in [Caller -> CallState]
        /\ \A c \in Caller : call'[c].at = call[c].at
    <3>1. ASSUME NEW c \in Caller
          PROVE  Lost(call) \in [Caller -> CallState] /\ Lost(call)[c].at = call[c].at
      BY <2>4, CallTypes
    <3>2. CASE call' = call
      BY <2>4, <3>2
    <3>3. CASE call' = Lost(call)
      <4>1. Lost(call) \in [Caller -> CallState]
        BY <2>4, <3>1 DEF Lost
      <4> QED
        BY <3>1, <3>3, <4>1
    <3> QED
      BY <2>3, <3>2, <3>3
  <2> QED
    BY <2>1, <2>2, <2>4, <2>5
<1> QED
  BY <1>1 DEF SupervisorInv, TypesUsed, RestartsAlone, At

\* Every step keeps the invariant.
LEMMA NextSupervisor == SupervisorInv /\ [ManagedNext]_vars => SupervisorInv'
<1> SUFFICES ASSUME SupervisorInv, [ManagedNext]_vars
             PROVE  SupervisorInv'
  OBVIOUS
<1>1. ASSUME NEW c \in Caller, Submit(c) \/ ThreadStep(c)
      PROVE  SupervisorInv'
  BY <1>1, SupervisorStepEffect, CallStepEffect, EffectKeeps DEF ThreadStep
<1> QED
  BY <1>1, OtherStepKeeps DEF ManagedNext

\* The invariant holds in every reachable state.
LEMMA SupervisorCorrect == ManagedSpec => []SupervisorInv
  BY InitSupervisor, NextSupervisor, PTL DEF ManagedSpec

\* While the breaker is open no process is started: a thread that waits out the
\* back-off of a restart has kept the lock, and nobody else opened the breaker.
THEOREM CooldownIsKept == ManagedSpec => CooldownRests
<1>1. ASSUME SupervisorInv, ManagedNext, BreakerIsOpen, process' = "booting"
      PROVE  process = "booting"
  <2>1. ASSUME NEW c \in Caller, Start(c) \/ EnsureReady(c) \/ Recover(c)
        PROVE  process = "booting"
    BY <1>1, <2>1 DEF Start, EnsureReady, Recover
  <2>2. ASSUME NEW c \in Caller, BackoffEnds(c)
        PROVE  process = "booting"
    BY <1>1, <2>2, SMT DEF BackoffEnds, SupervisorInv, TypesUsed, RestartsAlone, BreakerIsOpen
  <2>3. ASSUME NEW c \in Caller,
               \/ Submit(c) \/ Enter(c) \/ BootSucceeds(c) \/ BootFails(c)
               \/ Send(c) \/ Succeed(c) \/ Fail(c) \/ FailClosed(c) \/ Retry(c)
        PROVE  process = "booting"
    BY <1>1, <2>3 DEF Submit, Enter, BootSucceeds, BootFails, Send, Succeed, FailClosed, Retry,
                      Fail
  <2>4. CASE Shutdown \/ ProcessStep \/ Tick
    BY <1>1, <2>4 DEF Shutdown, ProcessStep, Tick
  <2> QED
    BY <1>1, <2>1, <2>2, <2>3, <2>4 DEF ManagedNext, ThreadStep
<1>2. SupervisorInv /\ [ManagedNext]_vars
         => [BreakerIsOpen /\ process' = "booting" => process = "booting"]_vars
  BY <1>1
<1> QED
  BY <1>2, SupervisorCorrect, PTL DEF ManagedSpec, CooldownRests

-------------------------------------------------------------------------------
(* The restart budget: what was pruned from the stamps is out of the       *)
(* window or before a cool-down, and what is kept are the last restarts.   *)

Dropped == Len(restarts) - Len(stamps)

BudgetTypes ==
    /\ now \in Nat /\ openUntil \in Nat
    /\ restarts \in Seq([at : Nat, probe : BOOLEAN]) /\ stamps \in Seq(Nat)

\* The clock never goes back.
Ordered ==
    /\ \A i, j \in DOMAIN restarts : i <= j => restarts[i].at <= restarts[j].at
    /\ \A i \in DOMAIN restarts : restarts[i].at <= now

\* The stamps are the last of the restarts.
StampsAreLast ==
    /\ Dropped \in Nat
    /\ \A i \in DOMAIN stamps : stamps[i] = restarts[Dropped + i].at

\* There was a cool-down between two of all restarts.
Divided(all, i, j) == \E p \in (i + 1) .. j : all[p].probe

\* A restart without a stamp is out of the window or before a cool-down.
DroppedIsOld ==
    \A i \in DOMAIN restarts :
        i <= Dropped => now - restarts[i].at >= Window \/ Divided(restarts, i, Len(restarts))

\* A restart and the MaxRestarts-th after it are a window or a cool-down apart.
Spaced ==
    \A i, j \in DOMAIN restarts :
        j = i + MaxRestarts => restarts[j].at - restarts[i].at >= Window \/ Divided(restarts, i, j)

\* A cool-down lies between a probe and the restart before it.
ProbeIsLate ==
    \A p \in DOMAIN restarts :
        p > 1 /\ restarts[p].probe => restarts[p].at - restarts[p - 1].at >= Cooldown

\* All restarts were before the breaker opened.
OpenedAfter == openUntil # 0 => \A i \in DOMAIN restarts : restarts[i].at + Cooldown <= openUntil

\* Of the restarts with a stamp only the first may be a probe.
FirstIsProbe == \A i \in DOMAIN restarts : i > Dropped + 1 => ~ restarts[i].probe

BudgetInv ==
    /\ BudgetTypes /\ Ordered /\ StampsAreLast /\ DroppedIsOld /\ Spaced
    /\ ProbeIsLate /\ OpenedAfter /\ FirstIsProbe
    /\ MaxRestarts = 0 => restarts = << >>

\* A set of numbers that has an element has a least one.
LEMMA LeastOfSome ==
    ASSUME NEW S \in SUBSET Nat, S # {}
    PROVE  \E x \in S : \A y \in S : x <= y
<1>1. \E x \in S : \A y \in S : ~ (<<y, x>> \in OpToRel(<, Nat))
  BY ONLY S \in SUBSET Nat, S # {}, NatLessThanWellFounded, WFMin
<1>2. PICK x \in S : \A y \in S : ~ (<<y, x>> \in OpToRel(<, Nat))
  BY <1>1
<1>3. \A y \in S : ~ (y < x)
  BY <1>2 DEF OpToRel
<1> QED
  BY <1>3

\* The old ones of stamps in order are the first ones: there is a place to cut.
LEMMA CutExists ==
    ASSUME NEW s \in Seq(Nat), NEW t \in Nat,
           \A i, j \in DOMAIN s : i <= j => s[i] <= s[j]
    PROVE  \E k \in 1 .. Len(s) + 1 : \A j \in DOMAIN s : j >= k <=> t - s[j] < Window
<1> DEFINE fresh == {j \in DOMAIN s : t - s[j] < Window}
<1>0. Len(s) \in Nat /\ DOMAIN s = 1 .. Len(s) /\ \A i \in DOMAIN s : s[i] \in Nat
  OBVIOUS
<1>1. CASE fresh = {}
  <2>1. \A j \in DOMAIN s : j >= Len(s) + 1 <=> t - s[j] < Window
    BY <1>0, <1>1
  <2> QED
    BY <1>0, <2>1
<1>2. CASE fresh # {}
  <2>1. fresh \in SUBSET Nat
    BY <1>0
  <2>2. PICK k \in fresh : \A j \in fresh : k <= j
    BY ONLY <1>2, <2>1, LeastOfSome
  <2>3. \A j \in DOMAIN s : j >= k <=> t - s[j] < Window
    BY <1>0, <2>2, ManagedAssumption, SMTT(30)
  <2>4. k \in 1 .. Len(s) + 1
    BY <1>0, <2>2
  <2> QED
    BY ONLY <2>3, <2>4
<1> QED
  BY <1>1, <1>2

\* The elements of a sequence, at its places.
LEMMA SeqFacts ==
    ASSUME NEW S, NEW s \in Seq(S)
    PROVE  Len(s) \in Nat /\ DOMAIN s = 1 .. Len(s) /\ \A i \in 1 .. Len(s) : s[i] \in S
OBVIOUS

\* The types, place by place.
LEMMA BudgetFacts ==
    ASSUME BudgetInv
    PROVE  /\ now \in Nat /\ openUntil \in Nat
           /\ stamps \in Seq(Nat) /\ Len(stamps) \in Nat /\ DOMAIN stamps = 1 .. Len(stamps)
           /\ restarts \in Seq([at : Nat, probe : BOOLEAN])
           /\ Len(restarts) \in Nat /\ DOMAIN restarts = 1 .. Len(restarts)
           /\ \A i \in 1 .. Len(restarts) : restarts[i].at \in Nat
<1>1. BudgetTypes
  BY DEF BudgetInv
<1>2. /\ now \in Nat /\ openUntil \in Nat /\ stamps \in Seq(Nat)
      /\ restarts \in Seq([at : Nat, probe : BOOLEAN])
  BY ONLY <1>1 DEF BudgetTypes
<1>3. Len(stamps) \in Nat /\ DOMAIN stamps = 1 .. Len(stamps)
  BY ONLY <1>2, SeqFacts
<1>4. /\ Len(restarts) \in Nat /\ DOMAIN restarts = 1 .. Len(restarts)
      /\ \A i \in 1 .. Len(restarts) : restarts[i] \in [at : Nat, probe : BOOLEAN]
  BY ONLY <1>2, SeqFacts
<1>5. \A i \in 1 .. Len(restarts) : restarts[i].at \in Nat
  BY ONLY <1>4
<1> QED
  BY <1>2, <1>3, <1>4, <1>5

\* The rest of a sequence, from one of its places on.
LEMMA SuffixFacts ==
    ASSUME NEW s \in Seq(Nat), NEW k \in 1 .. Len(s) + 1
    PROVE  /\ SubSeq(s, k, Len(s)) \in Seq(Nat) /\ Len(SubSeq(s, k, Len(s))) = Len(s) - k + 1
           /\ \A i \in 1 .. Len(s) - k + 1 : SubSeq(s, k, Len(s))[i] = s[k + i - 1]
<1>1. Len(s) \in Nat /\ \A i \in 1 .. Len(s) : s[i] \in Nat
  OBVIOUS
<1>2. \A i \in k .. Len(s) : s[i] \in Nat
  BY <1>1
<1> QED
  BY ONLY <1>1, <1>2, k \in 1 .. Len(s) + 1, SubSeqProperties

\* Pruning keeps the last ones, those in the window; what it drops is out of it,
\* or before the cool-down that is just over.
LEMMA RecentIsLast ==
    ASSUME BudgetInv
    PROVE  /\ Recent \in Seq(Nat) /\ Len(restarts) - Len(Recent) \in Nat
           /\ \A i \in DOMAIN Recent : /\ Recent[i] = restarts[Len(restarts) - Len(Recent) + i].at
                                       /\ now - Recent[i] < Window
           /\ \A i \in DOMAIN restarts :
                 /\ i <= Len(restarts) - Len(Recent) =>
                    now - restarts[i].at >= Window \/ Divided(restarts, i, Len(restarts)) \/ HalfClosed
                 /\ i > Len(restarts) - Len(Recent) + 1 => ~ restarts[i].probe
           /\ HalfClosed => Len(Recent) = 0
<1> DEFINE good(k) == \A j \in DOMAIN Kept : j >= k <=> now - Kept[j] < Window
           cut == CHOOSE k \in 1 .. Len(Kept) + 1 : good(k)
           n == Len(restarts)
<1>1. /\ Kept \in Seq(Nat) /\ n \in Nat /\ now \in Nat /\ DOMAIN restarts = 1 .. n
      /\ \A i \in 1 .. n : restarts[i].at \in Nat
      /\ \A i, j \in DOMAIN Kept : i <= j => Kept[i] <= Kept[j]
  <2>1. /\ stamps \in Seq(Nat) /\ n \in Nat /\ now \in Nat /\ DOMAIN restarts = 1 .. n
        /\ \A i \in 1 .. n : restarts[i].at \in Nat
    BY BudgetFacts
  <2>2. ASSUME NEW i \in DOMAIN stamps, NEW j \in DOMAIN stamps, i <= j
        PROVE  stamps[i] <= stamps[j]
    <3>1. /\ Dropped + i \in 1 .. n /\ Dropped + j \in 1 .. n /\ Dropped + i <= Dropped + j
      <4>1. Len(stamps) \in Nat /\ i \in 1 .. Len(stamps) /\ j \in 1 .. Len(stamps)
        BY <2>1, <2>2
      <4>2. Dropped \in Nat /\ n = Dropped + Len(stamps)
        BY <2>1, <4>1 DEF BudgetInv, StampsAreLast, Dropped
      <4> QED
        BY ONLY <2>1, <2>2, <4>1, <4>2
    <3> QED
      BY <2>1, <2>2, <3>1 DEF BudgetInv, StampsAreLast, Ordered
  <2>3. Kept = << >> \/ Kept = stamps
    BY DEF Kept
  <2> HIDE DEF n
  <2>4. CASE Kept = << >>
    BY <2>1, <2>4
  <2>5. CASE Kept = stamps
    BY <2>1, <2>2, <2>5
  <2> QED
    BY <2>3, <2>4, <2>5
<1>2. Len(Kept) \in Nat /\ DOMAIN Kept = 1 .. Len(Kept)
  BY <1>1
<1>3. cut \in 1 .. Len(Kept) + 1 /\ good(cut)
  <2>1. \E k \in 1 .. Len(Kept) + 1 : good(k)
    BY <1>1, CutExists
  <2> QED
    BY <2>1
<1>4. Recent = SubSeq(Kept, cut, Len(Kept))
  BY DEF Recent
<1> HIDE DEF cut
<1>5. /\ Recent \in Seq(Nat) /\ Len(Recent) = Len(Kept) - cut + 1
      /\ \A i \in 1 .. Len(Recent) : Recent[i] = Kept[cut - 1 + i]
  <2>1. \A i \in cut .. Len(Kept) : Kept[i] \in Nat
    BY <1>1, <1>2, <1>3
  <2>2. /\ Recent \in Seq(Nat) /\ Len(Recent) = Len(Kept) - cut + 1
        /\ \A i \in 1 .. Len(Kept) - cut + 1 : Recent[i] = Kept[cut + i - 1]
    BY ONLY <1>1, <1>2, <1>3, <1>4, SuffixFacts
  <2>3. \A i \in 1 .. Len(Recent) : cut + i - 1 = cut - 1 + i
    BY ONLY <1>2, <1>3, <2>2
  <2> QED
    BY <2>2, <2>3
<1>6. \A i \in 1 .. Len(Recent) : now - Recent[i] < Window
  <2> SUFFICES ASSUME NEW i \in 1 .. Len(Recent) PROVE now - Recent[i] < Window
    OBVIOUS
  <2>1. cut - 1 + i \in DOMAIN Kept /\ cut - 1 + i >= cut
    BY <1>2, <1>3, <1>5, SMTT(30)
  <2> QED
    BY <1>3, <1>5, <2>1
<1>7. CASE HalfClosed
  <2>1. Kept = << >>
    BY <1>7 DEF Kept
  <2>2. Len(Recent) = 0 /\ DOMAIN Recent = {}
    BY <1>2, <1>3, <1>5, <2>1
  <2> QED
    BY <1>1, <1>5, <1>7, <2>2
<1>8. CASE ~ HalfClosed
  <2>1. Kept = stamps
    BY <1>8 DEF Kept
  <2>2. /\ Dropped \in Nat /\ n = Dropped + Len(Kept)
        /\ \A i \in 1 .. Len(Kept) : Kept[i] = restarts[Dropped + i].at
    <3>1. Dropped \in Nat /\ \A i \in DOMAIN stamps : stamps[i] = restarts[Dropped + i].at
      BY <1>1 DEF BudgetInv, StampsAreLast
    <3>2. Dropped = n - Len(Kept)
      BY <2>1 DEF Dropped, n
    <3>3. n = Dropped + Len(Kept)
      BY ONLY <1>1, <1>2, <3>1, <3>2
    <3>4. \A i \in 1 .. Len(Kept) : Kept[i] = restarts[Dropped + i].at
      BY ONLY <1>2, <2>1, <3>1
    <3> QED
      BY <3>1, <3>3, <3>4
  <2>3. n - Len(Recent) = Dropped + cut - 1 /\ n - Len(Recent) \in Nat
    BY ONLY <1>1, <1>2, <1>3, <1>5, <2>2
  <2>4. ASSUME NEW i \in 1 .. Len(Recent)
        PROVE  Recent[i] = restarts[n - Len(Recent) + i].at
    <3>1. cut - 1 + i \in 1 .. Len(Kept) /\ Dropped + (cut - 1 + i) = n - Len(Recent) + i
      <4>1. Len(Recent) \in Nat /\ cut \in Nat
        BY <1>2, <1>3, <1>5
      <4> QED
        BY ONLY <1>2, <1>3, <1>5, <2>2, <2>3, <4>1, i \in 1 .. Len(Recent), SMTT(30)
    <3> QED
      BY <1>5, <2>2, <3>1
  <2>5. ASSUME NEW i \in 1 .. n, i <= n - Len(Recent)
        PROVE  now - restarts[i].at >= Window \/ Divided(restarts, i, n)
    <3>1. CASE i <= Dropped
      BY <1>1, <3>1 DEF BudgetInv, DroppedIsOld
    <3>2. CASE i > Dropped
      <4>1. i - Dropped \in 1 .. Len(Kept) /\ ~ (i - Dropped >= cut) /\ Dropped + (i - Dropped) = i
        BY ONLY <1>1, <1>2, <1>3, <2>2, <2>3, <2>5, <3>2, i \in 1 .. n, SMTT(30)
      <4>2. ~ (now - Kept[i - Dropped] < Window) /\ Kept[i - Dropped] = restarts[i].at
        BY <1>2, <1>3, <2>2, <4>1
      <4>3. restarts[i].at \in Nat
        BY <1>1
      <4> QED
        BY ONLY <1>1, <4>2, <4>3, ManagedAssumption
    <3> QED
      BY <2>2, <3>1, <3>2
  <2>6. ASSUME NEW i \in 1 .. n, i > n - Len(Recent) + 1
        PROVE  ~ restarts[i].probe
    <3>1. i > Dropped + 1
      BY ONLY <1>1, <1>2, <1>3, <2>2, <2>3, <2>6, i \in 1 .. n
    <3> QED
      BY <1>1, <3>1 DEF BudgetInv, FirstIsProbe
  <2>7. DOMAIN Recent = 1 .. Len(Recent)
    BY <1>5
  <2> QED
    BY <1>1, <1>5, <1>6, <1>8, <2>3, <2>4, <2>5, <2>6, <2>7
<1> QED
  BY <1>7, <1>8

\* A step that leaves the breaker alone, with the clock or without.
LEMMA BreakerRests ==
    ASSUME BudgetInv, UNCHANGED breaker, now' \in {now, now + 1}
    PROVE  BudgetInv'
<1>1. /\ restarts' = restarts /\ stamps' = stamps /\ openUntil' = openUntil
      /\ now \in Nat /\ now' \in Nat /\ now' >= now
      /\ \A i \in DOMAIN restarts : restarts[i].at \in Nat
  BY BudgetFacts DEF breaker
<1>2. /\ BudgetTypes' /\ Spaced' /\ StampsAreLast' /\ ProbeIsLate' /\ OpenedAfter'
      /\ FirstIsProbe' /\ (MaxRestarts = 0 => restarts = << >>)'
  BY <1>1 DEF BudgetInv, BudgetTypes, Spaced, Divided, StampsAreLast, ProbeIsLate, OpenedAfter,
              FirstIsProbe, Dropped
<1>3. Ordered'
  <2>1. \A i \in DOMAIN restarts : restarts[i].at <= now'
    BY <1>1 DEF BudgetInv, Ordered
  <2> QED
    BY <1>1, <2>1 DEF BudgetInv, Ordered
<1>4. DroppedIsOld'
  <2>1. /\ Dropped' = Dropped /\ Len(restarts') = Len(restarts)
        /\ \A i, j : Divided(restarts', i, j) = Divided(restarts, i, j)
    BY <1>1 DEF Dropped, Divided
  <2>2. \A i \in DOMAIN restarts : now - restarts[i].at >= Window => now' - restarts[i].at >= Window
    BY <1>1, ManagedAssumption
  <2> QED
    BY <1>1, <2>1, <2>2 DEF BudgetInv, DroppedIsOld
<1> QED
  BY <1>2, <1>3, <1>4 DEF BudgetInv

\* The budget is used up: nothing is counted.
LEMMA OpenBreakerKeeps ==
    ASSUME BudgetInv, NEW c \in Caller, OpenBreaker(c), now' = now
    PROVE  BudgetInv'
<1>1. restarts' = restarts /\ stamps' = Recent /\ now' = now /\ openUntil' = now + Cooldown
  BY DEF OpenBreaker
<1>2. now \in Nat /\ Cooldown \in Nat \ {0} /\ MaxRestarts \in Nat
      /\ \A i \in DOMAIN restarts : restarts[i].at \in Nat
  BY ManagedAssumption, BudgetFacts
<1>3. BudgetTypes' /\ StampsAreLast' /\ FirstIsProbe'
  BY <1>1, <1>2, RecentIsLast DEF BudgetInv, BudgetTypes, StampsAreLast, FirstIsProbe, Dropped
<1>4. Ordered' /\ Spaced' /\ ProbeIsLate' /\ (MaxRestarts = 0 => restarts = << >>)'
  BY <1>1 DEF BudgetInv, Ordered, Spaced, Divided, ProbeIsLate
<1>5. OpenedAfter'
  <2>1. \A i \in DOMAIN restarts : restarts[i].at + Cooldown <= now + Cooldown
    BY <1>2 DEF BudgetInv, Ordered
  <2> QED
    BY <1>1, <2>1 DEF OpenedAfter
<1>6. DroppedIsOld'
  <2>1. CASE HalfClosed
    <3>1. MaxRestarts = 0
      <4>1. Len(Recent) = 0 /\ Len(Recent) >= MaxRestarts
        BY <2>1, RecentIsLast DEF OpenBreaker, BudgetUsed
      <4> QED
        BY ONLY <1>2, <4>1
    <3>2. restarts = << >>
      BY <3>1 DEF BudgetInv
    <3> QED
      BY <1>1, <3>2 DEF DroppedIsOld
  <2>2. CASE ~ HalfClosed
    <3>1. \A i \in DOMAIN restarts : i <= Len(restarts) - Len(Recent) =>
             now - restarts[i].at >= Window \/ Divided(restarts, i, Len(restarts))
      BY <2>2, RecentIsLast
    <3>2. /\ Dropped' = Len(restarts) - Len(Recent)
          /\ \A i, j : Divided(restarts', i, j) = Divided(restarts, i, j)
      BY <1>1 DEF Dropped, Divided
    <3> QED
      BY <1>1, <3>1, <3>2 DEF DroppedIsOld
  <2> QED
    BY <2>1, <2>2
<1> QED
  BY <1>3, <1>4, <1>5, <1>6 DEF BudgetInv

\* A restart is counted when less than MaxRestarts are in the window: the one
\* MaxRestarts before it was pruned, so it is old or the cool-down is over since.
LEMMA GoDownKeeps ==
    ASSUME BudgetInv, NEW c \in Caller, NEW goal, GoDown(c, goal), ~ BreakerIsOpen, now' = now
    PROVE  BudgetInv'
<1> DEFINE n == Len(restarts)
           m == Len(Recent)
           new == [at |-> now, probe |-> HalfClosed]
<1>1. /\ restarts' = Append(restarts, new) /\ stamps' = Append(Recent, now) /\ now' = now
      /\ now \in Nat /\ openUntil \in Nat /\ m < MaxRestarts /\ MaxRestarts \in Nat
      /\ openUntil' = 0
  <2>1. now \in Nat /\ openUntil \in Nat /\ MaxRestarts \in Nat
    BY ManagedAssumption DEF BudgetInv, BudgetTypes
  <2>2. m < MaxRestarts
    <3>1. m \in Nat /\ ~ (m >= MaxRestarts)
      BY RecentIsLast DEF GoDown, BudgetUsed
    <3> QED
      BY <2>1, <3>1
  <2>3. openUntil' = 0
    BY <2>1 DEF GoDown, HalfClosed, BreakerIsOpen
  <2> QED
    BY <2>1, <2>2, <2>3 DEF GoDown
<1>2. /\ restarts \in Seq([at : Nat, probe : BOOLEAN]) /\ Recent \in Seq(Nat)
      /\ n \in Nat /\ m \in Nat /\ n - m \in Nat
      /\ DOMAIN restarts = 1 .. n /\ DOMAIN Recent = 1 .. m
      /\ new \in [at : Nat, probe : BOOLEAN]
  BY <1>1, RecentIsLast DEF BudgetInv, BudgetTypes, HalfClosed
<1>3. /\ restarts' \in Seq([at : Nat, probe : BOOLEAN]) /\ Len(restarts') = n + 1
      /\ DOMAIN restarts' = 1 .. n + 1
      /\ restarts'[n + 1] = new /\ \A i \in 1 .. n : restarts'[i] = restarts[i]
  <2> HIDE DEF new
  <2> QED
    BY <1>1, <1>2
<1>4. /\ stamps' \in Seq(Nat) /\ Len(stamps') = m + 1 /\ DOMAIN stamps' = 1 .. m + 1
      /\ stamps'[m + 1] = now /\ \A i \in 1 .. m : stamps'[i] = Recent[i]
  BY <1>1, <1>2
<1>5. /\ \A i \in 1 .. m : Recent[i] = restarts[n - m + i].at
      /\ \A i \in 1 .. n :
            /\ i <= n - m => now - restarts[i].at >= Window \/ Divided(restarts, i, n) \/ HalfClosed
            /\ i > n - m + 1 => ~ restarts[i].probe
      /\ HalfClosed => m = 0
  BY <1>2, RecentIsLast
<1>6. /\ \A i, j \in 1 .. n : i <= j => restarts[i].at <= restarts[j].at
      /\ \A i \in 1 .. n : restarts[i].at <= now /\ restarts[i].at \in Nat
      /\ \A i, j \in 1 .. n :
            j = i + MaxRestarts => restarts[j].at - restarts[i].at >= Window
                                     \/ Divided(restarts, i, j)
      /\ \A p \in 1 .. n :
            p > 1 /\ restarts[p].probe => restarts[p].at - restarts[p - 1].at >= Cooldown
      /\ openUntil # 0 => \A i \in 1 .. n : restarts[i].at + Cooldown <= openUntil
  <2>1. /\ \A i, j \in 1 .. n : i <= j => restarts[i].at <= restarts[j].at
        /\ \A i \in 1 .. n : restarts[i].at <= now
    BY <1>2 DEF BudgetInv, Ordered
  <2>2. \A i, j \in 1 .. n :
            j = i + MaxRestarts => restarts[j].at - restarts[i].at >= Window
                                     \/ Divided(restarts, i, j)
    BY <1>2 DEF BudgetInv, Spaced
  <2>3. \A p \in 1 .. n :
            p > 1 /\ restarts[p].probe => restarts[p].at - restarts[p - 1].at >= Cooldown
    BY <1>2 DEF BudgetInv, ProbeIsLate
  <2>4. openUntil # 0 => \A i \in 1 .. n : restarts[i].at + Cooldown <= openUntil
    BY <1>2 DEF BudgetInv, OpenedAfter
  <2>5. \A i \in 1 .. n : restarts[i].at \in Nat
    BY BudgetFacts
  <2> QED
    BY <2>1, <2>2, <2>3, <2>4, <2>5
<1>7. new.at = now /\ new.probe = HalfClosed
  OBVIOUS
<1> HIDE DEF n, m, new
\* The probes between old restarts are still there.
<1>8. \A i, j \in 1 .. n :
         Divided(restarts, i, j) => Divided(restarts', i, j) /\ Divided(restarts', i, n + 1)
  <2> SUFFICES ASSUME NEW i \in 1 .. n, NEW j \in 1 .. n, Divided(restarts, i, j)
               PROVE  Divided(restarts', i, j) /\ Divided(restarts', i, n + 1)
    OBVIOUS
  <2>1. PICK p \in (i + 1) .. j : restarts[p].probe
    BY DEF Divided
  <2>2. p \in 1 .. n /\ p \in (i + 1) .. (n + 1)
    BY <1>2
  <2>3. restarts'[p].probe
    BY <1>3, <2>1, <2>2
  <2>4. \E q \in (i + 1) .. j : restarts'[q].probe
    BY <2>3
  <2>5. \E q \in (i + 1) .. (n + 1) : restarts'[q].probe
    BY <2>2, <2>3
  <2> QED
    BY <2>4, <2>5 DEF Divided
\* The new restart is far from those that were pruned.
<1>9. \A i \in 1 .. n : i <= n - m => now - restarts[i].at >= Window \/ Divided(restarts', i, n + 1)
  <2> SUFFICES ASSUME NEW i \in 1 .. n, i <= n - m, ~ (now - restarts[i].at >= Window)
               PROVE  Divided(restarts', i, n + 1)
    OBVIOUS
  <2>1. CASE Divided(restarts, i, n)
    <3>1. n \in 1 .. n
      BY <1>2
    <3> QED
      BY <1>8, <2>1, <3>1
  <2>2. CASE HalfClosed
    <3>1. n + 1 \in (i + 1) .. (n + 1) /\ restarts'[n + 1].probe
      BY <1>2, <1>3, <1>7, <2>2
    <3>2. \E q \in (i + 1) .. (n + 1) : restarts'[q].probe
      BY <3>1
    <3> QED
      BY <3>2 DEF Divided
  <2> QED
    BY <1>5, <2>1, <2>2
<1>10. Dropped' = n - m
  BY <1>2, <1>3, <1>4 DEF Dropped
<1>11. BudgetTypes' /\ (MaxRestarts = 0 => restarts = << >>)' /\ OpenedAfter'
  BY <1>1, <1>2, <1>3, <1>4 DEF BudgetTypes, OpenedAfter
<1>12. Ordered'
  <2>1. ASSUME NEW i \in 1 .. n + 1, NEW j \in 1 .. n + 1, i <= j
        PROVE  restarts'[i].at <= restarts'[j].at /\ restarts'[i].at <= now
    <3>1. CASE j = n + 1
      <4>1. restarts'[i].at <= now
        BY <1>1, <1>2, <1>3, <1>6, <1>7
      <4> QED
        BY <1>3, <1>7, <3>1, <4>1
    <3>2. CASE j # n + 1
      <4>1. i \in 1 .. n /\ j \in 1 .. n
        BY <1>2, <2>1, <3>2
      <4> QED
        BY <1>3, <1>6, <2>1, <4>1
    <3> QED
      BY <3>1, <3>2
  <2>2. \A i \in 1 .. n + 1 : restarts'[i].at <= now'
    <3>1. \A i \in 1 .. n + 1 : i <= i
      BY <1>2
    <3> QED
      BY <1>1, <2>1, <3>1
  <2> QED
    BY <1>3, <2>1, <2>2 DEF Ordered
<1>13. StampsAreLast'
  <2>1. \A i \in 1 .. m + 1 : stamps'[i] = restarts'[(n - m) + i].at
    <3> SUFFICES ASSUME NEW i \in 1 .. m + 1 PROVE stamps'[i] = restarts'[(n - m) + i].at
      OBVIOUS
    <3>1. CASE i = m + 1
      <4>1. (n - m) + i = n + 1
        BY ONLY <1>2, <3>1
      <4> QED
        BY <1>3, <1>4, <1>7, <3>1, <4>1
    <3>2. CASE i # m + 1
      <4>1. i \in 1 .. m /\ (n - m) + i \in 1 .. n /\ (n - m) + i = n - m + i
        BY ONLY <1>2, <3>2, i \in 1 .. m + 1
      <4> QED
        BY <1>3, <1>4, <1>5, <4>1
    <3> QED
      BY <3>1, <3>2
  <2> QED
    BY <1>2, <1>4, <1>10, <2>1 DEF StampsAreLast
<1>14. DroppedIsOld'
  <2>1. \A i \in 1 .. n + 1 : i <= n - m => i \in 1 .. n
    BY <1>2
  <2> QED
    BY <1>1, <1>3, <1>9, <1>10, <2>1 DEF DroppedIsOld
<1>15. FirstIsProbe'
  <2> SUFFICES ASSUME NEW i \in 1 .. n + 1, i > n - m + 1
               PROVE  ~ restarts'[i].probe
    BY <1>3, <1>10 DEF FirstIsProbe
  <2>1. CASE i = n + 1
    <3>1. m # 0
      BY ONLY <1>2, <2>1, i > n - m + 1
    <3> QED
      BY <1>3, <1>5, <1>7, <2>1, <3>1
  <2>2. CASE i # n + 1
    <3>1. i \in 1 .. n
      BY ONLY <1>2, <2>2, i \in 1 .. n + 1
    <3> QED
      BY <1>3, <1>5, <3>1
  <2> QED
    BY <2>1, <2>2
<1>16. ProbeIsLate'
  <2> SUFFICES ASSUME NEW p \in 1 .. n + 1, p > 1, restarts'[p].probe
               PROVE  restarts'[p].at - restarts'[p - 1].at >= Cooldown
    BY <1>3 DEF ProbeIsLate
  <2>1. CASE p = n + 1
    <3>1. n \in 1 .. n /\ p - 1 = n
      BY ONLY <1>2, <2>1, p > 1
    <3>2. openUntil # 0 /\ now >= openUntil
      BY <1>3, <1>7, <2>1 DEF HalfClosed
    <3>3. restarts[n].at + Cooldown <= openUntil /\ restarts[n].at \in Nat
      BY <1>6, <3>1, <3>2
    <3>4. now - restarts[n].at >= Cooldown
      BY ONLY <1>1, <3>2, <3>3, ManagedAssumption, SMTT(30)
    <3> QED
      BY <1>3, <1>7, <2>1, <3>1, <3>4
  <2>2. CASE p # n + 1
    <3>1. p \in 1 .. n /\ p - 1 \in 1 .. n
      BY ONLY <1>2, <2>2, p > 1, p \in 1 .. n + 1
    <3> QED
      BY <1>3, <1>6, <3>1
  <2> QED
    BY <2>1, <2>2
<1>17. Spaced'
  <2> SUFFICES ASSUME NEW i \in 1 .. n + 1, NEW j \in 1 .. n + 1, j = i + MaxRestarts
               PROVE  restarts'[j].at - restarts'[i].at >= Window \/ Divided(restarts', i, j)
    BY <1>3 DEF Spaced
  <2>1. CASE j = n + 1
    <3>1. i \in 1 .. n /\ i <= n - m
      BY ONLY <1>1, <1>2, <2>1, j = i + MaxRestarts, i \in 1 .. n + 1, SMTT(30)
    <3> QED
      BY <1>3, <1>7, <1>9, <2>1, <3>1
  <2>2. CASE j # n + 1
    <3>1. i \in 1 .. n /\ j \in 1 .. n
      BY ONLY <1>1, <1>2, <2>2, j = i + MaxRestarts, i \in 1 .. n + 1, j \in 1 .. n + 1
    <3> QED
      BY <1>3, <1>6, <1>8, <3>1
  <2> QED
    BY <2>1, <2>2
<1> QED
  BY <1>11, <1>12, <1>13, <1>14, <1>15, <1>16, <1>17 DEF BudgetInv

\* Initially no restart was counted.
LEMMA InitBudget == ManagedInit => BudgetInv
  BY DEF ManagedInit, BudgetInv, BudgetTypes, Ordered, StampsAreLast, Dropped, DroppedIsOld, Spaced,
         ProbeIsLate, OpenedAfter, FirstIsProbe

\* Only _record_failure_and_restart counts, with the breaker closed.
BreakerStep(c) ==
    \/ UNCHANGED breaker
    \/ ~ BreakerIsOpen /\ (OpenBreaker(c) \/ \E goal : GoDown(c, goal))

\* What the steps do to the breaker.
LEMMA NextBreaker ==
    ASSUME ManagedNext
    PROVE  \/ now' = now /\ \E c \in Caller : BreakerStep(c)
           \/ now' \in {now, now + 1} /\ UNCHANGED breaker
<1>1. ASSUME NEW c \in Caller, NEW goal, RecordFailure(c, goal), ~ BreakerIsOpen
      PROVE  BreakerStep(c)
  BY <1>1 DEF RecordFailure, BreakerStep
<1>2. ASSUME NEW c \in Caller, EnsureReady(c) \/ Recover(c)
      PROVE  now' = now /\ BreakerStep(c)
  <2>1. /\ now' = now
        /\ \/ UNCHANGED breaker
           \/ ~ BreakerIsOpen /\ (RecordFailure(c, "connect") \/ RecordFailure(c, "retry"))
    BY <1>2 DEF EnsureReady, Recover
  <2> QED
    BY <1>1, <2>1 DEF BreakerStep
<1>3. ASSUME NEW c \in Caller,
             \/ Submit(c) \/ Enter(c) \/ Start(c) \/ BackoffEnds(c) \/ BootSucceeds(c)
             \/ BootFails(c) \/ Send(c) \/ Succeed(c) \/ Fail(c) \/ FailClosed(c) \/ Retry(c)
      PROVE  now' = now /\ UNCHANGED breaker
  BY <1>3 DEF Submit, Enter, Start, BackoffEnds, BootSucceeds, BootFails, Send, Succeed,
              FailClosed, Retry, Fail, breaker
<1>4. CASE Shutdown \/ ProcessStep \/ Tick
  BY <1>4 DEF Shutdown, ProcessStep, Tick, breaker
<1> QED
  BY <1>2, <1>3, <1>4 DEF ManagedNext, ThreadStep

\* Every step keeps the invariant.
LEMMA NextBudget == BudgetInv /\ [ManagedNext]_vars => BudgetInv'
<1> SUFFICES ASSUME BudgetInv, [ManagedNext]_vars
             PROVE  BudgetInv'
  OBVIOUS
<1>1. ASSUME NEW c \in Caller, BreakerStep(c), now' = now
      PROVE  BudgetInv'
  BY <1>1, BreakerRests, OpenBreakerKeeps, GoDownKeeps DEF BreakerStep
<1>2. CASE UNCHANGED vars
  BY <1>2, BreakerRests DEF vars, breaker
<1> QED
  BY <1>1, <1>2, NextBreaker, BreakerRests

\* The invariant holds in every reachable state.
LEMMA BudgetCorrect == ManagedSpec => []BudgetInv
  BY InitBudget, NextBudget, PTL DEF ManagedSpec

\* Between a restart and the MaxRestarts-th after it there is a whole window of
\* time, or a cool-down that was waited for to its end.
THEOREM BudgetIsKept == ManagedSpec => []RestartBudget
<1>1. BudgetInv => RestartBudget
  <2> SUFFICES ASSUME BudgetInv, NEW k \in DOMAIN restarts, NEW m \in DOMAIN restarts,
                      m = k + MaxRestarts, ~ (restarts[m].at - restarts[k].at >= Window)
               PROVE  \E p \in (k + 1) .. m :
                         restarts[p].probe /\ restarts[p].at - restarts[p - 1].at >= Cooldown
    BY DEF RestartBudget
  <2>1. PICK p \in (k + 1) .. m : restarts[p].probe
    BY DEF BudgetInv, Spaced, Divided
  <2>2. p \in DOMAIN restarts /\ p > 1
    <3>1. Len(restarts) \in Nat /\ DOMAIN restarts = 1 .. Len(restarts)
      BY DEF BudgetInv, BudgetTypes
    <3> QED
      BY <3>1
  <2> QED
    BY <2>1, <2>2 DEF BudgetInv, ProbeIsLate
<1> QED
  BY <1>1, BudgetCorrect, PTL

\* The breaker opens only when MaxRestarts restarts were counted within the
\* window and since the last probe.
THEOREM OpeningIsEarned == ManagedSpec => OpensForCause
<1> DEFINE near == {m \in DOMAIN restarts :
                       /\ now - restarts[m].at < Window
                       /\ \A p \in (m + 1) .. Len(restarts) : ~ restarts[p].probe}
<1>1. ASSUME BudgetInv, NEW c \in Caller, OpenBreaker(c)
      PROVE  Cardinality(near) >= MaxRestarts
  <2> DEFINE n == Len(restarts)
             first == n - Len(Recent) + 1
  <2>1. /\ n \in Nat /\ Len(Recent) \in Nat /\ n - Len(Recent) \in Nat /\ DOMAIN restarts = 1 .. n
        /\ DOMAIN Recent = 1 .. Len(Recent)
        /\ MaxRestarts \in Nat /\ Len(Recent) >= MaxRestarts
    BY <1>1, RecentIsLast, ManagedAssumption DEF BudgetInv, BudgetTypes, OpenBreaker, BudgetUsed
  <2>2. first .. n \subseteq near
    <3> SUFFICES ASSUME NEW m \in first .. n
                 PROVE  /\ m \in DOMAIN restarts /\ now - restarts[m].at < Window
                        /\ \A p \in (m + 1) .. n : ~ restarts[p].probe
      OBVIOUS
    <3>1. /\ m \in 1 .. n /\ m - (n - Len(Recent)) \in 1 .. Len(Recent)
          /\ n - Len(Recent) + (m - (n - Len(Recent))) = m
      BY ONLY <2>1, m \in first .. n, SMTT(30) DEF first
    <3>2. now - restarts[m].at < Window
      <4>1. m - (n - Len(Recent)) \in DOMAIN Recent
        BY <2>1, <3>1
      <4> QED
        BY <1>1, <3>1, <4>1, RecentIsLast
    <3>3. \A p \in (m + 1) .. n : p \in 1 .. n /\ p > n - Len(Recent) + 1
      BY ONLY <2>1, m \in first .. n, SMTT(30) DEF first
    <3> QED
      BY <1>1, <2>1, <3>1, <3>2, <3>3, RecentIsLast
  <2>3. first \in Int /\ n \in Int /\ n - first + 1 = Len(Recent)
    BY <2>1
  <2>4. IsFiniteSet(first .. n) /\ Cardinality(first .. n) >= MaxRestarts
    <3>1. /\ Cardinality(first .. n) = (IF first > n THEN 0 ELSE n - first + 1)
          /\ IsFiniteSet(first .. n)
      BY <2>3, FS_Interval
    <3> HIDE DEF first, n
    <3> QED
      BY <2>1, <2>3, <3>1
  <2>5. IsFiniteSet(near)
    <3>1. IsFiniteSet(1 .. n)
      BY <2>1, FS_Interval
    <3>2. near \subseteq 1 .. n
      BY <2>1
    <3> QED
      BY ONLY <3>1, <3>2, FS_Subset
  <2>6. Cardinality(first .. n) <= Cardinality(near)
    BY ONLY <2>2, <2>5, FS_Subset
  <2>7. Cardinality(first .. n) \in Nat /\ Cardinality(near) \in Nat
    BY ONLY <2>4, <2>5, FS_CardinalityType
  <2> QED
    BY ONLY <2>1, <2>4, <2>6, <2>7
<1> HIDE DEF near
<1>2. ASSUME BudgetInv, ManagedNext, openUntil' > openUntil
      PROVE  Cardinality(near) >= MaxRestarts
  <2>1. ASSUME NEW c \in Caller, BreakerStep(c)
        PROVE  Cardinality(near) >= MaxRestarts
    <3>1. CASE UNCHANGED breaker
      BY <1>2, <3>1 DEF breaker, BudgetInv, BudgetTypes
    <3>2. CASE \E goal : GoDown(c, goal)
      BY <1>2, <3>2 DEF GoDown, BudgetInv, BudgetTypes
    <3> QED
      BY <1>1, <1>2, <2>1, <3>1, <3>2 DEF BreakerStep
  <2>2. CASE UNCHANGED breaker
    BY <1>2, <2>2 DEF breaker, BudgetInv, BudgetTypes
  <2> QED
    BY <1>2, <2>1, <2>2, NextBreaker
<1>3. BudgetInv /\ [ManagedNext]_vars
         => [openUntil' > openUntil => Cardinality(near) >= MaxRestarts]_vars
  BY <1>2
<1> QED
  BY <1>3, BudgetCorrect, PTL DEF ManagedSpec, OpensForCause, near
===============================================================================
