------------------------------- MODULE WorkPool -------------------------------
(***************************************************************************)
(* What the dispatch layer promises, with no queue, batch or thread        *)
(* program counter: items wait, an agent takes them, may put some back     *)
(* untouched, runs the others at most once and finishes them.  JobEngine   *)
(* and FlashTalkWorker are shown to implement it.                          *)
(***************************************************************************)
EXTENDS Naturals

CONSTANTS Item, Agent

VARIABLES
    place,   \* "absent", "waiting", "done" or the agent that has it
    runs     \* how often each item was run

poolVars == <<place, runs>>

WorkPoolTypeOK ==
    /\ place \in [Item -> Agent \cup {"absent", "waiting", "done"}]
    /\ runs \in [Item -> {0, 1}]

WorkPoolInit ==
    /\ place = [i \in Item |-> "absent"]
    /\ runs = [i \in Item |-> 0]

Move(S, target) ==
    /\ place' = [i \in Item |-> IF i \in S THEN target ELSE place[i]]
    /\ UNCHANGED runs

Submit(i) == place[i] = "absent" /\ Move({i}, "waiting")

\* An item that an agent brings itself never waits.
Bring(a, i) == place[i] = "absent" /\ Move({i}, a)

TakeItem(a, i) == place[i] = "waiting" /\ Move({i}, a)

PutBack(a, i) == place[i] = a /\ runs[i] = 0 /\ Move({i}, "waiting")

RunItems(a, S) ==
    /\ \A i \in S : place[i] = a /\ runs[i] = 0
    /\ runs' = [i \in Item |-> IF i \in S THEN 1 ELSE runs[i]]
    /\ UNCHANGED place

\* An agent finishes everything it has.
FinishAll(a) == Move({i \in Item : place[i] = a}, "done")

WorkPoolNext ==
    \/ \E i \in Item : Submit(i)
    \/ \E a \in Agent : \/ \E i \in Item : Bring(a, i) \/ TakeItem(a, i) \/ PutBack(a, i)
                        \/ \E S \in SUBSET Item : RunItems(a, S)
                        \/ FinishAll(a)

WorkPoolSpec == WorkPoolInit /\ [][WorkPoolNext]_poolVars
===============================================================================
