------------------------------- MODULE JobStore -------------------------------
(***************************************************************************)
(* The in-memory job store of src/omnirt/engine/store.py.  Every operation *)
(* runs under the store's lock, so each is one step here; callers work on  *)
(* deep copies (a TLA+ value is its own copy) and write whole records      *)
(* back.  The operators are used as conjuncts by the modules that own the  *)
(* threads.                                                                *)
(*                                                                         *)
(* A job that was not created yet has the default record of the JobRecord  *)
(* dataclass; nobody can name it, since its id is drawn by _create_job.    *)
(***************************************************************************)
EXTENDS Naturals, Sequences, FiniteSets

CONSTANTS
    Job,        \* job ids
    Worker,     \* the engine's Worker threads
    SyncCaller, \* threads that call run_sync
    NoThread,   \* worker_id is None
    Client      \* event stream subscribers

ASSUME StoreAssumption ==
    /\ Worker \cap SyncCaller = {}
    /\ NoThread \notin Worker \cup SyncCaller

Thread == Worker \cup SyncCaller

VARIABLES
    jobs,      \* _jobs: the stored record of each job
    subs,      \* _subscribers: the channels registered for each job
    channels,  \* the queue.Queue each subscriber reads
    log        \* history: every event ever appended, in order

storeVars == <<jobs, subs, channels, log>>

JobState == {"queued", "running", "succeeded", "failed", "cancelled"}

\* TERMINAL_JOB_STATES of dispatch/policies.py
TerminalState == {"succeeded", "failed", "cancelled"}

EventKind ==
    {"job_enqueued", "job_started", "stage_start", "stage_end",
     "job_finished", "job_failed", "job_cancelled"}

JobRecord ==
    [ state  : JobState,
      result : BOOLEAN,              \* a GenerateResult is attached
      error  : BOOLEAN,              \* an error message is attached
      worker : Thread \cup {NoThread},
      events : Seq(EventKind) ]

\* The dataclass defaults, which is what _create_job stores.
NewRecord ==
    [ state |-> "queued", result |-> FALSE, error |-> FALSE,
      worker |-> NoThread, events |-> << >> ]

StoreInit ==
    /\ jobs = [j \in Job |-> NewRecord]
    /\ subs = [j \in Job |-> {}]
    /\ channels = [c \in Client |-> << >>]
    /\ log = [j \in Job |-> << >>]

Create(j) ==
    /\ jobs' = [jobs EXCEPT ![j] = NewRecord]
    /\ UNCHANGED <<subs, channels, log>>

\* save overwrites the whole record, the events list included.
Save(j, record) ==
    /\ jobs' = [jobs EXCEPT ![j] = record]
    /\ UNCHANGED <<subs, channels, log>>

\* append_event extends the stored list and every subscribed channel.
AppendEvent(j, event) ==
    /\ jobs' = [jobs EXCEPT ![j].events = Append(@, event)]
    /\ channels' = [c \in Client |->
                        IF c \in subs[j] THEN Append(channels[c], event)
                                         ELSE channels[c]]
    /\ log' = [log EXCEPT ![j] = Append(@, event)]
    /\ UNCHANGED subs

\* subscribe registers a fresh, empty channel.
Subscribe(c, j) ==
    /\ subs' = [subs EXCEPT ![j] = @ \cup {c}]
    /\ channels' = [channels EXCEPT ![c] = << >>]
    /\ UNCHANGED <<jobs, log>>

\* unsubscribe removes the channel, which nobody reads any more: what is left
\* on it is garbage, and so is the None put to wake an abandoned reader.
Unsubscribe(c, j) ==
    /\ subs' = [subs EXCEPT ![j] = @ \ {c}]
    /\ channels' = [channels EXCEPT ![c] = << >>]
    /\ UNCHANGED <<jobs, log>>

StoreTypeOK ==
    /\ jobs \in [Job -> JobRecord]
    /\ subs \in [Job -> SUBSET Client]
    /\ channels \in [Client -> Seq(EventKind)]
    /\ log \in [Job -> Seq(EventKind)]
===============================================================================
