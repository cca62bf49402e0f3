----------------------------- MODULE RedisJobStore -----------------------------
(***************************************************************************)
(* The Redis job store: a copy of the record in the process that executes  *)
(* the job and one in Redis, kept in step by hand.  The executor's calls   *)
(* are followed call by call; the readers, of the same process and of      *)
(* others, call get.  One job, whose record is its state and its events.   *)
(***************************************************************************)
EXTENDS Naturals, Sequences, FiniteSets, SequencesExt

CONSTANTS
    LocalReader,  \* threads that call get in the executing process
    RemoteReader, \* threads of other processes that call get
    Subscriber,   \* clients with a channel of this store, in any process
    MaxLooks      \* calls of each reader (bound)

ASSUME RedisAssumption == LocalReader \cap RemoteReader = {} /\ MaxLooks \in Nat

VARIABLES
    local,     \* _jobs of the executing process
    remote,    \* the record in Redis
    copy,      \* the executor's own copy, inside a call
    done,     \* the place in Calls of the executor's present call
    inside,    \* where in the present call it is
    fetched,   \* reader -> the record it got from Redis and has not stored yet, if any
    raced,     \* history: a get has replaced a local record that had changed
    looks,     \* reader -> calls made
    sees,      \* reader -> the record its last call returned
    channels,  \* subscriber -> the events in its channel
    subscribed,\* the subscribers there are
    sent       \* history: the events published

redisVars == <<local, remote, copy, done, inside, fetched, raced, looks,
               sees, channels, subscribed, sent>>

Reader == LocalReader \union RemoteReader
NewJob == [state |-> "queued", events |-> <<>>]

\* What the engine does to the record of a job it executes.
Calls == <<[call |-> "append", event |-> "job_enqueued"],
           [call |-> "save", state |-> "running"],
           [call |-> "append", event |-> "job_started"],
           [call |-> "append", event |-> "stage_end"],
           [call |-> "save", state |-> "succeeded"],
           [call |-> "append", event |-> "job_finished"]>>

\* create
RedisInit ==
    /\ local = NewJob /\ remote = NewJob /\ copy = NewJob
    /\ done = 1 /\ inside = "begin"
    /\ fetched = [r \in Reader |-> {}] /\ raced = FALSE /\ looks = [r \in Reader |-> 0]
    /\ sees = [r \in Reader |-> NewJob]
    /\ channels = [s \in Subscriber |-> <<>>] /\ subscribed = {} /\ sent = <<>>

InCall(call) == done <= Len(Calls) /\ Calls[done].call = call
readerVars == <<fetched, raced, looks, sees>>
channelVars == <<channels, subscribed, sent>>

\* The copy is changed and written to Redis, the local record is not.
SaveLocal_Skipped(record) ==
    /\ copy' = record /\ inside' = "persist"
    /\ UNCHANGED <<local, remote, done, readerVars, channelVars>>

\* super().save: the local record is the copy
SaveLocal(record) ==
    /\ copy' = record /\ local' = record /\ inside' = "persist"
    /\ UNCHANGED <<remote, done, readerVars, channelVars>>

\* A save is of a record that get returned: Redis first, then the local copy.
GetOwn ==
    /\ InCall("save") /\ inside = "begin"
    /\ copy' = remote /\ local' = remote /\ inside' = "got"
    /\ UNCHANGED <<remote, done, readerVars, channelVars>>

SaveState ==
    /\ InCall("save") /\ inside = "got"
    /\ SaveLocal([copy EXCEPT !.state = Calls[done].state])

\* append_event works on the local record.
AppendEvent ==
    /\ InCall("append") /\ inside = "begin"
    /\ SaveLocal([local EXCEPT !.events = Append(@, Calls[done].event)])

\* _persist, the end of a save
Persist ==
    /\ inside = "persist" /\ remote' = copy
    /\ IF InCall("save") THEN done' = done + 1 /\ inside' = "begin"
       ELSE inside' = "publish" /\ UNCHANGED done
    /\ UNCHANGED <<local, copy, readerVars, channelVars>>

\* publish reaches the channels subscribed by then; the pump keeps their order.
PublishEvent ==
    /\ inside = "publish"
    /\ sent' = Append(sent, Calls[done].event)
    /\ channels' = [s \in Subscriber |-> IF s \in subscribed THEN Append(channels[s], Calls[done].event)
                                         ELSE channels[s]]
    /\ done' = done + 1 /\ inside' = "begin"
    /\ UNCHANGED <<local, remote, copy, readerVars, subscribed>>

\* get: Redis is read, and later the answer replaces the local record of the
\* reader's process.
Fetch(r) ==
    /\ looks[r] < MaxLooks /\ looks' = [looks EXCEPT ![r] = @ + 1] /\ fetched[r] = {}
    /\ fetched' = [fetched EXCEPT ![r] = IF r \in LocalReader THEN {remote} ELSE {}]
    /\ sees' = [sees EXCEPT ![r] = remote]
    /\ UNCHANGED <<local, remote, copy, done, inside, raced, channelVars>>

Overwrite(r) ==
    /\ \E record \in fetched[r] : local' = record /\ raced' = (raced \/ record # local)
    /\ fetched' = [fetched EXCEPT ![r] = {}]
    /\ UNCHANGED <<remote, copy, done, inside, looks, sees, channelVars>>

SubscribeChannel(s) ==
    /\ s \notin subscribed /\ subscribed' = subscribed \union {s}
    /\ UNCHANGED <<local, remote, copy, done, inside, readerVars, channels, sent>>

\* unsubscribe: the pump is stopped; what the channel still holds is not read.
UnsubscribeChannel(s) ==
    /\ s \in subscribed /\ subscribed' = subscribed \ {s}
    /\ channels' = [channels EXCEPT ![s] = <<>>]
    /\ UNCHANGED <<local, remote, copy, done, inside, readerVars, sent>>

RedisNext ==
    \/ GetOwn \/ SaveState \/ AppendEvent \/ Persist \/ PublishEvent
    \/ \E r \in Reader : Fetch(r) \/ Overwrite(r)
    \/ \E s \in Subscriber : SubscribeChannel(s) \/ UnsubscribeChannel(s)

RedisSpec == RedisInit /\ [][RedisNext]_redisVars

----------------------------------------------------------------------------
(* Properties.                                                             *)

Stage(state) == CASE state = "queued" -> 0 [] state = "running" -> 1 [] OTHER -> 2

\* Until a get of the executing process overtakes one of its writes, the record
\* that other processes see never goes back; an event is in the record before any
\* client is sent it, and a channel misses none from its subscription on.
RecordGrows ==
    ~raced =>
        /\ \A r \in Reader : /\ IsPrefix(sees[r].events, remote.events)
                             /\ Stage(sees[r].state) <= Stage(remote.state)
        /\ IsPrefix(sent, remote.events)
        /\ \A s \in subscribed : IsSuffix(channels[s], sent)

\* A job that Redis has as succeeded stays succeeded.
SettledStays == [][remote.state = "succeeded" => remote'.state = "succeeded"]_redisVars
===============================================================================
