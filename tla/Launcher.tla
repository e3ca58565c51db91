------------------------------- MODULE Launcher -------------------------------
(* The launcher process (inference_server/launcher/launcher.py): its table of  *)
(* vLLM instances, the revisions it numbers their changes with, the bounded    *)
(* buffer of events, and the streams of the watch endpoint, with clients that  *)
(* list, watch, lose the connection and resume.  The event loop runs one       *)
(* handler at a time, so what a handler or a generator does between two awaits *)
(* or yields is one step.                                                      *)
EXTENDS Integers, FiniteSets, FiniteSetsExt, Sequences

CONSTANTS
    Ids,              \* IDs of instances
    Clients,          \* clients of the watch endpoint
    MaxEvents,        \* _MAX_BROADCASTER_EVENTS
    MaxRevision,      \* bound: no instance is created once this revision is reached
    MaxRestarts       \* bound: restarts of the launcher

ASSUME LauncherConstants ==
    /\ MaxEvents \in Nat \ {0} /\ MaxRevision \in Nat /\ MaxRestarts \in Nat
    /\ IsFiniteSet(Ids)

VARIABLES
    instances,        \* VllmMultiProcessManager.instances
    revision,         \* _revision of the manager, and of the broadcaster
    events,           \* EventBroadcaster._events
    notify,           \* a task of EventBroadcaster._notify is scheduled
    stream,           \* per client: the generator that serves its watch request
    client,           \* per client: what it knows
    log,              \* history: every event this launcher process published
    restarts          \* history: restarts of the launcher so far

launcherVars == <<instances, revision, events, notify, stream, client, log, restarts>>

---------------------------------------------------------------------------
\* No instance, no stream, no event.
None == "none"
Off == "off"
NoEvent == [type |-> "none"]

Statuses == {"running", "stopped"}
EventTypes == {"CREATED", "STOPPED", "DELETED"}

\* A WatchEvent: its type and the state of the instance it is about.
Event == [type : EventTypes, id : Ids, status : Statuses, rev : Nat]

\* A VllmInstance: whether its process is alive, whether the sentinel watcher is
\* registered, its last_revision, and the revision it was created with, which
\* gives the order of the entries of the table and is
\* 0 for an ID that is not in the table.
Instance == [alive : BOOLEAN, watched : BOOLEAN, rev : Nat, born : Nat]

Absent == [alive |-> FALSE, watched |-> FALSE, rev |-> 0, born |-> 0]

\* The phases of a stream: accepted, sending the synthetic CREATED events, about
\* to take the condition's lock, waiting on the condition, sending new events.
Phases == {Off, "accepted", "listing", "polling", "waiting", "sending"}

\* pos is since_revision or start_revision, and later the cursor of the watch.
Idle == [phase |-> Off, bare |-> FALSE, pos |-> 0, queue |-> <<>>,
         last |-> 0, size |-> 0, got |-> NoEvent]

\* What a client knows: the instances it believes in, whether it was told a
\* revision and the last one it was told, and (history) whether it was also told
\* everything up to that revision.
Stranger == [view |-> [i \in Ids |-> None], told |-> FALSE, seen |-> 0, whole |-> FALSE]

LauncherInit ==
    /\ instances = [i \in Ids |-> Absent]
    /\ revision = 0 /\ events = <<>> /\ notify = FALSE
    /\ stream = [c \in Clients |-> Idle]
    /\ client = [c \in Clients |-> Stranger]
    /\ log = <<>> /\ restarts = 0

---------------------------------------------------------------------------
\* The manager and its instances

Present == {i \in Ids : instances[i].born # 0}

\* Mutant of StatusOf: a status the API does not have.
StatusOfProcess(inst) == IF inst.alive THEN "running" ELSE "exited"

\* VllmInstance.get_status
StatusOf(inst) == IF inst.alive THEN "running" ELSE "stopped"

\* VllmInstance._make_state as the object of an event
EventAbout(type, i, status, rev) ==
    [type |-> type, id |-> i, status |-> status, rev |-> rev]

\* EventBroadcaster.oldest_revision: the exclusive lower bound of the buffer
OldestRevision == revision - Len(events)

\* The buffer after an append: the oldest events beyond the limit are dropped.
Trim(s) ==
    IF Len(s) > MaxEvents THEN SubSeq(s, Len(s) - MaxEvents + 1, Len(s)) ELSE s

\* Mutant of Publish: nobody is woken.
AppendOnly(new) ==
    /\ revision' = revision + Len(new)
    /\ events' = Trim(events \o new) /\ log' = log \o new
    /\ UNCHANGED notify

\* EventBroadcaster._append of each event, and the task that wakes the watchers.
\* The events' revisions are the ones _next_revision has just handed out.
Publish(new) ==
    /\ revision' = revision + Len(new)
    /\ events' = Trim(events \o new) /\ log' = log \o new
    /\ notify' = (notify \/ new # <<>>)

\* create_instance: an ID in use is refused, and an unknown GPU or a process that
\* does not start leaves the table as it was.  The new process may already be dead
\* when its status is taken; the sentinel watcher is registered all the same.
CreateInstance(i) ==
    /\ i \notin Present /\ revision < MaxRevision
    /\ \E alive \in BOOLEAN :
         LET inst == [alive |-> alive, watched |-> TRUE,
                      rev |-> revision + 1, born |-> revision + 1]
         IN /\ instances' = [instances EXCEPT ![i] = inst]
            /\ Publish(<<EventAbout("CREATED", i, StatusOf(inst), revision + 1)>>)
    /\ UNCHANGED <<stream, client, restarts>>

\* The vLLM process of an instance ends by itself.
ProcessExits(i) ==
    /\ i \in Present /\ instances[i].alive
    /\ instances' = [instances EXCEPT ![i].alive = FALSE]
    /\ UNCHANGED <<revision, events, notify, stream, client, log, restarts>>

\* What _on_instance_stopped publishes.
StoppedEvent(i) == EventAbout("STOPPED", i, "stopped", revision + 1)

\* Mutant of SentinelExit: the reader is not removed.
SentinelStays(i) ==
    /\ i \in Present /\ ~instances[i].alive /\ instances[i].watched /\ revision < 2 * MaxRevision
    /\ instances' = [instances EXCEPT ![i].rev = revision + 1]
    /\ Publish(<<StoppedEvent(i)>>)
    /\ UNCHANGED <<stream, client, restarts>>

\* _on_sentinel_exit and _on_instance_stopped: the reader is removed, so the event
\* loop calls them once, and the end of the process is published.
SentinelExit(i) ==
    /\ i \in Present /\ ~instances[i].alive /\ instances[i].watched
    /\ instances' = [instances EXCEPT ![i].watched = FALSE, ![i].rev = revision + 1]
    /\ Publish(<<StoppedEvent(i)>>)
    /\ UNCHANGED <<stream, client, restarts>>

\* Instances in the order of the table.
Orders(gone) ==
    {order \in [1 .. Cardinality(gone) -> gone] :
       \A j, k \in DOMAIN order : j < k => instances[order[j]].born < instances[order[k]].born}

\* stop_instance of one, or by stop_all_instances of all in the order of the
\* table: the watcher is cancelled, the process is terminated and waited for, the
\* entry is removed.  No other handler runs in between.
StopInstances(gone) ==
    /\ instances' = [i \in Ids |-> IF i \in gone THEN Absent ELSE instances[i]]
    /\ \E order \in Orders(gone) :
         Publish([k \in 1 .. Cardinality(gone) |->
                    EventAbout("DELETED", order[k], "stopped", revision + k)])
    /\ UNCHANGED <<stream, client, restarts>>

StopInstance(i) == i \in Present /\ StopInstances({i})

StopAllInstances == Cardinality(Present) > 1 /\ StopInstances(Present)

\* The launcher's container restarts: the instances are gone with their processes,
\* the connections break, and the new process numbers its revisions from 0.
LauncherRestart ==
    /\ restarts < MaxRestarts /\ restarts' = restarts + 1
    /\ instances' = [i \in Ids |-> Absent]
    /\ revision' = 0 /\ events' = <<>> /\ log' = <<>> /\ notify' = FALSE
    /\ stream' = [c \in Clients |-> Idle]
    /\ client' = [c \in Clients |-> [client[c] EXCEPT !.whole = FALSE]]

---------------------------------------------------------------------------
\* The watch endpoint and its clients

\* The state of the table as get_all_instances_status reports it.
Listing == [i \in Ids |-> IF i \in Present THEN StatusOf(instances[i]) ELSE None]

\* The client lists the instances: the state and its revision are of one moment.
ListInstances(c) ==
    /\ stream[c].phase = Off
    /\ client' = [client EXCEPT ![c] = [view |-> Listing, told |-> TRUE, seen |-> revision, whole |-> TRUE]]
    /\ UNCHANGED <<instances, revision, events, notify, stream, log, restarts>>

\* watch_instances without ?since: the client starts from nothing.
WatchBare(c) ==
    /\ stream[c].phase = Off
    /\ stream' = [stream EXCEPT ![c].phase = "accepted", ![c].bare = TRUE]
    /\ client' = [client EXCEPT ![c] = Stranger]
    /\ UNCHANGED <<instances, revision, events, notify, log, restarts>>

\* watch_instances with ?since: the last revision the client was told, refused
\* with 410 (Gone) when the buffer no longer reaches back to it.
WatchSince(c) ==
    /\ stream[c].phase = Off /\ client[c].told
    /\ IF client[c].seen < OldestRevision
       THEN /\ client' = [client EXCEPT ![c] = Stranger]
            /\ UNCHANGED stream
       ELSE /\ stream' = [stream EXCEPT ![c].phase = "accepted", ![c].pos = client[c].seen]
            /\ UNCHANGED client
    /\ UNCHANGED <<instances, revision, events, notify, log, restarts>>

\* What a client may rely on when its stream ends: the last revision it was told,
\* unless the stream had told it a later one than it had delivered everything up to.
AfterStream(c) ==
    [client[c] EXCEPT !.whole =
       @ /\ client[c].seen <= stream[c].pos - Len(stream[c].queue)]

\* The stream of c ends, from either side.
EndStream(c) ==
    /\ stream' = [stream EXCEPT ![c] = Idle]
    /\ client' = [client EXCEPT ![c] = AfterStream(c)]

Disconnect(c) ==
    /\ stream[c].phase # Off
    /\ EndStream(c)
    /\ UNCHANGED <<instances, revision, events, notify, log, restarts>>

\* Mutant of EnterWatch: the watch goes on from the present revision.
EnterWatchNow(c, since, know) ==
    /\ stream' = [stream EXCEPT ![c] = [Idle EXCEPT !.phase = "polling", !.pos = revision]]
    /\ client' = [client EXCEPT ![c] = know]

\* The beginning of EventBroadcaster.watch(since): RevisionTooOld ends the stream
\* without a word.
EnterWatch(c, since, know) ==
    IF since < OldestRevision
    THEN EndStream(c)
    ELSE /\ stream' = [stream EXCEPT ![c] = [Idle EXCEPT !.phase = "polling", !.pos = since]]
         /\ client' = [client EXCEPT ![c] = know]

\* event_stream starts: with ?since it enters the watch, otherwise it notes the
\* revision to go on from and opens its iterator on the table.
StartStream(c) ==
    /\ stream[c].phase = "accepted"
    /\ IF stream[c].bare
       THEN /\ stream' = [stream EXCEPT ![c].phase = "listing", ![c].pos = revision,
                                        ![c].size = Cardinality(Present)]
            /\ UNCHANGED client
       ELSE EnterWatch(c, stream[c].pos, client[c])
    /\ UNCHANGED <<instances, revision, events, notify, log, restarts>>

\* The entries of the table the iterator of c has not come to.
Unlisted(c) == {i \in Present : instances[i].born > stream[c].last}

\* One synthetic CREATED event, after which other handlers run.  An iterator over
\* a table whose size has changed meanwhile raises RuntimeError, which breaks the
\* connection.  When all are listed, the watch goes on from the noted revision.
ListNext(c) ==
    /\ stream[c].phase = "listing"
    /\ IF Cardinality(Present) # stream[c].size THEN EndStream(c)
       ELSE IF Unlisted(c) = {}
       THEN EnterWatch(c, stream[c].pos, [client[c] EXCEPT !.whole = TRUE])
       ELSE \E i \in Unlisted(c) :
              /\ \A j \in Unlisted(c) : instances[i].born <= instances[j].born
              /\ stream' = [stream EXCEPT ![c].last = instances[i].born]
              /\ client' = [client EXCEPT ![c].view[i] = StatusOf(instances[i]),
                                          ![c].told = TRUE, ![c].seen = instances[i].rev]
    /\ UNCHANGED <<instances, revision, events, notify, log, restarts>>

\* Mutant of NewEvents: everything in the buffer.
BufferedEvents(c) == events

\* The events beyond the cursor.
NewEvents(c) == SubSeq(events, stream[c].pos - OldestRevision + 1, Len(events))

\* The loop of EventBroadcaster.watch up to its next wait or yield: with nothing
\* new it waits on the condition; a cursor the buffer has left behind ends the
\* stream; otherwise all the new events are taken at once, to be sent one by one.
Poll(c) ==
    /\ stream[c].phase = "polling"
    /\ IF stream[c].pos >= revision
       THEN stream' = [stream EXCEPT ![c].phase = "waiting"] /\ UNCHANGED client
       ELSE IF stream[c].pos < OldestRevision
       THEN EndStream(c)
       ELSE /\ stream' = [stream EXCEPT ![c].phase = "sending", ![c].pos = revision,
                                        ![c].queue = NewEvents(c)]
            /\ UNCHANGED client
    /\ UNCHANGED <<instances, revision, events, notify, log, restarts>>

\* EventBroadcaster._notify: all waiting streams look again.
Notify ==
    /\ notify /\ notify' = FALSE
    /\ stream' = [c \in Clients |-> [stream[c] EXCEPT !.phase =
                                       IF @ = "waiting" THEN "polling" ELSE @]]
    /\ UNCHANGED <<instances, revision, events, client, log, restarts>>

\* What the client's picture becomes with an event.
Apply(view, e) ==
    [view EXCEPT ![e.id] = IF e.type = "DELETED" THEN None ELSE e.status]

\* One event is sent, and the client takes it in.
Send(c) ==
    /\ stream[c].phase = "sending"
    /\ LET e == Head(stream[c].queue)
       IN /\ stream' = [stream EXCEPT ![c].queue = Tail(@), ![c].got = e,
                           ![c].phase = IF Tail(stream[c].queue) = <<>> THEN "polling" ELSE @]
          /\ client' = [client EXCEPT ![c].view = Apply(@, e), ![c].told = TRUE, ![c].seen = e.rev]
    /\ UNCHANGED <<instances, revision, events, notify, log, restarts>>

ClientStep(c) ==
    \/ ListInstances(c) \/ WatchBare(c) \/ WatchSince(c) \/ Disconnect(c)

StreamStep(c) == StartStream(c) \/ ListNext(c) \/ Poll(c) \/ Send(c)

LauncherNext ==
    \/ \E i \in Ids : CreateInstance(i) \/ ProcessExits(i) \/ SentinelExit(i) \/ StopInstance(i)
    \/ StopAllInstances \/ LauncherRestart \/ Notify
    \/ \E c \in Clients : ClientStep(c) \/ StreamStep(c)

LauncherSpec == LauncherInit /\ [][LauncherNext]_launcherVars

\* The event loop gets to every callback and every task in turn, and the clients
\* read what is sent to them.
LauncherFairness ==
    /\ WF_launcherVars(Notify)
    /\ \A i \in Ids : WF_launcherVars(SentinelExit(i))
    /\ \A c \in Clients : WF_launcherVars(StreamStep(c))

---------------------------------------------------------------------------
\* Properties

\* The types of the variables.
LauncherTypeOK ==
    /\ instances \in [Ids -> Instance]
    /\ revision \in Nat /\ notify \in BOOLEAN /\ restarts \in Nat
    /\ events \in Seq(Event) /\ log \in Seq(Event)
    /\ stream \in [Clients -> [phase : Phases, bare : BOOLEAN, pos : Nat, queue : Seq(Event),
                                last : Nat, size : Nat, got : Event \union {NoEvent}]]
    /\ client \in [Clients -> [view : [Ids -> Statuses \union {None}],
                                told : BOOLEAN, seen : Nat, whole : BOOLEAN]]

\* The generator of the stream of c is in EventBroadcaster.watch.
Watching(c) == stream[c].phase \in {"polling", "waiting", "sending"}

\* How far the stream of a client has brought it.
Delivered(c) == stream[c].pos - Len(stream[c].queue)

\* A picture that is up to date: the instances of the table; running when the
\* process is alive, stopped when its end has been published.
UpToDate(view) ==
    \A i \in Ids :
       /\ (view[i] = None) = (i \notin Present)
       /\ i \in Present /\ instances[i].alive => view[i] = "running"
       /\ i \in Present /\ ~instances[i].alive /\ ~instances[i].watched => view[i] = "stopped"

\* A client that started from a complete list and followed the stream, with any
\* number of reconnections with ?since, knows the table when the stream has caught
\* up: no event was skipped, sent twice with effect, or applied out of order.
ViewFollowsTable ==
    \A c \in Clients :
       client[c].whole /\ Watching(c) /\ Delivered(c) = revision
       => UpToDate(client[c].view)

\* The log tells the life of every instance: created, perhaps stopped once,
\* deleted, in this order, and nothing of an instance after its deletion until it
\* is created again (the sentinel watcher is cancelled before the deletion).
LifeCycleLogged ==
    \A k \in DOMAIN log :
       LET before == {j \in 1 .. (k - 1) : log[j].id = log[k].id}
           prev == IF before = {} THEN "DELETED" ELSE log[Max(before)].type
       IN CASE log[k].type = "CREATED" -> prev = "DELETED"
            [] log[k].type = "STOPPED" -> prev = "CREATED"
            [] OTHER -> prev # "DELETED"

\* The watch streams implement the abstract log of events: what is sent is the next
\* event of the log, although the cursors count revisions, the buffer is bounded,
\* the events are taken in batches and the table changes between two of them.
Abstract == INSTANCE EventLog WITH
    Readers <- Clients, Nothing <- NoEvent,
    open <- [c \in Clients |-> Watching(c)],
    at <- [c \in Clients |-> IF Watching(c) THEN Delivered(c) ELSE 0],
    got <- [c \in Clients |-> stream[c].got]

ImplementsEventLog == Abstract!Spec

\* A stream that stays open catches up with everything published: no wake-up of the
\* condition is lost.
StreamsCatchUp ==
    \A c \in Clients : []<>(stream[c].phase = Off \/ (Watching(c) /\ Delivered(c) >= revision))
===============================================================================
