---------------------------- MODULE LauncherProofs ----------------------------
(* The launcher's watch streams implement the abstract log of events, for any  *)
(* number of instances, clients and restarts and any size of the buffer.       *)
EXTENDS Launcher, SequenceTheorems, FiniteSetTheorems, TLAPS

\* The types that matter here.
StreamType ==
    [phase : Phases, bare : BOOLEAN, pos : Nat, queue : Seq(Event),
     last : Nat, size : Nat, got : Event \union {NoEvent}]

WatchTypes ==
    /\ revision \in Nat /\ events \in Seq(Event) /\ log \in Seq(Event)
    /\ instances \in [Ids -> Instance]
    /\ stream \in [Clients -> StreamType]
    /\ client \in [Clients -> [view : [Ids -> Statuses \union {None}],
                                told : BOOLEAN, seen : Nat, whole : BOOLEAN]]

\* Revisions count the published events, and the buffer is the end of the log.
BufferIsSuffix ==
    /\ Len(log) = revision /\ Len(events) <= revision
    /\ \A k \in 1 .. Len(events) : events[k] = log[revision - Len(events) + k]

\* What a stream in state t is about to send is the piece of the log up to its cursor.
InWatch(t) == t.phase \in {"polling", "waiting", "sending"}

Piece(t) ==
    /\ t.phase # "sending" => t.queue = <<>>
    /\ t.phase = "sending" => t.queue # <<>> /\ t.pos <= revision
    /\ Len(t.queue) <= t.pos
    /\ \A k \in 1 .. Len(t.queue) : t.queue[k] = log[t.pos - Len(t.queue) + k]
    /\ ~InWatch(t) => t.got = NoEvent

WatchInv == WatchTypes /\ BufferIsSuffix /\ \A c \in Clients : Piece(stream[c])

-------------------------------------------------------------------------------
\* The table, the revisions and the buffer.

\* What EventBroadcaster._append leaves in the buffer is the end of what was there.
LEMMA TrimIsSuffix ==
    ASSUME NEW s \in Seq(Event)
    PROVE  /\ Trim(s) \in Seq(Event) /\ Len(Trim(s)) <= Len(s)
           /\ \A k \in 1 .. Len(Trim(s)) : Trim(s)[k] = s[Len(s) - Len(Trim(s)) + k]
<1>1. Len(s) \in Nat /\ MaxEvents \in Nat \ {0}
  BY LenProperties, LauncherConstants, Zenon
<1>2. CASE Len(s) > MaxEvents
  <2> DEFINE m == Len(s) - MaxEvents + 1
             t == SubSeq(s, m, Len(s))
  <2>1. m \in Int /\ m <= Len(s) /\ \A i \in m .. Len(s) : s[i] \in Event
    BY <1>1, <1>2, ElementOfSeq
  <2>2. /\ t \in Seq(Event) /\ Len(t) = Len(s) - m + 1
        /\ \A i \in 1 .. Len(s) - m + 1 : t[i] = s[m + i - 1]
    BY <2>1, <1>1, SubSeqProperties
  <2>3. Trim(s) = t
    BY <1>2, Zenon DEF Trim
  <2> HIDE DEF t
  <2>4. Len(t) = MaxEvents /\ MaxEvents <= Len(s) /\ Len(s) - m + 1 = MaxEvents
    BY <2>2, <1>1, <1>2
  <2>5. ASSUME NEW k \in 1 .. MaxEvents PROVE t[k] = s[Len(s) - MaxEvents + k]
    <3>1. m + k - 1 = Len(s) - MaxEvents + k
      BY <1>1
    <3>2. t[k] = s[m + k - 1]
      BY <2>2, <2>4, Zenon
    <3> QED BY <3>1, <3>2, Zenon
  <2> QED BY <2>2, <2>3, <2>4, <2>5, Zenon
<1>3. CASE ~(Len(s) > MaxEvents)
  BY <1>1, <1>3 DEF Trim
<1> QED BY <1>2, <1>3, Zenon

\* A publication extends the log and keeps the buffer its end; the pieces the
\* streams hold are still pieces of the log.
LEMMA PublishKeeps ==
    ASSUME WatchInv, NEW new \in Seq(Event), Publish(new), UNCHANGED stream,
           instances' \in [Ids -> Instance], UNCHANGED client
    PROVE  /\ WatchInv'
           /\ Len(log') = Len(log) + Len(new)
           /\ \A k \in 1 .. Len(log) : log'[k] = log[k]
<1>0. WatchTypes /\ BufferIsSuffix /\ \A c \in Clients : Piece(stream[c])
  BY Zenon DEF WatchInv
<1>1. /\ Len(log) \in Nat /\ Len(events) \in Nat /\ Len(new) \in Nat /\ revision \in Nat
      /\ log \in Seq(Event) /\ events \in Seq(Event)
  BY <1>0, LenProperties, Zenon DEF WatchTypes
<1>2. log' = log \o new /\ events' = Trim(events \o new) /\ revision' = revision + Len(new)
  BY Zenon DEF Publish
<1>3. /\ log' \in Seq(Event) /\ Len(log') = Len(log) + Len(new)
      /\ \A i \in 1 .. Len(log) + Len(new) :
           log'[i] = IF i <= Len(log) THEN log[i] ELSE new[i - Len(log)]
  BY <1>1, <1>2, ConcatProperties, Zenon
<1>4. \A k \in 1 .. Len(log) : log'[k] = log[k]
  BY <1>1, <1>3
<1>12. ASSUME NEW j \in 1 .. Len(new) PROVE log'[Len(log) + j] = new[j]
  <2>1. /\ Len(log) + j \in 1 .. Len(log) + Len(new) /\ ~(Len(log) + j <= Len(log))
        /\ (Len(log) + j) - Len(log) = j
    BY <1>1
  <2> QED BY <2>1, <1>3, Zenon
<1> DEFINE all == events \o new
<1>5. /\ all \in Seq(Event) /\ Len(all) = Len(events) + Len(new)
      /\ \A i \in 1 .. Len(events) + Len(new) :
           all[i] = IF i <= Len(events) THEN events[i] ELSE new[i - Len(events)]
  BY <1>1, ConcatProperties, Zenon
<1>6. events' = Trim(all)
  BY <1>2, Zenon
<1> HIDE DEF all
<1>13. /\ Len(log) \in Nat /\ Len(events) \in Nat /\ Len(new) \in Nat /\ revision \in Nat
       /\ Len(all) = Len(events) + Len(new) /\ revision' = revision + Len(new)
  BY <1>1, <1>2, <1>5, Zenon
<1>7. /\ events' \in Seq(Event) /\ Len(events') <= Len(all)
      /\ \A k \in 1 .. Len(events') : events'[k] = all[Len(all) - Len(events') + k]
  BY <1>5, <1>6, TrimIsSuffix, Zenon
<1>8. Len(events') \in Nat /\ Len(all) \in Nat
  BY <1>5, <1>7, LenProperties, Zenon
<1>9. BufferIsSuffix'
  <2>1. Len(log) = revision /\ Len(events) <= revision
    BY <1>0, Zenon DEF BufferIsSuffix
  <2>2. ASSUME NEW i \in 1 .. Len(all)
        PROVE  all[i] = log'[revision' - Len(all) + i]
    <3>1. CASE i <= Len(events)
      <4>0. i \in 1 .. Len(events) /\ i \in 1 .. Len(events) + Len(new)
        BY <3>1, <1>13
      <4>1. all[i] = events[i] /\ events[i] = log[revision - Len(events) + i]
        BY <3>1, <4>0, <1>0, <1>5, Zenon DEF BufferIsSuffix
      <4>2. /\ revision' - Len(all) + i = revision - Len(events) + i
            /\ revision - Len(events) + i \in 1 .. Len(log)
        BY <3>1, <1>13, <2>1
      <4> QED BY <4>1, <4>2, <1>4, Zenon
    <3>2. CASE i > Len(events)
      <4>0. i \in 1 .. Len(events) + Len(new) /\ ~(i <= Len(events))
        BY <3>2, <1>13
      <4>1. all[i] = new[i - Len(events)]
        BY <4>0, <1>5, Zenon
      <4>2. /\ revision' - Len(all) + i = Len(log) + (i - Len(events))
            /\ i - Len(events) \in 1 .. Len(new)
        BY <3>2, <1>13, <2>1
      <4>3. log'[Len(log) + (i - Len(events))] = new[i - Len(events)]
        BY <4>2, <1>12, Zenon
      <4> QED BY <4>1, <4>2, <4>3, Zenon
    <3> QED BY <3>1, <3>2, <1>1
  <2>3. ASSUME NEW k \in 1 .. Len(events')
        PROVE  events'[k] = log'[revision' - Len(events') + k]
    <3>1. Len(all) - Len(events') + k \in 1 .. Len(all)
      BY <1>7, <1>8
    <3>2. revision' - Len(all) + (Len(all) - Len(events') + k) = revision' - Len(events') + k
      BY <1>1, <1>2, <1>8
    <3> QED BY <3>1, <3>2, <1>7, <2>2, Zenon
  <2>4. Len(log') = revision' /\ Len(events') <= revision'
    BY <1>3, <1>7, <1>8, <1>13, <2>1
  <2> QED BY <2>3, <2>4, Zenon DEF BufferIsSuffix
<1>10. WatchTypes'
  BY <1>0, <1>1, <1>2, <1>3, <1>7 DEF WatchTypes
<1>11. ASSUME NEW c \in Clients PROVE Piece(stream[c])'
  <2> DEFINE t == stream[c]
             q == t.queue
  <2>1. Piece(t) /\ t \in StreamType /\ stream'[c] = t
    BY <1>0, Zenon DEF WatchTypes
  <2>2. q \in Seq(Event) /\ Len(q) \in Nat /\ t.pos \in Nat
    BY <2>1, LenProperties, Zenon DEF StreamType
  <2>3. ASSUME NEW k \in 1 .. Len(q) PROVE q[k] = log'[t.pos - Len(q) + k]
    <3>1. q[k] = log[t.pos - Len(q) + k]
      BY <2>1, Zenon DEF Piece
    <3>2. q # <<>>
      BY <2>2
    <3>3. t.pos <= revision /\ Len(q) <= t.pos
      BY <2>1, <3>2, Zenon DEF Piece
    <3>4. Len(log) = revision
      BY <1>0, Zenon DEF BufferIsSuffix
    <3>5. t.pos - Len(q) + k \in 1 .. Len(log)
      <4>1. PICK a \in Nat, b \in Nat : a = t.pos /\ b = Len(q)
        BY <2>2, Zenon
      <4>2. a <= Len(log) /\ b <= a /\ k \in 1 .. b
        BY <3>3, <3>4, <4>1, Zenon
      <4>3. a - b + k \in 1 .. Len(log)
        BY <4>2, <1>1
      <4> QED BY <4>1, <4>3, Zenon
    <3> QED BY <3>1, <3>5, <1>4, Zenon
  <2>4. t.phase = "sending" => t.pos <= revision'
    <3>1. t.phase = "sending" => t.pos <= revision
      BY <2>1, Zenon DEF Piece
    <3> HIDE DEF t
    <3> QED BY <3>1, <2>2, <1>1, <1>2
  <2> QED BY <2>1, <2>3, <2>4, Zenon DEF Piece, InWatch
<1> QED BY <1>3, <1>4, <1>9, <1>10, <1>11, Zenon DEF WatchInv

-------------------------------------------------------------------------------
\* The streams.

ClientType ==
    [view : [Ids -> Statuses \union {None}], told : BOOLEAN, seen : Nat, whole : BOOLEAN]

\* A step of one stream, to state t, keeps the invariant when t is right.
LEMMA StreamKeeps ==
    ASSUME WatchInv, NEW c \in Clients, NEW t \in StreamType, Piece(t),
           stream' = [stream EXCEPT ![c] = t],
           client' \in [Clients -> ClientType],
           UNCHANGED <<instances, revision, events, log>>
    PROVE  WatchInv'
<1>1. WatchTypes'
  BY Zenon DEF WatchInv, WatchTypes, ClientType
<1>2. BufferIsSuffix'
  BY Zenon DEF WatchInv, BufferIsSuffix
<1>3. Piece(t)'
  BY Zenon DEF Piece, InWatch
<1>4. ASSUME NEW d \in Clients PROVE Piece(stream[d])'
  <2>1. CASE d = c
    <3>1. stream'[d] = t
      BY <2>1, Zenon DEF WatchInv, WatchTypes
    <3> QED BY <3>1, Zenon DEF Piece, InWatch
  <2>2. CASE d # c
    <3>1. stream'[d] = stream[d] /\ Piece(stream[d])
      BY <2>2, Zenon DEF WatchInv, WatchTypes
    <3> QED BY <3>1, Zenon DEF Piece, InWatch
  <2> QED BY <2>1, <2>2, Zenon
<1> QED BY <1>1, <1>2, <1>4, Zenon DEF WatchInv

\* The refinement mapping.
Open == [c \in Clients |-> Watching(c)]
At == [c \in Clients |-> IF Watching(c) THEN Delivered(c) ELSE 0]
Got == [c \in Clients |-> stream[c].got]

\* Such a step maps to a step of the reader c.
LEMMA StreamMaps ==
    ASSUME WatchInv, NEW c \in Clients, NEW t \in StreamType,
           stream' = [stream EXCEPT ![c] = t]
    PROVE  /\ Open' = [Open EXCEPT ![c] = InWatch(t)]
           /\ At' = [At EXCEPT ![c] = IF InWatch(t) THEN t.pos - Len(t.queue) ELSE 0]
           /\ Got' = [Got EXCEPT ![c] = t.got]
<1>1. stream'[c] = t /\ \A d \in Clients \ {c} : stream'[d] = stream[d]
  BY Zenon DEF WatchInv, WatchTypes
<1>2. Open' = [Open EXCEPT ![c] = InWatch(t)]
  <2>1. Open' = [d \in Clients |-> InWatch(stream'[d])]
    BY Zenon DEF Open, Watching, InWatch
  <2>2. Open = [d \in Clients |-> InWatch(stream[d])]
    BY Zenon DEF Open, Watching, InWatch
  <2> QED BY <1>1, <2>1, <2>2
<1>3. At' = [At EXCEPT ![c] = IF InWatch(t) THEN t.pos - Len(t.queue) ELSE 0]
  <2>1. At' = [d \in Clients |-> IF InWatch(stream'[d]) THEN stream'[d].pos - Len(stream'[d].queue) ELSE 0]
    BY Zenon DEF At, Watching, Delivered, InWatch
  <2>2. At = [d \in Clients |-> IF InWatch(stream[d]) THEN stream[d].pos - Len(stream[d].queue) ELSE 0]
    BY Zenon DEF At, Watching, Delivered, InWatch
  <2> QED BY <1>1, <2>1, <2>2
<1>4. Got' = [Got EXCEPT ![c] = t.got]
  <2>1. Got' = [d \in Clients |-> stream'[d].got]
    BY Zenon DEF Got
  <2>2. Got = [d \in Clients |-> stream[d].got]
    BY Zenon DEF Got
  <2> QED BY <1>1, <2>1, <2>2
<1> QED BY <1>2, <1>3, <1>4, Zenon

\* What each action has to do.
AbstractStep == Abstract!Next \/ UNCHANGED <<log, Open, At, Got>>

\* A stream with nothing to send is right.
LEMMA EmptyIsPiece ==
    ASSUME NEW t \in StreamType, t.queue = <<>>, t.phase # "sending",
           ~InWatch(t) => t.got = NoEvent
    PROVE  Piece(t)
BY DEF Piece, StreamType

\* A step that leaves the stream outside or inside the watch, at the same place.
LEMMA StreamStutters ==
    ASSUME WatchInv, NEW c \in Clients, NEW t \in StreamType, Piece(t),
           stream' = [stream EXCEPT ![c] = t],
           client' \in [Clients -> ClientType],
           UNCHANGED <<instances, revision, events, log>>,
           InWatch(t) <=> InWatch(stream[c]), t.got = stream[c].got,
           InWatch(t) => t.pos - Len(t.queue) = stream[c].pos - Len(stream[c].queue)
    PROVE  WatchInv' /\ AbstractStep
<1>1. WatchInv'
  BY StreamKeeps, Zenon
<1>2. /\ Open' = [Open EXCEPT ![c] = InWatch(t)]
      /\ At' = [At EXCEPT ![c] = IF InWatch(t) THEN t.pos - Len(t.queue) ELSE 0]
      /\ Got' = [Got EXCEPT ![c] = t.got]
  BY StreamMaps, ZenonT(60)
<1>3. Open' = Open
  BY <1>2 DEF Open, Watching, InWatch
<1>4. At' = At
  BY <1>2 DEF At, Watching, InWatch, Delivered
<1>5. Got' = Got
  BY <1>2, Zenon DEF Got
<1> QED BY <1>1, <1>3, <1>4, <1>5, Zenon DEF AbstractStep

\* The state of a client without a stream.
LEMMA IdleIsRight ==
    /\ Idle \in StreamType /\ ~InWatch(Idle)
    /\ Idle.got = NoEvent /\ Idle.queue = <<>> /\ Idle.phase = Off
BY EmptySeq, Zenon DEF Idle, StreamType, Phases, Off, InWatch, NoEvent

\* What a client knows after its stream has ended is typed.
LEMMA AfterStreamIsRight ==
    ASSUME WatchInv, NEW c \in Clients
    PROVE  AfterStream(c) \in ClientType
<1>1. client[c] \in ClientType
  BY Zenon DEF WatchInv, WatchTypes, ClientType
<1>2. (client[c].whole /\ client[c].seen <= stream[c].pos - Len(stream[c].queue)) \in BOOLEAN
  BY <1>1, Zenon DEF ClientType
<1> QED BY <1>1, <1>2, Zenon DEF AfterStream, ClientType

\* A stream ends: its reader is disconnected, if it was connected.
LEMMA StreamEnds ==
    ASSUME WatchInv, NEW c \in Clients, EndStream(c),
           UNCHANGED <<instances, revision, events, log>>
    PROVE  WatchInv' /\ AbstractStep
<1>1. stream' = [stream EXCEPT ![c] = Idle] /\ client' \in [Clients -> ClientType]
  BY AfterStreamIsRight, Zenon DEF EndStream, WatchInv, WatchTypes, ClientType
<1>2. Piece(Idle)
  BY IdleIsRight, EmptyIsPiece, Zenon DEF Off
<1>3. WatchInv'
  BY <1>1, <1>2, IdleIsRight, StreamKeeps, Zenon
<1>4. /\ Open' = [Open EXCEPT ![c] = FALSE]
      /\ At' = [At EXCEPT ![c] = 0]
      /\ Got' = [Got EXCEPT ![c] = NoEvent]
  <2>1. /\ Open' = [Open EXCEPT ![c] = InWatch(Idle)]
        /\ At' = [At EXCEPT ![c] = IF InWatch(Idle) THEN Idle.pos - Len(Idle.queue) ELSE 0]
        /\ Got' = [Got EXCEPT ![c] = Idle.got]
    BY <1>1, IdleIsRight, StreamMaps, Zenon
  <2>2. InWatch(Idle) = FALSE
    BY IdleIsRight DEF InWatch
  <2> QED BY <2>1, <2>2, IdleIsRight, Zenon
<1>5. CASE InWatch(stream[c])
  <2>1. Open[c]
    BY <1>5, Zenon DEF Open, Watching, InWatch
  <2>2. Abstract!Disconnect(c)
    BY <1>4, <2>1, Zenon DEF Abstract!Disconnect, Open, At, Got
  <2> QED BY <1>3, <2>2, Zenon DEF AbstractStep, Abstract!Next
<1>6. CASE ~InWatch(stream[c])
  <2>1. Piece(stream[c])
    BY Zenon DEF WatchInv
  <2>2. Idle.got = stream[c].got
    BY <2>1, <1>6, IdleIsRight, Zenon DEF Piece
  <2> QED BY <1>1, <1>2, <1>6, <2>2, IdleIsRight, StreamStutters, Zenon
<1> QED BY <1>5, <1>6, Zenon

\* A stream enters the watch: its reader connects, or is turned away.
LEMMA StreamEnters ==
    ASSUME WatchInv, NEW c \in Clients, NEW since \in Nat, NEW know \in ClientType,
           EnterWatch(c, since, know), ~InWatch(stream[c]),
           UNCHANGED <<instances, revision, events, log>>
    PROVE  WatchInv' /\ AbstractStep
<1>1. CASE EndStream(c)
  BY <1>1, StreamEnds, Zenon
<1>2. CASE ~EndStream(c)
  <2> DEFINE t == [Idle EXCEPT !.phase = "polling", !.pos = since]
  <2>1. stream' = [stream EXCEPT ![c] = t] /\ client' = [client EXCEPT ![c] = know]
    BY <1>2, Zenon DEF EnterWatch
  <2>2. client' \in [Clients -> ClientType]
    BY <2>1, Zenon DEF WatchInv, WatchTypes, ClientType
  <2>3. /\ t \in StreamType /\ InWatch(t) /\ t.queue = <<>> /\ t.phase = "polling"
        /\ t.pos = since /\ t.got = NoEvent
    BY EmptySeq, Zenon DEF Idle, StreamType, Phases, InWatch, NoEvent
  <2>4. stream[c].got = NoEvent
    BY Zenon DEF WatchInv, Piece
  <2> HIDE DEF t
  <2>5. Piece(t)
    BY <2>3, EmptyIsPiece, Zenon
  <2>6. WatchInv'
    BY <2>1, <2>2, <2>3, <2>5, StreamKeeps, Zenon
  <2>7. /\ Open' = [Open EXCEPT ![c] = InWatch(t)]
        /\ At' = [At EXCEPT ![c] = IF InWatch(t) THEN t.pos - Len(t.queue) ELSE 0]
        /\ Got' = [Got EXCEPT ![c] = t.got]
    BY <2>1, <2>3, StreamMaps, Zenon
  <2>8. Open' = [Open EXCEPT ![c] = TRUE]
    <3>1. InWatch(t) = TRUE
      BY <2>3, Zenon DEF InWatch
    <3> QED BY <2>7, <3>1, Zenon
  <2>9. At' = [At EXCEPT ![c] = since]
    <3>1. (IF InWatch(t) THEN t.pos - Len(t.queue) ELSE 0) = since
      BY <2>3, EmptySeq
    <3> QED BY <2>7, <3>1, Zenon
  <2>10. Got' = Got
    BY <2>3, <2>4, <2>7, Zenon DEF Got
  <2>11. ~Open[c]
    BY Zenon DEF Open, Watching, InWatch
  <2>12. At'[c] = since
    BY <2>9, Zenon DEF At
  <2>13. Abstract!Connect(c)
    BY <2>8, <2>9, <2>10, <2>11, <2>12, Zenon DEF Abstract!Connect, Open, At, Got
  <2> QED BY <2>6, <2>13, Zenon DEF AbstractStep, Abstract!Next
<1> QED BY <1>1, <1>2, Zenon

\* Events are published.
LEMMA PublishMaps ==
    ASSUME WatchInv, NEW new \in Seq(Event), Len(new) > 0, Publish(new),
           UNCHANGED <<stream, client>>, instances' \in [Ids -> Instance]
    PROVE  WatchInv' /\ AbstractStep
<1>1. /\ WatchInv' /\ Len(log') = Len(log) + Len(new)
      /\ \A k \in 1 .. Len(log) : log'[k] = log[k]
  BY PublishKeeps, Zenon
<1>2. log \in Seq(Event) /\ log' \in Seq(Event) /\ Len(log) \in Nat /\ Len(new) \in Nat
  BY <1>1, LenProperties, Zenon DEF WatchInv, WatchTypes
<1>3. Len(log') > Len(log) /\ \A i \in DOMAIN log : log'[i] = log[i]
  <2>1. Len(log') > Len(log)
    BY <1>1, <1>2
  <2>2. DOMAIN log = 1 .. Len(log)
    BY <1>2, LenProperties, Zenon
  <2> QED BY <1>1, <2>1, <2>2, Zenon
<1>4. Open' = Open /\ At' = At /\ Got' = Got
  BY Zenon DEF Open, At, Got, Watching, Delivered
<1>5. Abstract!Publish
  BY <1>2, <1>3, <1>4, Zenon DEF Abstract!Publish, Open, At, Got
<1> QED BY <1>1, <1>5, Zenon DEF AbstractStep, Abstract!Next

-------------------------------------------------------------------------------
\* The actions.

\* create_instance publishes one event.
LEMMA CreateMaps ==
    ASSUME WatchInv, NEW i \in Ids, CreateInstance(i)
    PROVE  WatchInv' /\ AbstractStep
<1>1. PICK alive \in BOOLEAN :
         LET inst == [alive |-> alive, watched |-> TRUE,
                      rev |-> revision + 1, born |-> revision + 1]
         IN /\ instances' = [instances EXCEPT ![i] = inst]
            /\ Publish(<<EventAbout("CREATED", i, StatusOf(inst), revision + 1)>>)
  BY ZenonT(60) DEF CreateInstance
<1> DEFINE inst == [alive |-> alive, watched |-> TRUE, rev |-> revision + 1, born |-> revision + 1]
           e == EventAbout("CREATED", i, StatusOf(inst), revision + 1)
<1>2. e \in Event /\ instances' \in [Ids -> Instance]
  BY <1>1 DEF WatchInv, WatchTypes, EventAbout, Event, EventTypes, Statuses, StatusOf, Instance
<1>3. Publish(<<e>>)
  BY <1>1, Zenon
<1> HIDE DEF e
<1>4. <<e>> \in Seq(Event) /\ Len(<<e>>) > 0
  BY <1>2
<1>5. UNCHANGED <<stream, client>>
  BY Zenon DEF CreateInstance
<1> QED BY <1>2, <1>3, <1>4, <1>5, PublishMaps, Zenon

\* _on_sentinel_exit publishes one event.
LEMMA SentinelMaps ==
    ASSUME WatchInv, NEW i \in Ids, SentinelExit(i)
    PROVE  WatchInv' /\ AbstractStep
<1> DEFINE e == StoppedEvent(i)
<1>1. e \in Event
  BY DEF StoppedEvent, WatchInv, WatchTypes, EventAbout, Event, EventTypes, Statuses
<1>2. instances' \in [Ids -> Instance]
  <2>1. instances \in [Ids -> Instance] /\ revision + 1 \in Nat
    BY DEF WatchInv, WatchTypes
  <2>2. [instances[i] EXCEPT !.watched = FALSE, !.rev = revision + 1] \in Instance
    BY <2>1, Zenon DEF Instance
  <2>3. instances' = [instances EXCEPT ![i] = [instances[i] EXCEPT !.watched = FALSE, !.rev = revision + 1]]
    BY <2>1, Zenon DEF SentinelExit, Instance
  <2> QED BY <2>1, <2>2, <2>3, Zenon
<1>3. Publish(<<e>>) /\ UNCHANGED <<stream, client>>
  BY Zenon DEF SentinelExit
<1> HIDE DEF e
<1>4. <<e>> \in Seq(Event) /\ Len(<<e>>) > 0
  BY <1>1
<1> QED BY <1>2, <1>3, <1>4, PublishMaps, Zenon

\* One or several instances are stopped, in the order of the table.
LEMMA StopMaps ==
    ASSUME WatchInv, NEW gone \in SUBSET Ids, gone # {}, StopInstances(gone)
    PROVE  WatchInv' /\ AbstractStep
<1> DEFINE n == Cardinality(gone)
<1>1. n \in Nat /\ n > 0
  <2>1. IsFiniteSet(gone)
    BY LauncherConstants, FS_Subset, Zenon
  <2> QED BY <2>1, FS_CardinalityType, FS_EmptySet
<1> HIDE DEF n
<1>2. PICK order \in Orders(gone) :
         Publish([k \in 1 .. n |-> EventAbout("DELETED", order[k], "stopped", revision + k)])
  BY Zenon DEF StopInstances, n
<1> DEFINE new == [k \in 1 .. n |-> EventAbout("DELETED", order[k], "stopped", revision + k)]
<1>3. order \in [1 .. n -> gone]
  BY <1>2, Zenon DEF Orders, n
<1>4. ASSUME NEW k \in 1 .. n
      PROVE  EventAbout("DELETED", order[k], "stopped", revision + k) \in Event
  BY <1>1, <1>3 DEF WatchInv, WatchTypes, EventAbout, Event, EventTypes, Statuses
<1>5. new \in [1 .. n -> Event]
  BY <1>4, Zenon
<1> HIDE DEF new
<1>6. new \in Seq(Event) /\ Len(new) = n
  BY <1>1, <1>5, LenProperties
<1>7. instances' \in [Ids -> Instance]
  BY Zenon DEF StopInstances, WatchInv, WatchTypes, Instance, Absent
<1>8. Publish(new) /\ UNCHANGED <<stream, client>>
  BY <1>2, Zenon DEF StopInstances, new
<1> QED BY <1>1, <1>6, <1>7, <1>8, PublishMaps, Zenon

\* A vLLM process ends: nothing of it is visible yet.
LEMMA ExitMaps ==
    ASSUME WatchInv, NEW i \in Ids, ProcessExits(i)
    PROVE  WatchInv' /\ AbstractStep
<1>1. instances' \in [Ids -> Instance] /\ UNCHANGED <<revision, events, stream, client, log>>
  BY ZenonT(60) DEF ProcessExits, WatchInv, WatchTypes, Instance
<1>2. WatchInv'
  BY <1>1, Zenon DEF WatchInv, WatchTypes, BufferIsSuffix, Piece, InWatch
<1>3. UNCHANGED <<log, Open, At, Got>>
  BY <1>1, Zenon DEF Open, At, Got, Watching, Delivered
<1> QED BY <1>2, <1>3, Zenon DEF AbstractStep

\* A restart of the launcher restarts the log.
LEMMA RestartMaps ==
    ASSUME WatchInv, LauncherRestart
    PROVE  WatchInv' /\ AbstractStep
<1>1. /\ instances' = [i \in Ids |-> Absent] /\ revision' = 0 /\ events' = <<>> /\ log' = <<>>
      /\ stream' = [c \in Clients |-> Idle]
      /\ client' = [c \in Clients |-> [client[c] EXCEPT !.whole = FALSE]]
  BY Zenon DEF LauncherRestart
<1>2. WatchTypes'
  BY <1>1, IdleIsRight, EmptySeq, ZenonT(60) DEF WatchInv, WatchTypes, Instance, Absent
<1>3. BufferIsSuffix'
  BY <1>1 DEF BufferIsSuffix
<1>4. ASSUME NEW c \in Clients PROVE Piece(stream[c])'
  <2>1. stream'[c] = Idle
    BY <1>1, Zenon
  <2> QED BY <2>1, IdleIsRight DEF Piece, InWatch, Idle, Off
<1>5. /\ Open' = [c \in Clients |-> FALSE]
      /\ At' = [c \in Clients |-> 0] /\ Got' = [c \in Clients |-> NoEvent]
  <2>1. ASSUME NEW c \in Clients
        PROVE  Watching(c)' = FALSE /\ stream'[c].got = NoEvent
    BY <1>1, IdleIsRight DEF Watching, InWatch
  <2>2. Open' = [c \in Clients |-> Watching(c)']
    BY Zenon DEF Open
  <2>3. At' = [c \in Clients |-> IF Watching(c)' THEN Delivered(c)' ELSE 0]
    BY Zenon DEF At
  <2>4. Got' = [c \in Clients |-> stream'[c].got]
    BY Zenon DEF Got
  <2> QED BY <2>1, <2>2, <2>3, <2>4, Zenon
<1>6. Abstract!Restart
  BY <1>1, <1>5, Zenon DEF Abstract!Restart, Open, At, Got
<1> QED BY <1>2, <1>3, <1>4, <1>6, Zenon DEF WatchInv, AbstractStep, Abstract!Next

\* EventBroadcaster._notify wakes the streams, and nothing of it is visible.
LEMMA NotifyMaps ==
    ASSUME WatchInv, Notify
    PROVE  WatchInv' /\ AbstractStep
<1> DEFINE Woken(t) == [t EXCEPT !.phase = IF @ = "waiting" THEN "polling" ELSE @]
<1>1. stream' = [c \in Clients |-> Woken(stream[c])] /\ UNCHANGED <<instances, revision, events, client, log>>
  BY Zenon DEF Notify
<1>2. ASSUME NEW c \in Clients
      PROVE  /\ stream'[c] = Woken(stream[c]) /\ stream'[c] \in StreamType
             /\ stream'[c].pos = stream[c].pos /\ stream'[c].queue = stream[c].queue
             /\ stream'[c].got = stream[c].got
             /\ (stream'[c].phase = "sending") = (stream[c].phase = "sending")
             /\ InWatch(stream'[c]) = InWatch(stream[c])
  <2> DEFINE t == stream[c]
  <2>1. t \in StreamType /\ stream'[c] = Woken(t)
    BY <1>1, Zenon DEF WatchInv, WatchTypes
  <2> HIDE DEF t
  <2>2. /\ Woken(t) \in StreamType
        /\ Woken(t).pos = t.pos /\ Woken(t).queue = t.queue /\ Woken(t).got = t.got
        /\ Woken(t).phase = IF t.phase = "waiting" THEN "polling" ELSE t.phase
    BY <2>1, Zenon DEF StreamType, Phases
  <2> HIDE DEF Woken
  <2>3. (Woken(t).phase = "sending") = (t.phase = "sending")
    BY <2>2, Zenon
  <2>4. InWatch(Woken(t)) = InWatch(t)
    BY <2>2 DEF InWatch
  <2> QED BY <2>1, <2>2, <2>3, <2>4, Zenon DEF t
<1> HIDE DEF Woken
<1>3. WatchTypes'
  BY <1>1, <1>2, Zenon DEF WatchInv, WatchTypes
<1>4. BufferIsSuffix'
  BY <1>1, Zenon DEF WatchInv, BufferIsSuffix
<1>5. ASSUME NEW c \in Clients PROVE Piece(stream[c])'
  <2>1. Piece(stream[c])
    BY Zenon DEF WatchInv
  <2> QED BY <1>1, <1>2, <2>1 DEF Piece, InWatch
<1>6. \A c \in Clients : Watching(c)' = Watching(c) /\ Delivered(c)' = Delivered(c)
  BY <1>2, Zenon DEF Watching, Delivered, InWatch
<1>7. Open' = Open /\ At' = At /\ Got' = Got
  <2>1. Open' = [c \in Clients |-> Watching(c)']
    BY DEF Open
  <2>2. At' = [c \in Clients |-> IF Watching(c)' THEN Delivered(c)' ELSE 0]
    BY DEF At
  <2>3. Got' = [c \in Clients |-> stream'[c].got]
    BY DEF Got
  <2> QED BY <1>2, <1>6, <2>1, <2>2, <2>3, Zenon DEF Open, At, Got
<1> QED BY <1>1, <1>3, <1>4, <1>5, <1>7, Zenon DEF WatchInv, AbstractStep

\* What a client does by itself.
LEMMA ClientMaps ==
    ASSUME WatchInv, NEW c \in Clients, ClientStep(c)
    PROVE  WatchInv' /\ AbstractStep
<1>1. /\ stream[c] \in StreamType /\ Piece(stream[c]) /\ client \in [Clients -> ClientType]
      /\ revision \in Nat /\ stream \in [Clients -> StreamType]
  BY Zenon DEF WatchInv, WatchTypes, ClientType
<1>2. Stranger \in ClientType
  BY Zenon DEF Stranger, ClientType
<1>3. CASE ListInstances(c)
  <2>1. Listing \in [Ids -> Statuses \union {None}]
    BY Zenon DEF Listing, StatusOf, Statuses
  <2>2. client' \in [Clients -> ClientType]
    BY <1>1, <1>3, <2>1, Zenon DEF ListInstances, ClientType
  <2>3. stream' = [stream EXCEPT ![c] = stream[c]] /\ UNCHANGED <<instances, revision, events, log>>
    BY <1>1, <1>3, Zenon DEF ListInstances
  <2> QED BY <1>1, <2>2, <2>3, StreamStutters, ZenonT(60)
<1>4. CASE WatchBare(c)
  <2> DEFINE t == [stream[c] EXCEPT !.phase = "accepted", !.bare = TRUE]
  <2>1. stream' = [stream EXCEPT ![c] = t] /\ UNCHANGED <<instances, revision, events, log>>
    BY <1>1, <1>4, Zenon DEF WatchBare, StreamType
  <2>2. client' \in [Clients -> ClientType]
    BY <1>1, <1>2, <1>4, Zenon DEF WatchBare
  <2>3. /\ t \in StreamType /\ ~InWatch(t) /\ t.got = stream[c].got /\ t.queue = stream[c].queue
        /\ t.phase # "sending"
    BY <1>1, Zenon DEF StreamType, Phases, InWatch
  <2>4. ~InWatch(stream[c]) /\ stream[c].queue = <<>> /\ stream[c].got = NoEvent
    BY <1>1, <1>4, Zenon DEF WatchBare, InWatch, Piece, Off
  <2> HIDE DEF t
  <2>5. Piece(t)
    BY <2>3, <2>4, EmptyIsPiece, Zenon
  <2> QED BY <2>1, <2>2, <2>3, <2>4, <2>5, StreamStutters, Zenon
<1>5. CASE WatchSince(c) /\ client[c].seen < OldestRevision
  <2>1. client' \in [Clients -> ClientType]
    BY <1>1, <1>2, <1>5, Zenon DEF WatchSince
  <2>2. stream' = [stream EXCEPT ![c] = stream[c]] /\ UNCHANGED <<instances, revision, events, log>>
    BY <1>1, <1>5, Zenon DEF WatchSince
  <2> QED BY <1>1, <2>1, <2>2, StreamStutters, ZenonT(60)
<1>6. CASE WatchSince(c) /\ ~(client[c].seen < OldestRevision)
  <2> DEFINE t == [stream[c] EXCEPT !.phase = "accepted", !.pos = client[c].seen]
  <2>1. stream' = [stream EXCEPT ![c] = t] /\ UNCHANGED <<instances, revision, events, log, client>>
    BY <1>1, <1>6, Zenon DEF WatchSince, StreamType
  <2>2. client[c].seen \in Nat
    BY <1>1, Zenon DEF ClientType
  <2>3. /\ t \in StreamType /\ ~InWatch(t) /\ t.got = stream[c].got /\ t.queue = stream[c].queue
        /\ t.phase # "sending"
    BY <1>1, <2>2, Zenon DEF StreamType, Phases, InWatch
  <2>4. ~InWatch(stream[c]) /\ stream[c].queue = <<>> /\ stream[c].got = NoEvent
    BY <1>1, <1>6, Zenon DEF WatchSince, InWatch, Piece, Off
  <2> HIDE DEF t
  <2>5. Piece(t)
    BY <2>3, <2>4, EmptyIsPiece
  <2> QED BY <1>1, <2>1, <2>3, <2>4, <2>5, StreamStutters, Zenon
<1>7. CASE Disconnect(c)
  BY <1>7, StreamEnds, Zenon DEF Disconnect
<1> QED BY <1>3, <1>4, <1>5, <1>6, <1>7, Zenon DEF ClientStep

\* The start of a stream, and the list it begins with.
LEMMA StartMaps ==
    ASSUME WatchInv, NEW c \in Clients, StartStream(c)
    PROVE  WatchInv' /\ AbstractStep
<1>1. /\ stream[c] \in StreamType /\ Piece(stream[c]) /\ client \in [Clients -> ClientType]
      /\ revision \in Nat /\ stream \in [Clients -> StreamType]
      /\ stream[c].pos \in Nat /\ client[c] \in ClientType
  BY Zenon DEF WatchInv, WatchTypes, ClientType, StreamType
<1>2. /\ ~InWatch(stream[c]) /\ stream[c].queue = <<>> /\ stream[c].got = NoEvent
      /\ UNCHANGED <<instances, revision, events, log>>
  BY <1>1, Zenon DEF StartStream, InWatch, Piece
<1>3. CASE stream[c].bare
  <2> DEFINE n == Cardinality(Present)
             t == [stream[c] EXCEPT !.phase = "listing", !.pos = revision, !.size = n]
  <2>1. n \in Nat
    <3>1. Present \in SUBSET Ids
      BY Zenon DEF Present
    <3> QED BY <3>1, LauncherConstants, FS_Subset, FS_CardinalityType, Zenon
  <2>2. stream' = [stream EXCEPT ![c] = t] /\ UNCHANGED client
    BY <1>1, <1>3, Zenon DEF StartStream, StreamType
  <2> HIDE DEF n
  <2>3. /\ t \in StreamType /\ ~InWatch(t) /\ t.got = stream[c].got /\ t.queue = stream[c].queue
        /\ t.phase # "sending"
    BY <1>1, <2>1, ZenonT(60) DEF StreamType, Phases, InWatch
  <2> HIDE DEF t
  <2>4. Piece(t)
    BY <1>2, <2>3, EmptyIsPiece, Zenon
  <2> QED BY <1>1, <1>2, <2>2, <2>3, <2>4, StreamStutters, Zenon
<1>4. CASE ~stream[c].bare
  <2>1. EnterWatch(c, stream[c].pos, client[c])
    BY <1>4, Zenon DEF StartStream
  <2> QED BY <1>1, <1>2, <2>1, StreamEnters, Zenon
<1> QED BY <1>3, <1>4, Zenon

\* The synthetic CREATED events are not part of the log; what follows them enters the watch.
LEMMA ListMaps ==
    ASSUME WatchInv, NEW c \in Clients, ListNext(c)
    PROVE  WatchInv' /\ AbstractStep
<1>1. /\ stream[c] \in StreamType /\ Piece(stream[c]) /\ client \in [Clients -> ClientType]
      /\ stream \in [Clients -> StreamType] /\ instances \in [Ids -> Instance]
      /\ stream[c].pos \in Nat /\ client[c] \in ClientType
  BY Zenon DEF WatchInv, WatchTypes, ClientType, StreamType
<1>2. /\ ~InWatch(stream[c]) /\ stream[c].queue = <<>> /\ stream[c].got = NoEvent
      /\ stream[c].phase = "listing" /\ UNCHANGED <<instances, revision, events, log>>
  BY <1>1, Zenon DEF ListNext, InWatch, Piece
<1>3. CASE EndStream(c)
  BY <1>2, <1>3, StreamEnds, Zenon
<1>4. CASE EnterWatch(c, stream[c].pos, [client[c] EXCEPT !.whole = TRUE])
  <2>1. [client[c] EXCEPT !.whole = TRUE] \in ClientType
    BY <1>1, Zenon DEF ClientType
  <2> QED BY <1>1, <1>2, <1>4, <2>1, StreamEnters, Zenon
<1>5. ASSUME NEW i \in Unlisted(c),
             stream' = [stream EXCEPT ![c].last = instances[i].born],
             client' = [client EXCEPT ![c].view[i] = StatusOf(instances[i]),
                                      ![c].told = TRUE, ![c].seen = instances[i].rev]
      PROVE  WatchInv' /\ AbstractStep
  <2> DEFINE t == [stream[c] EXCEPT !.last = instances[i].born]
             v == [client[c].view EXCEPT ![i] = StatusOf(instances[i])]
             k == [client[c] EXCEPT !.view = v, !.told = TRUE, !.seen = instances[i].rev]
  <2>1. i \in Ids /\ instances[i].born \in Nat /\ instances[i].rev \in Nat
    BY <1>1, Zenon DEF Unlisted, Present, Instance
  <2>2. client' = [client EXCEPT ![c] = k]
    BY <1>1, <1>5, <2>1, Zenon DEF ClientType
  <2>3. v \in [Ids -> Statuses \union {None}]
    BY <1>1, <2>1, Zenon DEF ClientType, StatusOf, Statuses
  <2> HIDE DEF v
  <2>4. k \in ClientType
    BY <1>1, <2>1, <2>3, Zenon DEF ClientType
  <2> HIDE DEF k
  <2>5. client' \in [Clients -> ClientType]
    BY <1>1, <2>2, <2>4, Zenon
  <2>6. stream' = [stream EXCEPT ![c] = t]
    BY <1>1, <1>5, Zenon DEF StreamType
  <2>7. /\ t \in StreamType /\ t.got = stream[c].got /\ t.queue = stream[c].queue
        /\ t.phase = stream[c].phase
    BY <1>1, <2>1, ZenonT(60) DEF StreamType
  <2> HIDE DEF t
  <2>8. ~InWatch(t)
    BY <1>2, <2>7, Zenon DEF InWatch
  <2>9. Piece(t)
    BY <1>2, <2>7, <2>8, EmptyIsPiece, Zenon
  <2> QED BY <1>2, <2>5, <2>6, <2>7, <2>8, <2>9, StreamStutters, Zenon
<1> QED BY <1>3, <1>4, <1>5, Zenon DEF ListNext

\* What a stream takes from the buffer is the rest of the log from its cursor on.
LEMMA NewEventsAreNext ==
    ASSUME WatchInv, NEW c \in Clients,
           stream[c].pos < revision, ~(stream[c].pos < OldestRevision)
    PROVE  /\ NewEvents(c) \in Seq(Event) /\ Len(NewEvents(c)) = revision - stream[c].pos
           /\ \A k \in 1 .. Len(NewEvents(c)) : NewEvents(c)[k] = log[stream[c].pos + k]
<1> DEFINE pos == stream[c].pos
           m == pos - OldestRevision + 1
<1>1. /\ pos \in Nat /\ revision \in Nat /\ events \in Seq(Event) /\ Len(events) \in Nat
      /\ Len(events) <= revision
      /\ \A k \in 1 .. Len(events) : events[k] = log[revision - Len(events) + k]
  BY LenProperties, Zenon DEF WatchInv, WatchTypes, BufferIsSuffix, StreamType
<1>2. OldestRevision = revision - Len(events) /\ OldestRevision \in Int
  BY <1>1 DEF OldestRevision
<1>3. NewEvents(c) = SubSeq(events, m, Len(events))
  BY Zenon DEF NewEvents
<1>4. pos < revision /\ OldestRevision <= pos
  BY <1>1, <1>2
<1> HIDE DEF pos
<1>5. m \in 1 .. Len(events) /\ m \in Int /\ Len(events) - m + 1 = revision - pos
  BY <1>1, <1>2, <1>4
<1> HIDE DEF m
<1>6. \A i \in m .. Len(events) : events[i] \in Event
  BY <1>1, <1>5, ElementOfSeq
<1>7. /\ SubSeq(events, m, Len(events)) \in Seq(Event)
      /\ Len(SubSeq(events, m, Len(events))) = Len(events) - m + 1
      /\ \A i \in 1 .. Len(events) - m + 1 : SubSeq(events, m, Len(events))[i] = events[m + i - 1]
  <2> DEFINE n == Len(events)
             new == SubSeq(events, m, n)
  <2>1. n \in Int /\ m <= n
    BY <1>1, <1>5
  <2>2. \A i \in m .. n : events[i] \in Event
    BY <1>6, Zenon
  <2> HIDE DEF n
  <2>3. /\ new \in Seq(Event) /\ Len(new) = IF m <= n THEN n - m + 1 ELSE 0
        /\ \A i \in 1 .. n - m + 1 : new[i] = events[m + i - 1]
    BY <1>5, <2>1, <2>2, SubSeqProperties
  <2>4. Len(new) = n - m + 1
    BY <2>1, <2>3, Zenon
  <2> QED BY <2>3, <2>4, Zenon DEF n
<1>8. ASSUME NEW k \in 1 .. revision - pos PROVE NewEvents(c)[k] = log[pos + k]
  <2>1. NewEvents(c)[k] = events[m + k - 1]
    BY <1>3, <1>5, <1>7, Zenon
  <2>2. m + k - 1 \in 1 .. Len(events) /\ revision - Len(events) + (m + k - 1) = pos + k
    BY <1>1, <1>2, <1>4, <1>5 DEF m
  <2> QED BY <1>1, <2>1, <2>2, Zenon
<1> QED BY <1>3, <1>5, <1>7, <1>8, Zenon DEF pos

\* The loop of EventBroadcaster.watch takes what is new, or ends the stream.
LEMMA PollMaps ==
    ASSUME WatchInv, NEW c \in Clients, Poll(c)
    PROVE  WatchInv' /\ AbstractStep
<1>1. /\ stream[c] \in StreamType /\ Piece(stream[c]) /\ client \in [Clients -> ClientType]
      /\ stream \in [Clients -> StreamType] /\ stream[c].pos \in Nat /\ revision \in Nat
  BY Zenon DEF WatchInv, WatchTypes, ClientType, StreamType
<1>2. /\ InWatch(stream[c]) /\ stream[c].queue = <<>> /\ stream[c].phase = "polling"
      /\ UNCHANGED <<instances, revision, events, log>>
  BY <1>1, Zenon DEF Poll, InWatch, Piece
<1>3. CASE stream[c].pos >= revision
  <2> DEFINE t == [stream[c] EXCEPT !.phase = "waiting"]
  <2>1. stream' = [stream EXCEPT ![c] = t] /\ UNCHANGED client
    BY <1>1, <1>3, Zenon DEF Poll, StreamType
  <2>2. /\ t \in StreamType /\ t.got = stream[c].got /\ t.queue = stream[c].queue
        /\ t.phase = "waiting" /\ t.pos = stream[c].pos
    BY <1>1, ZenonT(60) DEF StreamType, Phases
  <2> HIDE DEF t
  <2>3. InWatch(t)
    BY <2>2, Zenon DEF InWatch
  <2>4. Piece(t)
    BY <1>2, <2>2, <2>3, EmptyIsPiece, Zenon
  <2> QED BY <1>1, <1>2, <2>1, <2>2, <2>3, <2>4, StreamStutters, Zenon
<1>4. CASE ~(stream[c].pos >= revision) /\ stream[c].pos < OldestRevision
  <2>1. EndStream(c)
    BY <1>4, Zenon DEF Poll
  <2> QED BY <1>2, <2>1, StreamEnds, Zenon
<1>5. CASE ~(stream[c].pos >= revision) /\ ~(stream[c].pos < OldestRevision)
  <2> DEFINE q == NewEvents(c)
             t == [stream[c] EXCEPT !.phase = "sending", !.pos = revision, !.queue = q]
  <2>1. /\ q \in Seq(Event) /\ Len(q) = revision - stream[c].pos
        /\ \A k \in 1 .. Len(q) : q[k] = log[stream[c].pos + k]
    BY <1>1, <1>5, NewEventsAreNext
  <2>2. stream' = [stream EXCEPT ![c] = t] /\ UNCHANGED client
    BY <1>1, <1>5, Zenon DEF Poll, StreamType
  <2> HIDE DEF q
  <2>3. /\ t \in StreamType /\ t.got = stream[c].got /\ t.queue = q
        /\ t.phase = "sending" /\ t.pos = revision
    BY <1>1, <2>1, ZenonT(60) DEF StreamType, Phases
  <2> HIDE DEF t
  <2>4. InWatch(t)
    BY <2>3, Zenon DEF InWatch
  <2>5. Len(q) > 0 /\ Len(q) <= revision /\ revision - Len(q) = stream[c].pos
    BY <1>1, <1>5, <2>1
  <2>6. q # <<>>
    BY <2>1, <2>5
  <2>7. Piece(t)
    <3>1. t.pos <= revision /\ Len(t.queue) <= t.pos
      BY <1>1, <2>3, <2>5
    <3>2. \A k \in 1 .. Len(t.queue) : t.queue[k] = log[t.pos - Len(t.queue) + k]
      BY <2>1, <2>3, <2>5, Zenon
    <3> QED BY <2>3, <2>4, <2>6, <3>1, <3>2, Zenon DEF Piece
  <2>8. stream[c].pos - Len(stream[c].queue) = stream[c].pos
    BY <1>1, <1>2
  <2> QED BY <1>1, <1>2, <2>2, <2>3, <2>4, <2>5, <2>7, <2>8, StreamStutters, ZenonT(60)
<1> QED BY <1>3, <1>4, <1>5, Zenon

\* The event that is sent is the next one of the log.
LEMMA SendMaps ==
    ASSUME WatchInv, NEW c \in Clients, Send(c)
    PROVE  WatchInv' /\ AbstractStep
<1> DEFINE q == stream[c].queue
           e == Head(q)
           pos == stream[c].pos
           next == IF Tail(q) = <<>> THEN "polling" ELSE "sending"
           t == [stream[c] EXCEPT !.queue = Tail(q), !.got = e, !.phase = next]
           v == Apply(client[c].view, e)
           k == [client[c] EXCEPT !.view = v, !.told = TRUE, !.seen = e.rev]
<1>1. /\ stream[c] \in StreamType /\ Piece(stream[c]) /\ client \in [Clients -> ClientType]
      /\ stream \in [Clients -> StreamType] /\ pos \in Nat /\ revision \in Nat
      /\ Len(log) = revision /\ q \in Seq(Event)
  BY Zenon DEF WatchInv, WatchTypes, BufferIsSuffix, ClientType, StreamType
<1>2. stream[c].phase = "sending" /\ UNCHANGED <<instances, revision, events, log>>
  BY Zenon DEF Send
<1>3. /\ q # <<>> /\ pos <= revision /\ Len(q) <= pos
      /\ \A j \in 1 .. Len(q) : q[j] = log[pos - Len(q) + j]
  BY <1>1, <1>2, Zenon DEF Piece
<1>4. client' = [client EXCEPT ![c] = k]
  BY <1>1, Zenon DEF Send, ClientType
<1>5. stream' = [stream EXCEPT ![c] = t]
  BY <1>1, <1>2, ZenonT(60) DEF Send, StreamType
<1> HIDE DEF q, pos
<1>6. /\ Tail(q) \in Seq(Event) /\ Len(Tail(q)) = Len(q) - 1 /\ Len(q) \in Nat \ {0}
      /\ \A j \in 1 .. Len(q) - 1 : Tail(q)[j] = q[j + 1]
      /\ e = q[1] /\ e \in Event
  BY <1>1, <1>3, HeadTailProperties, ElementOfSeq
<1> HIDE DEF e
<1>7. client' \in [Clients -> ClientType]
  <2>1. client[c].view \in [Ids -> Statuses \union {None}] /\ client[c] \in ClientType
    BY <1>1, Zenon DEF ClientType
  <2>2. e.id \in Ids /\ e.status \in Statuses /\ e.rev \in Nat
    BY <1>6, Zenon DEF Event
  <2>3. v \in [Ids -> Statuses \union {None}]
    BY <2>1, <2>2, Zenon DEF Apply
  <2> HIDE DEF v
  <2>4. k \in ClientType
    BY <2>1, <2>2, <2>3, Zenon DEF ClientType
  <2> HIDE DEF k
  <2> QED BY <1>1, <1>4, <2>4, Zenon
<1>8. /\ t \in StreamType /\ t.queue = Tail(q) /\ t.got = e /\ t.phase = next /\ t.pos = pos
  BY <1>1, <1>6, Zenon DEF StreamType, Phases, pos
<1> HIDE DEF t
<1>9. InWatch(t) = TRUE
  BY <1>8, Zenon DEF InWatch
<1>10. e = log[pos - Len(q) + 1]
  BY <1>3, <1>6
<1>11. Piece(t)
  <2>1. t.phase # "sending" => t.queue = <<>>
    BY <1>8, Zenon
  <2>2. t.phase = "sending" => t.queue # <<>> /\ t.pos <= revision
    BY <1>3, <1>8, Zenon
  <2>3. Len(t.queue) <= t.pos
    BY <1>1, <1>3, <1>6, <1>8
  <2>4. ASSUME NEW j \in 1 .. Len(t.queue)
        PROVE  t.queue[j] = log[t.pos - Len(t.queue) + j]
    <3>1. j \in 1 .. Len(q) - 1 /\ j + 1 \in 1 .. Len(q)
      BY <1>6, <1>8
    <3>2. t.queue[j] = q[j + 1] /\ q[j + 1] = log[pos - Len(q) + (j + 1)]
      BY <1>3, <1>6, <1>8, <3>1, Zenon
    <3>3. pos - Len(q) + (j + 1) = t.pos - Len(t.queue) + j
      BY <1>1, <1>6, <1>8
    <3> QED BY <3>2, <3>3, Zenon
  <2> QED BY <1>9, <2>1, <2>2, <2>3, <2>4, Zenon DEF Piece
<1>12. WatchInv'
  BY <1>2, <1>5, <1>7, <1>8, <1>11, StreamKeeps, Zenon
<1>13. /\ Open' = [Open EXCEPT ![c] = InWatch(t)]
       /\ At' = [At EXCEPT ![c] = IF InWatch(t) THEN t.pos - Len(t.queue) ELSE 0]
       /\ Got' = [Got EXCEPT ![c] = t.got]
  BY <1>5, <1>8, StreamMaps, Zenon
<1>14. Open[c] /\ Open[c] = TRUE /\ At[c] = pos - Len(q)
  BY <1>2, Zenon DEF Open, At, Watching, Delivered, q, pos
<1>15. Open' = Open
  BY <1>9, <1>13, <1>14, ZenonT(60) DEF Open
<1>16. At[c] < Len(log) /\ t.pos - Len(t.queue) = At[c] + 1
  BY <1>1, <1>3, <1>6, <1>8, <1>14
<1>17. At' = [At EXCEPT ![c] = At[c] + 1]
  BY <1>9, <1>13, <1>16, Zenon
<1>18. Got' = [Got EXCEPT ![c] = log[At[c] + 1]]
  BY <1>8, <1>10, <1>13, <1>14, ZenonT(60)
<1>19. Abstract!Receive(c)
  BY <1>2, <1>14, <1>15, <1>16, <1>17, <1>18, Zenon DEF Abstract!Receive, Open, At, Got
<1> QED BY <1>12, <1>19, Zenon DEF AbstractStep, Abstract!Next

-------------------------------------------------------------------------------

\* The invariant holds in the launcher's initial state.
LEMMA WatchInvInit == LauncherInit => WatchInv
<1> SUFFICES ASSUME LauncherInit PROVE WatchInv
  BY Zenon
<1>1. WatchTypes
  BY IdleIsRight, EmptySeq, Zenon DEF LauncherInit, WatchTypes, Stranger, Instance, Absent
<1>2. BufferIsSuffix
  BY DEF LauncherInit, BufferIsSuffix
<1>3. ASSUME NEW c \in Clients PROVE Piece(stream[c])
  <2>1. stream[c] = Idle
    BY Zenon DEF LauncherInit
  <2> QED BY <2>1, IdleIsRight, EmptyIsPiece, Zenon DEF Off
<1> QED BY <1>1, <1>2, <1>3, Zenon DEF WatchInv

\* Every step of the launcher keeps the invariant and is a step of the log or none.
LEMMA NextMaps ==
    ASSUME WatchInv, LauncherNext
    PROVE  WatchInv' /\ AbstractStep
<1>1. ASSUME NEW i \in Ids, CreateInstance(i) \/ ProcessExits(i) \/ SentinelExit(i)
      PROVE  WatchInv' /\ AbstractStep
  BY <1>1, CreateMaps, ExitMaps, SentinelMaps, Zenon
<1>2. ASSUME NEW i \in Ids, StopInstance(i)
      PROVE  WatchInv' /\ AbstractStep
  BY <1>2, StopMaps, Zenon DEF StopInstance
<1>3. CASE StopAllInstances
  <2>1. Present \in SUBSET Ids
    BY Zenon DEF Present
  <2>2. Present # {}
    BY <1>3, FS_EmptySet DEF StopAllInstances
  <2> QED BY <1>3, <2>1, <2>2, StopMaps, Zenon DEF StopAllInstances
<1>4. CASE LauncherRestart \/ Notify
  BY <1>4, RestartMaps, NotifyMaps, Zenon
<1>5. ASSUME NEW c \in Clients, ClientStep(c) \/ StreamStep(c)
      PROVE  WatchInv' /\ AbstractStep
  BY <1>5, ClientMaps, StartMaps, ListMaps, PollMaps, SendMaps, Zenon DEF StreamStep
<1> QED BY <1>1, <1>2, <1>3, <1>4, <1>5, Zenon DEF LauncherNext

\* For every number of instances, clients and restarts and every size of the
\* buffer, the streams of the launcher's watch endpoint implement the abstract log
\* of events: each sends the events that follow its starting point once and in the
\* order of their revisions, although _append drops old events, watch takes them in
\* batches and a stream may be cut off at any point.
THEOREM WatchImplementsEventLog == LauncherSpec => ImplementsEventLog
<1>1. LauncherInit => Abstract!Init
  <2> SUFFICES ASSUME LauncherInit PROVE Abstract!Init
    OBVIOUS
  <2>1. ASSUME NEW c \in Clients PROVE Watching(c) = FALSE /\ stream[c].got = NoEvent
    BY IdleIsRight DEF LauncherInit, Watching, InWatch
  <2> QED BY <2>1, ZenonT(60) DEF Abstract!Init, LauncherInit
<1>2. WatchInv /\ [LauncherNext]_launcherVars => WatchInv'
  <2>1. ASSUME WatchInv, UNCHANGED launcherVars PROVE WatchInv'
    BY <2>1, Zenon DEF launcherVars, WatchInv, WatchTypes, BufferIsSuffix, Piece, InWatch
  <2> QED BY <2>1, NextMaps, Zenon
<1>3. WatchInv /\ [LauncherNext]_launcherVars => [Abstract!Next]_(Abstract!vars)
  <2>1. ASSUME WatchInv, UNCHANGED launcherVars PROVE UNCHANGED Abstract!vars
    BY <2>1, Zenon DEF launcherVars, Abstract!vars, Watching, Delivered
  <2>2. AbstractStep => [Abstract!Next]_(Abstract!vars)
    BY Zenon DEF AbstractStep, Abstract!vars, Open, At, Got
  <2> QED BY <2>1, <2>2, NextMaps, Zenon
<1> QED BY WatchInvInit, <1>1, <1>2, <1>3, PTL DEF LauncherSpec, ImplementsEventLog, Abstract!Spec
===============================================================================
