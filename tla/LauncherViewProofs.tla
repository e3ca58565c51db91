-------------------------- MODULE LauncherViewProofs ---------------------------
(* What the clients of the launcher's watch endpoint know of its table, and what *)
(* its log of events says, for any number of instances, clients and restarts.    *)
EXTENDS LauncherProofs

\* The event about i that the log says last.
LastOf(i, k) ==
    /\ k \in DOMAIN log /\ log[k].id = i
    /\ \A j \in DOMAIN log : j > k => log[j].id # i

\* What the last event about i says when the table has i as it does.
Matches(i, e) ==
    IF i \in Present
    THEN /\ e.type # "DELETED" /\ (instances[i].watched => e.type = "CREATED")
         /\ instances[i].alive => e.status = "running"
         /\ ~instances[i].alive /\ ~instances[i].watched => e.status = "stopped"
    ELSE e.type = "DELETED"

Tells(i) ==
    \/ i \notin Present /\ \A k \in DOMAIN log : log[k].id # i
    \/ \E k \in DOMAIN log : LastOf(i, k) /\ Matches(i, log[k])

\* The log tells the present state of the table: the last event about an instance
\* matches it, and the order of the table is that of the creations in the log.
TableLogged ==
    \A i \in Ids :
       /\ Tells(i)
       /\ instances[i].alive => instances[i].watched
       /\ i \in Present => instances[i].born \in DOMAIN log /\ log[instances[i].born].id = i

\* An event of the log is the first about its instance, or follows one about it that
\* it may follow.
InOrder(prev, type) ==
    CASE type = "CREATED" -> prev = "DELETED"
      [] type = "STOPPED" -> prev = "CREATED"
      [] OTHER -> prev # "DELETED"

LifeInOrder ==
    \A k \in DOMAIN log :
       \/ log[k].type = "CREATED" /\ \A j \in 1 .. (k - 1) : log[j].id # log[k].id
       \/ \E m \in 1 .. (k - 1) :
             /\ log[m].id = log[k].id /\ InOrder(log[m].type, log[k].type)
             /\ \A j \in 1 .. (k - 1) : j > m => log[j].id # log[k].id

\* The log has an event about i beyond position n.
Pending(i, n) == \E k \in DOMAIN log : k > n /\ log[k].id = i

\* v is right about i.
Right(i, v) ==
    /\ (v = None) = (i \notin Present)
    /\ i \in Present /\ instances[i].alive => v = "running"
    /\ i \in Present /\ ~instances[i].alive /\ ~instances[i].watched => v = "stopped"

\* The position in the log up to which a client with stream t and knowledge k has
\* been told everything.
Base(t, k) == IF t.phase = Off THEN k.seen ELSE t.pos - Len(t.queue)

\* A client is right about every instance that no later event is about.  One that
\* is sent the list may also be wrong about those not listed yet.
Informed(t, k) ==
    /\ t.phase = Off => t = Idle
    /\ t.phase = "accepted" =>
          /\ t.last = 0
          /\ IF t.bare THEN ~k.whole /\ k.view = Stranger.view ELSE t.pos = k.seen
    /\ k.whole => /\ Base(t, k) <= revision
                  /\ \A i \in Ids : Pending(i, Base(t, k)) \/ Right(i, k.view[i])
    /\ t.phase = "listing" =>
          /\ ~k.whole /\ t.pos <= revision
          /\ \A i \in Ids : \/ Pending(i, t.pos) \/ Right(i, k.view[i])
                            \/ i \in Present /\ instances[i].born > t.last

ClientsInformed == \A c \in Clients : Informed(stream[c], client[c])

ViewInv == WatchInv /\ TableLogged /\ LifeInOrder /\ ClientsInformed

-------------------------------------------------------------------------------
\* The log.

LEMMA LogFacts ==
    ASSUME WatchInv
    PROVE  /\ log \in Seq(Event) /\ Len(log) \in Nat /\ DOMAIN log = 1 .. Len(log)
           /\ Len(log) = revision /\ instances \in [Ids -> Instance]
           /\ \A k \in DOMAIN log : log[k] \in Event
BY LenProperties, ElementOfSeq, Zenon DEF WatchInv, WatchTypes, BufferIsSuffix

\* Max of FiniteSetsExt.
LEMMA MaxIs ==
    ASSUME NEW S \in SUBSET Nat, NEW m \in S, \A k \in S : k <= m
    PROVE  Max(S) = m
<1>1. \A y \in S : m >= y
  BY Zenon
<1>2. /\ Max(S) \in S /\ \A y \in S : Max(S) >= y
  BY <1>1, Zenon DEF Max
<1>3. Max(S) \in Nat /\ m \in Nat /\ Max(S) >= m /\ Max(S) <= m
  BY <1>1, <1>2, Zenon
<1> QED BY <1>3

\* Where published events are found in the log.
LEMMA PublishedLog ==
    ASSUME WatchInv, NEW new \in Seq(Event), Publish(new)
    PROVE  /\ Len(new) \in Nat /\ DOMAIN log' = 1 .. Len(log) + Len(new)
           /\ \A k \in DOMAIN log : k \in DOMAIN log' /\ log'[k] = log[k]
           /\ \A j \in 1 .. Len(new) : Len(log) + j \in DOMAIN log' /\ log'[Len(log) + j] = new[j]
           /\ \A k \in DOMAIN log' : k \in DOMAIN log \/ \E j \in 1 .. Len(new) : k = Len(log) + j
           /\ revision' = Len(log) + Len(new)
<1>1. /\ log \in Seq(Event) /\ Len(log) \in Nat /\ DOMAIN log = 1 .. Len(log)
      /\ Len(log) = revision
  BY LogFacts, Zenon
<1>2. log' = log \o new /\ revision' = revision + Len(new) /\ Len(new) \in Nat
  BY LenProperties, Zenon DEF Publish
<1>3. /\ log' \in Seq(Event) /\ Len(log') = Len(log) + Len(new)
      /\ \A i \in 1 .. Len(log) + Len(new) :
           log'[i] = IF i <= Len(log) THEN log[i] ELSE new[i - Len(log)]
  BY <1>1, <1>2, ConcatProperties, Zenon
<1>4. DOMAIN log' = 1 .. Len(log) + Len(new)
  BY <1>3, LenProperties, Zenon
<1>5. \A k \in DOMAIN log : k \in DOMAIN log' /\ log'[k] = log[k]
  BY <1>1, <1>2, <1>3, <1>4
<1>6. ASSUME NEW j \in 1 .. Len(new)
      PROVE  Len(log) + j \in DOMAIN log' /\ log'[Len(log) + j] = new[j]
  <2>1. /\ Len(log) + j \in 1 .. Len(log) + Len(new) /\ ~(Len(log) + j <= Len(log))
        /\ (Len(log) + j) - Len(log) = j
    <3>1. PICK a \in Nat, b \in Nat : a = Len(log) /\ b = Len(new)
      BY <1>1, <1>2, Zenon
    <3>2. j \in 1 .. b
      BY <3>1, Zenon
    <3>3. a + j \in 1 .. a + b /\ ~(a + j <= a) /\ (a + j) - a = j
      BY <3>2
    <3> QED BY <3>1, <3>3, Zenon
  <2> QED BY <2>1, <1>3, <1>4, Zenon
<1>7. ASSUME NEW k \in DOMAIN log'
      PROVE  k \in DOMAIN log \/ \E j \in 1 .. Len(new) : k = Len(log) + j
  <2>1. CASE k <= Len(log)
    BY <2>1, <1>1, <1>4
  <2>2. CASE k > Len(log)
    <3> DEFINE n == Len(log)
               m == Len(new)
    <3>1. n \in Nat /\ m \in Nat /\ k \in 1 .. n + m /\ k > n
      BY <2>2, <1>1, <1>2, <1>4, Zenon
    <3> HIDE DEF n, m
    <3>2. k - n \in 1 .. m /\ k = n + (k - n)
      BY <3>1
    <3> QED BY <3>2, Zenon DEF n, m
  <2> QED BY <2>1, <2>2, <1>1, <1>2, <1>4
<1> QED BY <1>1, <1>2, <1>4, <1>5, <1>6, <1>7, Zenon

\* What events may be published: at most one about each instance, with it the state
\* that the table has then, and in the order of the life of the instance.
Fitting(new) ==
    /\ \A j, k \in 1 .. Len(new) : j # k => new[j].id # new[k].id
    /\ \A i \in Ids : (\A j \in 1 .. Len(new) : new[j].id # i) => instances'[i] = instances[i]
    /\ \A j \in 1 .. Len(new) :
          CASE new[j].type = "CREATED" -> new[j].id \notin Present
            [] new[j].type = "STOPPED" -> new[j].id \in Present /\ instances[new[j].id].watched
            [] OTHER -> new[j].id \in Present
    /\ \A i \in Ids : instances'[i].alive => instances'[i].watched
    /\ \A i \in Ids : instances'[i].born # 0 =>
          \/ instances'[i].born = instances[i].born
          \/ \E j \in 1 .. Len(new) : new[j].id = i /\ instances'[i].born = Len(log) + j

\* Such a publication keeps the log true to the table ...
LEMMA PublishKeepsTable ==
    ASSUME ViewInv, WatchInv', NEW new \in Seq(Event), Publish(new), Fitting(new),
           \A j \in 1 .. Len(new), i \in Ids : new[j].id = i => Matches(i, new[j])'
    PROVE  TableLogged'
<1> DEFINE n == Len(log)
<1>1. /\ Len(new) \in Nat /\ DOMAIN log' = 1 .. n + Len(new)
      /\ \A k \in DOMAIN log : k \in DOMAIN log' /\ log'[k] = log[k]
      /\ \A j \in 1 .. Len(new) : n + j \in DOMAIN log' /\ log'[n + j] = new[j]
      /\ \A k \in DOMAIN log' : k \in DOMAIN log \/ \E j \in 1 .. Len(new) : k = n + j
  BY PublishedLog, Zenon DEF ViewInv
<1>2. n \in Nat /\ DOMAIN log = 1 .. n /\ instances \in [Ids -> Instance]
  BY LogFacts, Zenon DEF ViewInv
<1> HIDE DEF n
<1> SUFFICES ASSUME NEW i \in Ids
             PROVE  /\ Tells(i)'
                    /\ instances'[i].alive => instances'[i].watched
                    /\ instances'[i].born # 0 =>
                          instances'[i].born \in DOMAIN log' /\ log'[instances'[i].born].id = i
  BY Zenon DEF TableLogged, Present
<1>3. ASSUME NEW j \in 1 .. Len(new), new[j].id = i PROVE Tells(i)'
  <2>1. PICK p \in DOMAIN log' : p = n + j /\ log'[p] = new[j]
    BY <1>1, Zenon
  <2>2. ASSUME NEW k \in DOMAIN log', k > p PROVE log'[k].id # i
    <3>1. k \notin DOMAIN log
      BY <1>2, <2>1, <2>2
    <3>2. PICK m \in 1 .. Len(new) : k = n + m
      BY <1>1, <3>1, Zenon
    <3>3. m # j
      BY <2>1, <2>2, <3>2, <1>2
    <3>4. log'[k] = new[m] /\ new[m].id # new[j].id
      BY <1>1, <3>2, <3>3, Zenon DEF Fitting
    <3> QED BY <1>3, <3>4, Zenon
  <2>3. LastOf(i, p)'
    BY <2>1, <2>2, <1>3, Zenon DEF LastOf
  <2>4. Matches(i, log[p])'
    BY <1>3, <2>1, Zenon DEF Matches
  <2> QED BY <2>1, <2>3, <2>4, Zenon DEF Tells
<1>4. ASSUME \A j \in 1 .. Len(new) : new[j].id # i PROVE Tells(i)'
  <2>1. instances'[i] = instances[i]
    BY <1>4, Zenon DEF Fitting
  <2>2. i \in Present' <=> i \in Present
    BY <2>1, Zenon DEF Present
  <2>3. \A k \in DOMAIN log' : log'[k].id = i => k \in DOMAIN log /\ log[k].id = i
    BY <1>1, <1>4
  <2>4. CASE i \notin Present /\ \A k \in DOMAIN log : log[k].id # i
    BY <2>2, <2>3, <2>4, Zenon DEF Tells
  <2>5. CASE \E k \in DOMAIN log : LastOf(i, k) /\ Matches(i, log[k])
    <3>1. PICK k \in DOMAIN log : LastOf(i, k) /\ Matches(i, log[k])
      BY <2>5, Zenon
    <3>2. k \in DOMAIN log' /\ log'[k] = log[k]
      BY <1>1, Zenon
    <3>3. LastOf(i, k)'
      BY <2>3, <3>1, <3>2, Zenon DEF LastOf
    <3>4. Matches(i, log[k])'
      BY <2>1, <2>2, <3>1, <3>2, Zenon DEF Matches
    <3> QED BY <3>2, <3>3, <3>4, Zenon DEF Tells
  <2> QED BY <2>4, <2>5, Zenon DEF ViewInv, TableLogged, Tells
<1>5. instances'[i].born # 0 =>
         instances'[i].born \in DOMAIN log' /\ log'[instances'[i].born].id = i
  <2>1. CASE instances'[i].born = instances[i].born
    BY <1>1, <2>1 DEF ViewInv, TableLogged, Present
  <2>2. CASE \E j \in 1 .. Len(new) : new[j].id = i /\ instances'[i].born = n + j
    BY <1>1, <2>2, Zenon
  <2> QED BY <2>1, <2>2, Zenon DEF Fitting, n
<1> QED BY <1>3, <1>4, <1>5, Zenon DEF Fitting

\* ... the life cycles it tells in order ...
LEMMA PublishKeepsLife ==
    ASSUME ViewInv, NEW new \in Seq(Event), Publish(new), Fitting(new)
    PROVE  LifeInOrder'
<1> DEFINE n == Len(log)
<1>1. /\ Len(new) \in Nat /\ DOMAIN log' = 1 .. n + Len(new)
      /\ \A k \in DOMAIN log : k \in DOMAIN log' /\ log'[k] = log[k]
      /\ \A j \in 1 .. Len(new) : n + j \in DOMAIN log' /\ log'[n + j] = new[j]
      /\ \A k \in DOMAIN log' : k \in DOMAIN log \/ \E j \in 1 .. Len(new) : k = n + j
  BY PublishedLog, Zenon DEF ViewInv
<1>2. n \in Nat /\ DOMAIN log = 1 .. n
  BY LogFacts, Zenon DEF ViewInv
<1> HIDE DEF n
<1> SUFFICES ASSUME NEW k \in DOMAIN log'
             PROVE  \/ log'[k].type = "CREATED" /\ \A j \in 1 .. (k - 1) : log'[j].id # log'[k].id
                    \/ \E m \in 1 .. (k - 1) :
                          /\ log'[m].id = log'[k].id /\ InOrder(log'[m].type, log'[k].type)
                          /\ \A j \in 1 .. (k - 1) : j > m => log'[j].id # log'[k].id
  BY Zenon DEF LifeInOrder, InOrder
<1>3. CASE k \in DOMAIN log
  <2>1. log'[k] = log[k] /\ \A j \in 1 .. (k - 1) : log'[j] = log[j]
    <3>1. \A j \in 1 .. (k - 1) : j \in DOMAIN log
      BY <1>2, <1>3
    <3> QED BY <1>1, <1>3, <3>1, Zenon
  <2> QED BY <1>3, <2>1 DEF ViewInv, LifeInOrder
<1>4. ASSUME NEW p \in 1 .. Len(new), k = n + p
      PROVE  \/ log'[k].type = "CREATED" /\ \A j \in 1 .. (k - 1) : log'[j].id # log'[k].id
             \/ \E m \in 1 .. (k - 1) :
                   /\ log'[m].id = log'[k].id /\ InOrder(log'[m].type, log'[k].type)
                   /\ \A j \in 1 .. (k - 1) : j > m => log'[j].id # log'[k].id
  <2> DEFINE i == new[p].id
             type == new[p].type
  <2>1. log'[k] = new[p] /\ i \in Ids /\ type \in EventTypes
    <3>1. new[p] \in Event
      BY ElementOfSeq, Zenon
    <3> QED BY <1>1, <1>4, <3>1, Zenon DEF Event
  <2>2. ASSUME NEW j \in 1 .. (k - 1), log'[j].id = i PROVE j \in DOMAIN log /\ log[j].id = i
    <3>1. j \in DOMAIN log'
      BY <1>1, <1>2, <1>4
    <3>2. ASSUME NEW q \in 1 .. Len(new), j = n + q PROVE FALSE
      <4>1. q # p
        BY <1>2, <1>4, <3>2
      <4>2. log'[j] = new[q] /\ new[q].id # new[p].id
        BY <1>1, <3>2, <4>1, Zenon DEF Fitting
      <4> QED BY <2>2, <4>2, Zenon
    <3> QED BY <1>1, <2>2, <3>1, <3>2, Zenon
  <2>3. CASE i \notin Present /\ \A j \in DOMAIN log : log[j].id # i
    <3>1. type = "CREATED"
      BY <2>1, <2>3, Zenon DEF Fitting, EventTypes
    <3> QED BY <2>1, <2>2, <2>3, <3>1, Zenon
  <2>4. CASE \E m \in DOMAIN log : LastOf(i, m) /\ Matches(i, log[m])
    <3>1. PICK m \in DOMAIN log : LastOf(i, m) /\ Matches(i, log[m])
      BY <2>4, Zenon
    <3>2. m \in 1 .. (k - 1) /\ log'[m] = log[m] /\ log[m].id = i
      BY <1>1, <1>2, <1>4, <3>1 DEF LastOf
    <3>3. InOrder(log[m].type, type)
      BY <2>1, <3>1, Zenon DEF InOrder, Matches, Fitting, EventTypes
    <3>4. \A j \in 1 .. (k - 1) : j > m => log'[j].id # i
      BY <2>2, <3>1, Zenon DEF LastOf
    <3> QED BY <2>1, <3>2, <3>3, <3>4, Zenon
  <2> QED BY <2>1, <2>3, <2>4, Zenon DEF ViewInv, TableLogged, Tells
<1> QED BY <1>1, <1>3, <1>4, Zenon

\* ... and leaves every client right about what no later event is about.
LEMMA PublishKeepsClients ==
    ASSUME ViewInv, NEW new \in Seq(Event), Publish(new), Fitting(new),
           UNCHANGED <<stream, client>>
    PROVE  ClientsInformed'
<1> DEFINE n == Len(log)
<1>1. /\ Len(new) \in Nat /\ DOMAIN log' = 1 .. n + Len(new)
      /\ \A k \in DOMAIN log : k \in DOMAIN log' /\ log'[k] = log[k]
      /\ \A j \in 1 .. Len(new) : n + j \in DOMAIN log' /\ log'[n + j] = new[j]
      /\ revision' = n + Len(new)
  BY PublishedLog, Zenon DEF ViewInv
<1>2. n \in Nat /\ DOMAIN log = 1 .. n /\ n = revision
  BY LogFacts, Zenon DEF ViewInv
<1> HIDE DEF n
<1>3. ASSUME NEW i \in Ids, NEW b \in Int, b <= n
      PROVE  Pending(i, b)' \/ (~Pending(i, b) /\ instances'[i] = instances[i])
  <2>1. CASE \E j \in 1 .. Len(new) : new[j].id = i
    <3>1. PICK j \in 1 .. Len(new) : new[j].id = i
      BY <2>1, Zenon
    <3>2. n + j > b
      BY <1>2, <1>3
    <3> QED BY <1>1, <3>1, <3>2, Zenon DEF Pending
  <2>2. CASE \A j \in 1 .. Len(new) : new[j].id # i
    <3>1. instances'[i] = instances[i]
      BY <2>2, Zenon DEF Fitting
    <3>2. Pending(i, b) => Pending(i, b)'
      BY <1>1, Zenon DEF Pending
    <3> QED BY <3>1, <3>2, Zenon
  <2> QED BY <2>1, <2>2, Zenon
<1>4. ASSUME NEW i \in Ids, instances'[i] = instances[i]
      PROVE  /\ \A v : Right(i, v) => Right(i, v)'
             /\ i \in Present => i \in Present'
  BY <1>4, Zenon DEF Right, Present
<1> SUFFICES ASSUME NEW c \in Clients PROVE Informed(stream[c], client[c])'
  BY Zenon DEF ClientsInformed
<1>5. /\ Informed(stream[c], client[c]) /\ stream[c] \in StreamType /\ client[c] \in ClientType
      /\ stream'[c] = stream[c] /\ client'[c] = client[c]
  BY Zenon DEF ViewInv, ClientsInformed, WatchInv, WatchTypes, ClientType
<1>6. PICK t \in StreamType, k \in ClientType : t = stream[c] /\ k = client[c]
  BY <1>5, Zenon
<1>7. /\ Base(t, k) \in Int /\ t.pos \in Int
  BY LenProperties DEF Base, StreamType, ClientType
<1>8. ASSUME k.whole
      PROVE  Base(t, k) <= revision' /\ \A i \in Ids : Pending(i, Base(t, k))' \/ Right(i, k.view[i])'
  <2>1. PICK b \in Int : b = Base(t, k)
    BY <1>7, Zenon
  <2>2. b <= n /\ \A i \in Ids : Pending(i, b) \/ Right(i, k.view[i])
    BY <1>2, <1>5, <1>6, <1>8, <2>1, Zenon DEF Informed
  <2>3. \A i \in Ids : Pending(i, b)' \/ Right(i, k.view[i])'
    BY <1>3, <1>4, <2>2, Zenon
  <2> QED BY <1>1, <1>2, <2>1, <2>2, <2>3 DEF Base
<1>9. ASSUME t.phase = "listing"
      PROVE  /\ ~k.whole /\ t.pos <= revision'
             /\ \A i \in Ids : \/ Pending(i, t.pos)' \/ Right(i, k.view[i])'
                               \/ i \in Present' /\ instances'[i].born > t.last
  <2>1. /\ ~k.whole /\ t.pos <= n
        /\ \A i \in Ids : \/ Pending(i, t.pos) \/ Right(i, k.view[i])
                          \/ i \in Present /\ instances[i].born > t.last
    BY <1>2, <1>5, <1>6, <1>9, Zenon DEF Informed
  <2>2. t.pos <= revision'
    BY <1>1, <1>2, <1>7, <2>1
  <2>3. ASSUME NEW i \in Ids
        PROVE  \/ Pending(i, t.pos)' \/ Right(i, k.view[i])'
               \/ i \in Present' /\ instances'[i].born > t.last
    <3>1. PICK b \in Int : b = t.pos
      BY <1>7, Zenon
    <3>2. Pending(i, b)' \/ (~Pending(i, b) /\ instances'[i] = instances[i])
      BY <1>3, <2>1, <3>1, Zenon
    <3>3. CASE Pending(i, b)'
      BY <3>1, <3>3, Zenon
    <3>4. CASE ~Pending(i, b) /\ instances'[i] = instances[i]
      <4>1. Right(i, k.view[i]) \/ (i \in Present /\ instances[i].born > t.last)
        BY <2>1, <3>1, <3>4, Zenon
      <4> QED BY <1>4, <3>4, <4>1, Zenon
    <3> QED BY <3>2, <3>3, <3>4, Zenon
  <2> QED BY <2>1, <2>2, <2>3, Zenon
<1> QED BY <1>5, <1>6, <1>8, <1>9, Zenon DEF Informed, Base

-------------------------------------------------------------------------------
\* The manager's actions.

LEMMA PublishKeepsAll ==
    ASSUME ViewInv, WatchInv', NEW new \in Seq(Event), Publish(new), Fitting(new),
           \A j \in 1 .. Len(new), i \in Ids : new[j].id = i => Matches(i, new[j])',
           UNCHANGED <<stream, client>>
    PROVE  ViewInv'
BY PublishKeepsTable, PublishKeepsLife, PublishKeepsClients, Zenon DEF ViewInv

\* The same for a single event about i.
LEMMA PublishOne ==
    ASSUME ViewInv, WatchInv', NEW i \in Ids, NEW e \in Event, e.id = i, Publish(<<e>>),
           UNCHANGED <<stream, client>>,
           \A j \in Ids \ {i} : instances'[j] = instances[j],
           CASE e.type = "CREATED" -> i \notin Present
             [] e.type = "STOPPED" -> i \in Present /\ instances[i].watched
             [] OTHER -> i \in Present,
           Matches(i, e)',
           instances'[i].alive => instances'[i].watched,
           \/ instances'[i].born \in {0, instances[i].born}
           \/ instances'[i].born = Len(log) + 1
    PROVE  ViewInv'
<1>0. <<e>> \in Seq(Event)
  OBVIOUS
<1> PICK new \in Seq(Event) : new = <<e>>
  BY <1>0, Zenon
<1>1. Len(new) = 1 /\ 1 .. Len(new) = {1} /\ new[1] = e
  OBVIOUS
<1>2. \A j \in Ids : instances[j].alive => instances[j].watched
  BY Zenon DEF ViewInv, TableLogged
<1>3. Fitting(new)
  <2>1. \A j \in Ids : instances'[j].alive => instances'[j].watched
    BY <1>2, Zenon
  <2>2. \A j \in Ids : (\A k \in 1 .. Len(new) : new[k].id # j) => instances'[j] = instances[j]
    BY <1>1
  <2>3. \A j \in Ids : instances'[j].born # 0 =>
          \/ instances'[j].born = instances[j].born
          \/ \E k \in 1 .. Len(new) : new[k].id = j /\ instances'[j].born = Len(log) + k
    BY <1>1, Zenon
  <2> QED BY <1>1, <2>1, <2>2, <2>3 DEF Fitting
<1>4. \A j \in 1 .. Len(new), k \in Ids : new[j].id = k => Matches(k, new[j])'
  BY <1>1, Zenon
<1> QED BY <1>3, <1>4, PublishKeepsAll, Zenon

LEMMA CreateKeeps ==
    ASSUME ViewInv, WatchInv', NEW i \in Ids, CreateInstance(i)
    PROVE  ViewInv'
<1>1. PICK alive \in BOOLEAN :
         LET inst == [alive |-> alive, watched |-> TRUE,
                      rev |-> revision + 1, born |-> revision + 1]
         IN /\ instances' = [instances EXCEPT ![i] = inst]
            /\ Publish(<<EventAbout("CREATED", i, StatusOf(inst), revision + 1)>>)
  BY ZenonT(60) DEF CreateInstance
<1>2. /\ revision \in Nat /\ Len(log) = revision /\ instances \in [Ids -> Instance]
  BY LogFacts, Zenon DEF ViewInv, WatchInv, WatchTypes
<1> PICK status \in Statuses : status = IF alive THEN "running" ELSE "stopped"
  BY Zenon DEF Statuses
<1>8. EventAbout("CREATED", i, status, revision + 1) \in Event
  BY <1>2 DEF EventAbout, Event, EventTypes
<1> PICK e \in Event : e = EventAbout("CREATED", i, status, revision + 1)
  BY <1>8, Zenon
<1>3. Publish(<<e>>) /\ UNCHANGED <<stream, client>> /\ i \notin Present
  BY <1>1, Zenon DEF StatusOf, CreateInstance
<1>4. /\ instances'[i] = [alive |-> alive, watched |-> TRUE,
                          rev |-> revision + 1, born |-> revision + 1]
      /\ \A j \in Ids \ {i} : instances'[j] = instances[j]
  BY <1>1, <1>2, Zenon
<1>5. e.id = i /\ e.type = "CREATED" /\ e.status = status
  BY Zenon DEF EventAbout
<1>6. instances'[i].born = Len(log) + 1 /\ i \in Present'
  BY <1>2, <1>4 DEF Present
<1>7. Matches(i, e)'
  BY <1>4, <1>5, <1>6 DEF Matches
<1> QED BY <1>3, <1>4, <1>5, <1>6, <1>7, PublishOne

LEMMA SentinelKeeps ==
    ASSUME ViewInv, WatchInv', NEW i \in Ids, SentinelExit(i)
    PROVE  ViewInv'
<1>1. /\ revision \in Nat /\ Len(log) = revision /\ instances \in [Ids -> Instance]
  BY LogFacts, Zenon DEF ViewInv, WatchInv, WatchTypes
<1>0. StoppedEvent(i) \in Event
  BY <1>1 DEF StoppedEvent, EventAbout, Event, EventTypes, Statuses
<1> PICK e \in Event : e = StoppedEvent(i)
  BY <1>0, Zenon
<1>2. /\ Publish(<<e>>) /\ UNCHANGED <<stream, client>> /\ i \in Present
      /\ ~instances[i].alive /\ instances[i].watched
  BY Zenon DEF SentinelExit
<1>3. /\ \A j \in Ids \ {i} : instances'[j] = instances[j]
      /\ instances'[i] = [instances[i] EXCEPT !.watched = FALSE, !.rev = revision + 1]
  BY <1>1, Zenon DEF SentinelExit, Instance
<1>4. /\ instances'[i].alive = instances[i].alive /\ instances'[i].watched = FALSE
      /\ instances'[i].born = instances[i].born
  BY <1>1, <1>3 DEF Instance
<1>5. e.id = i /\ e.type = "STOPPED" /\ e.status = "stopped"
  BY Zenon DEF StoppedEvent, EventAbout
<1>6. Matches(i, e)'
  BY <1>2, <1>4, <1>5, Zenon DEF Matches, Present
<1> QED BY <1>2, <1>3, <1>4, <1>5, <1>6, PublishOne, Zenon

\* The events of a stop are about different instances: the order of the table is
\* strict.
LEMMA StopKeeps ==
    ASSUME ViewInv, WatchInv', NEW gone \in SUBSET Present, StopInstances(gone)
    PROVE  ViewInv'
<1> DEFINE n == Cardinality(gone)
<1>1. n \in Nat
  <2>1. IsFiniteSet(gone)
    BY LauncherConstants, FS_Subset, Zenon DEF Present
  <2> QED BY <2>1, FS_CardinalityType, Zenon
<1>2. /\ revision \in Nat /\ Len(log) = revision /\ instances \in [Ids -> Instance]
  BY LogFacts, Zenon DEF ViewInv, WatchInv, WatchTypes
<1> HIDE DEF n
<1>3. PICK order \in Orders(gone) :
         Publish([k \in 1 .. n |-> EventAbout("DELETED", order[k], "stopped", revision + k)])
  BY Zenon DEF StopInstances, n
<1>4. /\ order \in [1 .. n -> gone]
      /\ \A j, k \in 1 .. n : j < k => instances[order[j]].born < instances[order[k]].born
  BY <1>3, Zenon DEF Orders, n
<1> DEFINE all == [k \in 1 .. n |-> EventAbout("DELETED", order[k], "stopped", revision + k)]
<1>5. ASSUME NEW k \in 1 .. n
      PROVE  EventAbout("DELETED", order[k], "stopped", revision + k) \in Event
  BY <1>1, <1>2, <1>4 DEF EventAbout, Event, EventTypes, Statuses, Present
<1>6. all \in Seq(Event) /\ Len(all) = n
  BY <1>1, <1>5, IsASeq
<1> PICK new \in Seq(Event) : new = all
  BY <1>6, Zenon
<1>7. /\ Len(new) = n /\ Publish(new)
      /\ \A k \in 1 .. n : new[k].id = order[k] /\ new[k].type = "DELETED"
  BY <1>3, <1>6, Zenon DEF EventAbout
<1> HIDE DEF all
<1>8. /\ \A i \in gone : instances'[i] = Absent
      /\ \A i \in Ids \ gone : instances'[i] = instances[i]
      /\ UNCHANGED <<stream, client>>
  BY Zenon DEF StopInstances, Present
<1>9. \A j, k \in 1 .. n : j # k => order[j] # order[k]
  <2> SUFFICES ASSUME NEW j \in 1 .. n, NEW k \in 1 .. n, j # k, order[j] = order[k]
               PROVE  FALSE
    BY Zenon
  <2>1. instances[order[j]].born \in Nat
    BY <1>2, <1>4, Zenon DEF Instance, Present
  <2> QED BY <1>1, <1>4, <2>1
<1>10. ASSUME NEW i \in gone PROVE \E k \in 1 .. n : order[k] = i
  <2>1. IsFiniteSet(gone)
    BY LauncherConstants, FS_Subset, Zenon DEF Present
  <2>2. Cardinality(1 .. n) = n /\ IsFiniteSet(1 .. n)
    BY <1>1, FS_Interval
  <2>3. order \in Injection(1 .. n, gone)
    BY <1>4, <1>9, Zenon DEF Injection, IsInjective
  <2>4. order \in Surjection(1 .. n, gone)
    BY <2>1, <2>2, <2>3, FS_Injection, Zenon DEF n
  <2> QED BY <2>4, Zenon DEF Surjection
<1>11. Fitting(new)
  <2>1. \A j, k \in 1 .. Len(new) : j # k => new[j].id # new[k].id
    BY <1>7, <1>9
  <2>2. \A i \in Ids : (\A j \in 1 .. Len(new) : new[j].id # i) => instances'[i] = instances[i]
    BY <1>7, <1>8, <1>10
  <2>3. \A j \in 1 .. Len(new) :
          CASE new[j].type = "CREATED" -> new[j].id \notin Present
            [] new[j].type = "STOPPED" -> new[j].id \in Present /\ instances[new[j].id].watched
            [] OTHER -> new[j].id \in Present
    BY <1>4, <1>7, Zenon
  <2>4. \A i \in Ids : instances'[i].alive => instances'[i].watched
    BY <1>8 DEF Absent, ViewInv, TableLogged
  <2>5. \A i \in Ids : instances'[i].born # 0 => instances'[i].born = instances[i].born
    BY <1>8 DEF Absent
  <2> QED BY <2>1, <2>2, <2>3, <2>4, <2>5, Zenon DEF Fitting
<1>12. \A j \in 1 .. Len(new), i \in Ids : new[j].id = i => Matches(i, new[j])'
  <2> SUFFICES ASSUME NEW j \in 1 .. Len(new), NEW i \in Ids, new[j].id = i
               PROVE  Matches(i, new[j])'
    BY Zenon
  <2>1. instances'[i] = Absent /\ new[j].type = "DELETED"
    BY <1>4, <1>7, <1>8
  <2>2. i \notin Present'
    BY <2>1 DEF Present, Absent
  <2> QED BY <2>1, <2>2, Zenon DEF Matches
<1> QED BY <1>7, <1>8, <1>11, <1>12, PublishKeepsAll, Zenon

\* A process that ends leaves both the log and the clients right until its end is
\* published.
LEMMA ExitKeeps ==
    ASSUME ViewInv, WatchInv', NEW i \in Ids, ProcessExits(i)
    PROVE  ViewInv'
<1>1. /\ instances \in [Ids -> Instance] /\ i \in Present /\ instances[i].alive
      /\ instances[i].watched /\ UNCHANGED <<revision, stream, client, log>>
  BY LogFacts, Zenon DEF ViewInv, TableLogged, ProcessExits
<1>2. /\ \A j \in Ids \ {i} : instances'[j] = instances[j]
      /\ instances'[i] = [instances[i] EXCEPT !.alive = FALSE]
  BY <1>1, Zenon DEF ProcessExits
<1>3. /\ ~instances'[i].alive /\ instances'[i].watched
      /\ instances'[i].born = instances[i].born
  BY <1>1, <1>2 DEF Instance
<1>4. \A j \in Ids : j \in Present' <=> j \in Present
  BY <1>2, <1>3, Zenon DEF Present
<1>5. \A j \in Ids : \A e : Matches(j, e) => Matches(j, e)'
  BY <1>1, <1>2, <1>3, <1>4, Zenon DEF Matches
<1>6. \A j \in Ids : \A v : Right(j, v) => Right(j, v)'
  BY <1>1, <1>2, <1>3, <1>4, Zenon DEF Right
<1>7. TableLogged'
  <2>1. ASSUME NEW j \in Ids PROVE Tells(j)'
    <3>1. CASE j \notin Present /\ \A k \in DOMAIN log : log[k].id # j
      BY <1>1, <1>4, <3>1, Zenon DEF Tells
    <3>2. ASSUME NEW k \in DOMAIN log, LastOf(j, k), Matches(j, log[k]) PROVE Tells(j)'
      <4>1. LastOf(j, k)' /\ Matches(j, log[k])'
        BY <1>1, <1>5, <3>2, Zenon DEF LastOf
      <4> QED BY <1>1, <4>1, Zenon DEF Tells
    <3> QED BY <3>1, <3>2, Zenon DEF ViewInv, TableLogged, Tells
  <2>2. ASSUME NEW j \in Ids
        PROVE  /\ instances'[j].alive => instances'[j].watched
               /\ j \in Present' => instances'[j].born \in DOMAIN log' /\ log'[instances'[j].born].id = j
    <3>1. /\ instances[j].alive => instances[j].watched
          /\ j \in Present => instances[j].born \in DOMAIN log /\ log[instances[j].born].id = j
      BY Zenon DEF ViewInv, TableLogged
    <3>2. CASE j = i
      BY <1>1, <1>3, <1>4, <3>1, <3>2, Zenon
    <3>3. CASE j # i
      BY <1>1, <1>2, <1>4, <3>1, <3>3, Zenon
    <3> QED BY <3>2, <3>3, Zenon
  <2> QED BY <2>1, <2>2, Zenon DEF TableLogged
<1>8. LifeInOrder'
  BY <1>1 DEF ViewInv, LifeInOrder, InOrder
<1>9. ClientsInformed'
  <2>1. \A j \in Ids : instances'[j].born = instances[j].born
    BY <1>2, <1>3, Zenon
  <2>2. \A j, n : Pending(j, n) => Pending(j, n)'
    BY <1>1, Zenon DEF Pending
  <2>3. ASSUME NEW t, NEW k, Informed(t, k) PROVE Informed(t, k)'
    BY <1>1, <1>4, <1>6, <2>1, <2>2, <2>3, Zenon DEF Informed, Base
  <2> QED BY <1>1, <2>3, Zenon DEF ViewInv, ClientsInformed
<1> QED BY <1>7, <1>8, <1>9, Zenon DEF ViewInv

-------------------------------------------------------------------------------
\* The clients and their streams: the table and the log stay as they are.

LEMMA TableStays ==
    ASSUME ViewInv, WatchInv', UNCHANGED <<instances, revision, log>>,
           \A c \in Clients : \E t \in StreamType, k \in ClientType :
              stream'[c] = t /\ client'[c] = k /\ Informed(t, k)
    PROVE  ViewInv'
<1>1. TableLogged'
  BY DEF ViewInv, TableLogged, Tells, LastOf, Matches, Present
<1>2. LifeInOrder'
  BY DEF ViewInv, LifeInOrder, InOrder
<1>3. ClientsInformed'
  <2> SUFFICES ASSUME NEW c \in Clients PROVE Informed(stream[c], client[c])'
    BY Zenon DEF ClientsInformed
  <2>1. PICK t \in StreamType, k \in ClientType :
           stream'[c] = t /\ client'[c] = k /\ Informed(t, k)
    BY Zenon
  <2>2. \A i \in Ids : \A n : Pending(i, n)' <=> Pending(i, n)
    BY Zenon DEF Pending
  <2>3. \A i \in Ids : \A v : Right(i, v)' <=> Right(i, v)
    BY Zenon DEF Right, Present
  <2>4. Informed(t, k)'
    BY <2>1, <2>2, <2>3, Zenon DEF Informed, Base, Present
  <2> QED BY <2>1, <2>4, Zenon DEF Informed, Base
<1> QED BY <1>1, <1>2, <1>3, Zenon DEF ViewInv

LEMMA ClientFacts ==
    ASSUME ViewInv, NEW c \in Clients
    PROVE  /\ stream[c] \in StreamType /\ client[c] \in ClientType
           /\ stream \in [Clients -> StreamType] /\ client \in [Clients -> ClientType]
           /\ Informed(stream[c], client[c]) /\ Piece(stream[c])
BY Zenon DEF ViewInv, ClientsInformed, WatchInv, WatchTypes, ClientType

\* A step of the client or the stream of c.
LEMMA ClientKeeps ==
    ASSUME ViewInv, WatchInv', UNCHANGED <<instances, revision, log>>, NEW c \in Clients,
           NEW t \in StreamType, NEW k \in ClientType, Informed(t, k),
           stream' = [stream EXCEPT ![c] = t], client' = [client EXCEPT ![c] = k]
    PROVE  ViewInv'
<1>1. ASSUME NEW d \in Clients
      PROVE  \E u \in StreamType, m \in ClientType :
                stream'[d] = u /\ client'[d] = m /\ Informed(u, m)
  <2>1. /\ stream[d] \in StreamType /\ client[d] \in ClientType
        /\ stream \in [Clients -> StreamType] /\ client \in [Clients -> ClientType]
        /\ Informed(stream[d], client[d])
    BY ClientFacts, Zenon
  <2>2. CASE d = c
    BY <2>1, <2>2, Zenon
  <2>3. CASE d # c
    BY <2>1, <2>3, Zenon
  <2> QED BY <2>2, <2>3, Zenon
<1> QED BY <1>1, TableStays, Zenon

\* Right about everything the log does not tell more about.
LEMMA PendingDown ==
    ASSUME WatchInv, NEW i \in Ids, NEW m \in Int, NEW n \in Int, m <= n, Pending(i, n)
    PROVE  Pending(i, m)
BY LogFacts DEF Pending

LEMMA EndKeeps ==
    ASSUME ViewInv, WatchInv', UNCHANGED <<instances, revision, log>>, NEW c \in Clients,
           stream[c].phase # Off, EndStream(c)
    PROVE  ViewInv'
<1>1. PICK t \in StreamType, k \in ClientType : t = stream[c] /\ k = client[c]
  BY ClientFacts, Zenon
<1>2. Informed(t, k) /\ t.phase # Off /\ WatchInv /\ revision \in Nat
  BY <1>1, ClientFacts, Zenon DEF ViewInv, WatchInv, WatchTypes
<1>3. AfterStream(c) \in ClientType /\ Idle \in StreamType /\ Idle.phase = Off
  BY <1>2, AfterStreamIsRight, IdleIsRight, Zenon
<1>4. PICK m \in ClientType : m = AfterStream(c)
  BY <1>3, Zenon
<1>5. /\ m.view = k.view /\ m.seen = k.seen
      /\ m.whole => k.whole /\ k.seen <= t.pos - Len(t.queue)
  BY <1>1, <1>4, Zenon DEF AfterStream, ClientType
<1>6. /\ t.pos - Len(t.queue) \in Int /\ k.seen \in Int
  BY LenProperties DEF StreamType, ClientType
<1>7. ASSUME m.whole
      PROVE  k.seen <= revision /\ \A i \in Ids : Pending(i, k.seen) \/ Right(i, k.view[i])
  <2>1. PICK b \in Int : b = t.pos - Len(t.queue)
    BY <1>6, Zenon
  <2>2. b <= revision /\ \A i \in Ids : Pending(i, b) \/ Right(i, k.view[i])
    BY <1>2, <1>5, <1>7, <2>1, Zenon DEF Informed, Base
  <2> QED BY <1>2, <1>5, <1>6, <1>7, <2>1, <2>2, PendingDown
<1>8. Informed(Idle, m)
  BY <1>3, <1>5, <1>7, Zenon DEF Informed, Base, Off
<1> QED BY <1>3, <1>4, <1>8, ClientKeeps, Zenon DEF EndStream

LEMMA EnterKeeps ==
    ASSUME ViewInv, WatchInv', UNCHANGED <<instances, revision, log>>, NEW c \in Clients,
           stream[c].phase # Off, NEW since \in Nat, NEW know \in ClientType,
           know.whole => /\ since <= revision
                         /\ \A i \in Ids : Pending(i, since) \/ Right(i, know.view[i]),
           EnterWatch(c, since, know)
    PROVE  ViewInv'
<1>1. CASE EndStream(c)
  BY <1>1, EndKeeps, Zenon
<1>2. CASE ~EndStream(c)
  <2> DEFINE new == [Idle EXCEPT !.phase = "polling", !.pos = since]
  <2>1. new \in StreamType
    BY IdleIsRight, Zenon DEF StreamType, Phases
  <2>2. PICK t \in StreamType : t = new
    BY <2>1, Zenon
  <2>3. t.phase = "polling" /\ t.pos = since /\ t.queue = <<>>
    BY <2>2, Zenon DEF Idle
  <2>4. Base(t, know) = since
    BY <2>3 DEF Base, Off
  <2>5. Informed(t, know)
    BY <2>3, <2>4, Zenon DEF Informed, Off
  <2>6. stream' = [stream EXCEPT ![c] = t] /\ client' = [client EXCEPT ![c] = know]
    BY <1>2, <2>2, Zenon DEF EnterWatch
  <2> QED BY <2>5, <2>6, ClientKeeps, Zenon
<1> QED BY <1>1, <1>2, Zenon

LEMMA ClientStepKeeps ==
    ASSUME ViewInv, WatchInv', NEW c \in Clients, ClientStep(c)
    PROVE  ViewInv'
<1>1. PICK t \in StreamType, k \in ClientType : t = stream[c] /\ k = client[c]
  BY ClientFacts, Zenon
<1>2. /\ Informed(t, k) /\ revision \in Nat /\ instances \in [Ids -> Instance]
      /\ stream = [stream EXCEPT ![c] = t] /\ client = [client EXCEPT ![c] = k]
  BY <1>1, ClientFacts, LogFacts, Zenon DEF ViewInv, WatchInv, WatchTypes
<1>3. UNCHANGED <<instances, revision, log>>
  BY Zenon DEF ClientStep, ListInstances, WatchBare, WatchSince, Disconnect
<1>4. /\ Stranger \in ClientType /\ ~Stranger.whole
  BY Zenon DEF Stranger, ClientType
<1>5. t.phase = Off => t = Idle /\ Informed(t, Stranger)
  BY <1>2, <1>4, IdleIsRight, Zenon DEF Informed, Off
<1>6. CASE ListInstances(c)
  <2>1. Listing \in [Ids -> Statuses \union {None}]
    BY Zenon DEF Listing, StatusOf, Statuses
  <2>2. [view |-> Listing, told |-> TRUE, seen |-> revision, whole |-> TRUE] \in ClientType
    BY <1>2, <2>1, Zenon DEF ClientType
  <2>3. PICK m \in ClientType :
           m = [view |-> Listing, told |-> TRUE, seen |-> revision, whole |-> TRUE]
    BY <2>2, Zenon
  <2>4. m.view = Listing /\ m.seen = revision
    BY <2>3, Zenon
  <2>5. \A i \in Ids : Right(i, m.view[i])
    BY <2>4, Zenon DEF Right, Listing, StatusOf, None
  <2>6. t.phase = Off
    BY <1>1, <1>6, Zenon DEF ListInstances
  <2>7. Base(t, m) = revision
    BY <2>4, <2>6, Zenon DEF Base
  <2>8. Informed(t, m)
    BY <1>2, <1>5, <2>5, <2>6, <2>7 DEF Informed, Off
  <2>9. stream' = [stream EXCEPT ![c] = t] /\ client' = [client EXCEPT ![c] = m]
    BY <1>2, <1>6, <2>3, Zenon DEF ListInstances
  <2> QED BY <1>3, <2>8, <2>9, ClientKeeps, Zenon
<1>7. CASE WatchBare(c)
  <2>1. t = Idle
    BY <1>1, <1>5, <1>7, Zenon DEF WatchBare
  <2>2. [Idle EXCEPT !.phase = "accepted", !.bare = TRUE] \in StreamType
    BY IdleIsRight, Zenon DEF StreamType, Phases
  <2>3. PICK u \in StreamType : u = [Idle EXCEPT !.phase = "accepted", !.bare = TRUE]
    BY <2>2, Zenon
  <2>4. u.phase = "accepted" /\ u.bare /\ u.last = 0
    BY <2>3, Zenon DEF Idle
  <2>5. Informed(u, Stranger)
    BY <1>4, <2>4, Zenon DEF Informed, Off
  <2>6. stream' = [stream EXCEPT ![c] = u] /\ client' = [client EXCEPT ![c] = Stranger]
    BY <1>1, <1>7, <2>1, <2>3, Zenon DEF WatchBare
  <2> QED BY <1>3, <1>4, <2>5, <2>6, ClientKeeps, Zenon
<1>8. CASE WatchSince(c)
  <2>1. t = Idle /\ t.phase = Off
    BY <1>1, <1>5, <1>8, Zenon DEF WatchSince
  <2>2. CASE client[c].seen < OldestRevision
    <3>1. stream' = [stream EXCEPT ![c] = t] /\ client' = [client EXCEPT ![c] = Stranger]
      BY <1>2, <1>8, <2>2, Zenon DEF WatchSince
    <3> QED BY <1>3, <1>4, <1>5, <2>1, <3>1, ClientKeeps, Zenon
  <2>3. CASE ~(client[c].seen < OldestRevision)
    <3>1. [Idle EXCEPT !.phase = "accepted", !.pos = k.seen] \in StreamType
      BY IdleIsRight, Zenon DEF StreamType, Phases, ClientType
    <3>2. PICK u \in StreamType : u = [Idle EXCEPT !.phase = "accepted", !.pos = k.seen]
      BY <3>1, Zenon
    <3>3. u.phase = "accepted" /\ ~u.bare /\ u.last = 0 /\ u.pos = k.seen /\ u.queue = <<>>
      BY <3>2, Zenon DEF Idle
    <3>4. Base(u, k) = k.seen /\ Base(t, k) = k.seen
      BY <2>1, <3>3 DEF Base, Off, ClientType
    <3>5. Informed(u, k)
      BY <1>2, <3>3, <3>4, Zenon DEF Informed, Off
    <3>6. stream' = [stream EXCEPT ![c] = u] /\ client' = [client EXCEPT ![c] = k]
      BY <1>1, <1>2, <1>8, <2>1, <2>3, <3>2, ZenonT(40) DEF WatchSince
    <3> QED BY <1>3, <3>5, <3>6, ClientKeeps, Zenon
  <2> QED BY <2>2, <2>3, Zenon
<1>9. CASE Disconnect(c)
  BY <1>3, <1>9, EndKeeps, Zenon DEF Disconnect
<1> QED BY <1>6, <1>7, <1>8, <1>9, Zenon DEF ClientStep

LEMMA StartKeeps ==
    ASSUME ViewInv, WatchInv', NEW c \in Clients, StartStream(c)
    PROVE  ViewInv'
<1>1. PICK t \in StreamType, k \in ClientType : t = stream[c] /\ k = client[c]
  BY ClientFacts
<1>2. /\ Informed(t, k) /\ Piece(t) /\ revision \in Nat /\ instances \in [Ids -> Instance]
      /\ stream = [stream EXCEPT ![c] = t] /\ client = [client EXCEPT ![c] = k]
  BY <1>1, ClientFacts, LogFacts, Zenon DEF ViewInv, WatchInv, WatchTypes
<1>3. UNCHANGED <<instances, revision, log>> /\ t.phase = "accepted" /\ t.last = 0
  BY <1>1, <1>2, Zenon DEF StartStream, Informed
<1>4. CASE t.bare
  <2> DEFINE n == Cardinality(Present)
  <2>1. n \in Nat
    BY LauncherConstants, FS_Subset, FS_CardinalityType, Zenon DEF Present
  <2> HIDE DEF n
  <2>2. [t EXCEPT !.phase = "listing", !.pos = revision, !.size = n] \in StreamType
    BY <1>2, <2>1, ZenonT(40) DEF StreamType, Phases
  <2>3. PICK u \in StreamType : u = [t EXCEPT !.phase = "listing", !.pos = revision, !.size = n]
    BY <2>2, Zenon
  <2>4. u.phase = "listing" /\ u.pos = revision /\ u.last = 0
    BY <1>3, <2>3, Zenon DEF StreamType
  <2>5. ~k.whole /\ k.view = [i \in Ids |-> None]
    BY <1>2, <1>3, <1>4, Zenon DEF Informed, Stranger
  <2>6. ASSUME NEW i \in Ids
        PROVE  Right(i, k.view[i]) \/ (i \in Present /\ instances[i].born > u.last)
    <3>1. i \in Present => instances[i].born > u.last
      BY <1>2, <2>4 DEF Present, Instance
    <3>2. i \notin Present => Right(i, k.view[i])
      BY <2>5, Zenon DEF Right
    <3> QED BY <3>1, <3>2, Zenon
  <2>7. Informed(u, k)
    <3>1. u.phase # Off /\ u.phase # "accepted" /\ u.pos <= revision
      BY <1>2, <2>4 DEF Off
    <3> QED BY <2>5, <2>6, <3>1, Zenon DEF Informed
  <2>8. stream' = [stream EXCEPT ![c] = u] /\ client' = [client EXCEPT ![c] = k]
    BY <1>1, <1>2, <1>4, <2>3, ZenonT(40) DEF StartStream, n
  <2> QED BY <1>3, <2>7, <2>8, ClientKeeps, Zenon
<1>5. CASE ~t.bare
  <2>1. t.queue = <<>> /\ t.pos \in Nat /\ t.pos - Len(t.queue) = t.pos
    BY <1>2, <1>3 DEF Piece, StreamType
  <2>2. Base(t, k) = t.pos
    BY <1>3, <2>1, Zenon DEF Base, Off
  <2>3. k.whole => /\ t.pos <= revision
                   /\ \A i \in Ids : Pending(i, t.pos) \/ Right(i, k.view[i])
    BY <1>2, <2>2, Zenon DEF Informed
  <2>4. EnterWatch(c, t.pos, k) /\ stream[c].phase # Off
    BY <1>1, <1>3, <1>5, Zenon DEF StartStream, Off
  <2> QED BY <1>3, <2>1, <2>3, <2>4, EnterKeeps, Zenon
<1> QED BY <1>4, <1>5, Zenon

\* One more entry is listed: the next in the order of the table, which is strict.
LEMMA ListKeeps ==
    ASSUME ViewInv, WatchInv', NEW c \in Clients, ListNext(c)
    PROVE  ViewInv'
<1>1. PICK t \in StreamType, k \in ClientType : t = stream[c] /\ k = client[c]
  BY ClientFacts
<1>2. /\ Informed(t, k) /\ revision \in Nat /\ instances \in [Ids -> Instance]
      /\ stream \in [Clients -> StreamType] /\ client \in [Clients -> ClientType]
  BY <1>1, ClientFacts, LogFacts, Zenon DEF ViewInv, WatchInv, WatchTypes
<1>3. /\ UNCHANGED <<instances, revision, log>> /\ t.phase = "listing" /\ t.pos \in Nat
      /\ t.last \in Nat /\ stream[c].phase # Off
  BY <1>1, ZenonT(40) DEF ListNext, StreamType, Off
<1>4. /\ ~k.whole /\ t.pos <= revision
      /\ \A j \in Ids : \/ Pending(j, t.pos) \/ Right(j, k.view[j])
                        \/ j \in Present /\ instances[j].born > t.last
  BY <1>2, <1>3, Zenon DEF Informed
<1>5. CASE EndStream(c)
  BY <1>3, <1>5, EndKeeps, Zenon
<1>6. CASE Unlisted(c) = {} /\ EnterWatch(c, t.pos, [k EXCEPT !.whole = TRUE])
  <2>1. [k EXCEPT !.whole = TRUE] \in ClientType
    BY ZenonT(40) DEF ClientType
  <2>2. PICK m \in ClientType : m = [k EXCEPT !.whole = TRUE]
    BY <2>1, Zenon
  <2>3. m.view = k.view
    BY <2>2, Zenon DEF ClientType
  <2>4. \A j \in Ids : Pending(j, t.pos) \/ Right(j, m.view[j])
    BY <1>1, <1>4, <1>6, <2>3, Zenon DEF Unlisted, Present
  <2> QED BY <1>3, <1>4, <1>6, <2>2, <2>4, EnterKeeps, Zenon
<1>7. ASSUME NEW i \in Unlisted(c),
             \A j \in Unlisted(c) : instances[i].born <= instances[j].born,
             stream' = [stream EXCEPT ![c].last = instances[i].born],
             client' = [client EXCEPT ![c].view[i] = StatusOf(instances[i]),
                                      ![c].told = TRUE, ![c].seen = instances[i].rev]
      PROVE  ViewInv'
  <2>1. /\ i \in Ids /\ i \in Present /\ instances[i].born \in Nat /\ instances[i].rev \in Nat
        /\ StatusOf(instances[i]) \in Statuses
    BY <1>2, Zenon DEF Unlisted, Present, Instance, StatusOf, Statuses
  <2>2. [t EXCEPT !.last = instances[i].born] \in StreamType
    BY <2>1, Zenon DEF StreamType
  <2>3. PICK u \in StreamType : u = [t EXCEPT !.last = instances[i].born]
    BY <2>2, Zenon
  <2>4. u.phase = "listing" /\ u.pos = t.pos /\ u.last = instances[i].born
    BY <1>3, <2>3, Zenon DEF StreamType
  <2> DEFINE new == [k EXCEPT !.view[i] = StatusOf(instances[i]), !.told = TRUE,
                              !.seen = instances[i].rev]
  <2>5. k.view \in [Ids -> Statuses \union {None}] /\ k.whole \in BOOLEAN
    BY Zenon DEF ClientType
  <2>6. [k.view EXCEPT ![i] = StatusOf(instances[i])] \in [Ids -> Statuses \union {None}]
    BY <2>1, <2>5, Zenon
  <2>7. new \in ClientType
    BY <2>1, <2>5, <2>6, Zenon DEF ClientType
  <2>8. PICK m \in ClientType : m = new
    BY <2>7, Zenon
  <2>9. /\ m.whole = k.whole /\ m.view[i] = StatusOf(instances[i])
        /\ \A j \in Ids \ {i} : m.view[j] = k.view[j]
    BY <2>1, <2>5, <2>8, Zenon DEF ClientType
  <2>10. ASSUME NEW j \in Ids
         PROVE  \/ Pending(j, t.pos) \/ Right(j, m.view[j])
                \/ j \in Present /\ instances[j].born > u.last
    <3>1. CASE j = i
      BY <2>1, <2>9, <3>1, Zenon DEF Right, StatusOf, None
    <3>2. CASE j # i /\ j \in Unlisted(c)
      <4>1. instances[i].born <= instances[j].born /\ j \in Present
        BY <1>7, <3>2, Zenon DEF Unlisted
      <4>2. instances[i].born # instances[j].born
        BY <2>1, <3>2, <4>1, ZenonT(40) DEF ViewInv, TableLogged
      <4>3. instances[j].born \in Nat
        BY <1>2, Zenon DEF Instance
      <4> QED BY <2>1, <2>4, <4>1, <4>2, <4>3
    <3>3. CASE j # i /\ j \notin Unlisted(c)
      BY <1>1, <1>4, <2>9, <3>3, Zenon DEF Unlisted
    <3> QED BY <3>1, <3>2, <3>3, Zenon
  <2>11. Informed(u, m)
    BY <1>4, <2>4, <2>9, <2>10, Zenon DEF Informed, Off
  <2>12. stream' = [stream EXCEPT ![c] = u]
    BY <1>1, <1>2, <1>7, <2>3, Zenon
  <2>13. client' = [client EXCEPT ![c] = m]
    BY <1>1, <1>2, <1>7, <2>8, ZenonT(40)
  <2> QED BY <1>3, <2>11, <2>12, <2>13, ClientKeeps, Zenon
<1> QED BY <1>1, <1>5, <1>6, <1>7, ZenonT(40) DEF ListNext

LEMMA PollKeeps ==
    ASSUME ViewInv, WatchInv', NEW c \in Clients, Poll(c)
    PROVE  ViewInv'
<1>1. PICK t \in StreamType, k \in ClientType : t = stream[c] /\ k = client[c]
  BY ClientFacts
<1>2. /\ Informed(t, k) /\ Piece(t) /\ revision \in Nat /\ t.pos \in Nat
      /\ stream = [stream EXCEPT ![c] = t] /\ client = [client EXCEPT ![c] = k]
  BY <1>1, ClientFacts, LogFacts, ZenonT(40) DEF ViewInv, WatchInv, WatchTypes, StreamType
<1>3. /\ UNCHANGED <<instances, revision, log>> /\ t.phase = "polling" /\ t.queue = <<>>
      /\ stream[c].phase # Off
  BY <1>1, <1>2, Zenon DEF Poll, Piece, Off
<1>4. Base(t, k) = t.pos
  BY <1>2, <1>3 DEF Base, Off
<1>5. CASE EndStream(c)
  BY <1>3, <1>5, EndKeeps, Zenon
<1>6. ASSUME NEW u \in StreamType, u.phase \in {"waiting", "sending"}, Base(u, k) = t.pos,
             stream' = [stream EXCEPT ![c] = u], UNCHANGED client
      PROVE  ViewInv'
  <2>1. Informed(u, k)
    BY <1>2, <1>4, <1>6, Zenon DEF Informed, Off
  <2> QED BY <1>2, <1>3, <1>6, <2>1, ClientKeeps, ZenonT(40)
<1>7. CASE stream[c].pos >= revision
  <2>1. [t EXCEPT !.phase = "waiting"] \in StreamType
    BY Zenon DEF StreamType, Phases
  <2>2. PICK u \in StreamType : u = [t EXCEPT !.phase = "waiting"]
    BY <2>1, Zenon
  <2>3. u.phase = "waiting" /\ Base(u, k) = t.pos
    BY <1>2, <1>3, <2>2 DEF Base, StreamType, Off
  <2>4. stream' = [stream EXCEPT ![c] = u] /\ UNCHANGED client
    BY <1>1, <1>7, <2>2, Zenon DEF Poll
  <2> QED BY <1>6, <2>3, <2>4, Zenon
<1>8. CASE stream[c].pos < revision /\ ~(stream[c].pos < OldestRevision)
  <2>1. NewEvents(c) \in Seq(Event) /\ Len(NewEvents(c)) = revision - t.pos
    BY <1>1, <1>8, NewEventsAreNext, Zenon DEF ViewInv
  <2>2. [t EXCEPT !.phase = "sending", !.pos = revision, !.queue = NewEvents(c)] \in StreamType
    BY <1>2, <2>1, Zenon DEF StreamType, Phases
  <2>3. PICK u \in StreamType :
           u = [t EXCEPT !.phase = "sending", !.pos = revision, !.queue = NewEvents(c)]
    BY <2>2, Zenon
  <2>4. u.phase = "sending" /\ u.pos = revision /\ u.queue = NewEvents(c)
    BY <2>3, Zenon DEF StreamType
  <2>5. Base(u, k) = t.pos
    BY <1>2, <2>1, <2>4 DEF Base, Off
  <2>6. stream' = [stream EXCEPT ![c] = u] /\ UNCHANGED client
    <3>1. ~(stream[c].pos >= revision)
      BY <1>1, <1>2, <1>8
    <3>2. /\ stream' = [stream EXCEPT ![c].phase = "sending", ![c].pos = revision,
                                     ![c].queue = NewEvents(c)]
          /\ UNCHANGED client
      BY <1>8, <3>1, Zenon DEF Poll
    <3> QED BY <1>1, <2>3, <3>2, Zenon
  <2> QED BY <1>6, <2>4, <2>5, <2>6, Zenon
<1> QED BY <1>1, <1>2, <1>5, <1>7, <1>8 DEF Poll

\* The event that is sent is the next of the log.  The client is right about its
\* instance when no later event is about it: the last one matches the table.
LEMMA SendKeeps ==
    ASSUME ViewInv, WatchInv', NEW c \in Clients, Send(c)
    PROVE  ViewInv'
<1>1. PICK t \in StreamType, k \in ClientType : t = stream[c] /\ k = client[c]
  BY ClientFacts
<1>2. /\ Informed(t, k) /\ Piece(t) /\ t.phase = "sending" /\ UNCHANGED <<instances, revision, log>>
      /\ stream \in [Clients -> StreamType] /\ client \in [Clients -> ClientType]
  BY <1>1, ClientFacts, Zenon DEF Send
<1>3. /\ log \in Seq(Event) /\ Len(log) = revision /\ DOMAIN log = 1 .. revision
      /\ revision \in Nat
  BY LogFacts, Zenon DEF ViewInv, WatchInv, WatchTypes
<1>4. t.queue \in Seq(Event) /\ t.queue # <<>> /\ t.pos <= revision /\ t.pos \in Nat
  BY <1>2, Zenon DEF Piece, StreamType
<1>5. /\ Len(t.queue) \in Nat \ {0} /\ Head(t.queue) = t.queue[1] /\ t.queue[1] \in Event
      /\ Tail(t.queue) \in Seq(Event) /\ Len(Tail(t.queue)) = Len(t.queue) - 1
      /\ Len(t.queue) <= t.pos
  BY <1>2, <1>4, HeadTailProperties, EmptySeq, LenProperties, ElementOfSeq DEF Piece
<1>6. PICK b \in Nat : b = t.pos - Len(t.queue)
  <2>1. t.pos - Len(t.queue) \in Nat
    BY <1>4, <1>5
  <2> QED BY <2>1, Zenon
<1>7. PICK e \in Event : e = Head(t.queue)
  BY <1>5, Zenon
<1>8. e = log[b + 1] /\ b + 1 \in DOMAIN log
  <2>1. PICK a \in Nat \ {0} : a = Len(t.queue)
    BY <1>5, Zenon
  <2>2. b = t.pos - a
    BY <1>6, <2>1, Zenon
  <2>3. 1 \in 1 .. a /\ t.pos - a + 1 = b + 1 /\ b + 1 \in 1 .. revision
    BY <1>3, <1>4, <2>2
  <2>4. t.queue[1] = log[t.pos - a + 1]
    BY <1>2, <2>1, <2>3, Zenon DEF Piece
  <2> QED BY <1>3, <1>5, <1>7, <2>3, <2>4, Zenon
<1>9. e.id \in Ids /\ e.rev \in Nat /\ e.status \in Statuses
  BY Zenon DEF Event
<1> DEFINE told == IF e.type = "DELETED" THEN None ELSE e.status
<1>10. Base(t, k) = b
  BY <1>2, <1>6, Zenon DEF Base, Off
<1>11. \A i \in Ids : (i # e.id /\ Pending(i, b)) => Pending(i, b + 1)
  BY <1>3, <1>8 DEF Pending
<1>12. Pending(e.id, b + 1) \/ Right(e.id, told)
  <2> SUFFICES ASSUME ~Pending(e.id, b + 1) PROVE Right(e.id, told)
    BY Zenon
  <2>1. PICK m \in DOMAIN log : LastOf(e.id, m) /\ Matches(e.id, log[m])
    BY <1>8, <1>9, Zenon DEF ViewInv, TableLogged, Tells
  <2>2. m = b + 1
    BY <1>3, <1>8, <2>1 DEF LastOf, Pending
  <2>3. Matches(e.id, e)
    BY <1>8, <2>1, <2>2, Zenon
  <2> QED BY <1>9, <2>3, Zenon DEF Matches, Right, Statuses, None
<1>13. PICK next \in Phases : next = IF Tail(t.queue) = <<>> THEN "polling" ELSE t.phase
  <2>1. (IF Tail(t.queue) = <<>> THEN "polling" ELSE t.phase) \in Phases
    BY <1>2, Zenon DEF Phases
  <2> QED BY <2>1, Zenon
<1>14. [t EXCEPT !.queue = Tail(t.queue), !.got = e, !.phase = next] \in StreamType
  BY <1>5, Zenon DEF StreamType
<1>15. PICK u \in StreamType : u = [t EXCEPT !.queue = Tail(t.queue), !.got = e, !.phase = next]
  BY <1>14, Zenon
<1>16. /\ u.phase \in {"polling", "sending"} /\ u.pos = t.pos /\ u.queue = Tail(t.queue)
  BY <1>2, <1>13, <1>15, Zenon DEF StreamType
<1>17. k.view \in [Ids -> Statuses \union {None}] /\ k.whole \in BOOLEAN
  BY Zenon DEF ClientType
<1>18. Apply(k.view, e) = [k.view EXCEPT ![e.id] = told] /\ told \in Statuses \union {None}
  BY <1>9, Zenon DEF Apply
<1>19. Apply(k.view, e) \in [Ids -> Statuses \union {None}]
  BY <1>9, <1>17, <1>18, Zenon
<1>20. [k EXCEPT !.view = Apply(k.view, e), !.told = TRUE, !.seen = e.rev] \in ClientType
  BY <1>9, <1>19, ZenonT(40) DEF ClientType
<1>21. PICK m \in ClientType : m = [k EXCEPT !.view = Apply(k.view, e), !.told = TRUE, !.seen = e.rev]
  BY <1>20, Zenon
<1>22. m.whole = k.whole /\ m.view = Apply(k.view, e)
  BY <1>21, Zenon DEF ClientType
<1>23. m.view[e.id] = told /\ \A i \in Ids \ {e.id} : m.view[i] = k.view[i]
  BY <1>9, <1>17, <1>18, <1>22, Zenon
<1>24. Base(u, m) = b + 1 /\ b + 1 <= revision
  <2>1. Base(u, m) = t.pos - Len(Tail(t.queue))
    <3>1. u.phase # Off
      BY <1>16, Zenon DEF Off
    <3> QED BY <1>16, <3>1, Zenon DEF Base
  <2>2. PICK a \in Nat \ {0} : a = Len(t.queue)
    BY <1>5, Zenon
  <2>3. Len(Tail(t.queue)) = a - 1 /\ b = t.pos - a
    BY <1>5, <1>6, <2>2, Zenon
  <2>4. t.pos - (a - 1) = b + 1
    BY <1>4, <2>3
  <2>5. b + 1 <= revision
    BY <1>3, <1>8
  <2> QED BY <2>1, <2>3, <2>4, <2>5, Zenon
<1> HIDE DEF told
<1>25. ASSUME k.whole, NEW i \in Ids PROVE Pending(i, b + 1) \/ Right(i, m.view[i])
  <2>1. CASE i = e.id
    BY <1>12, <1>23, <2>1, Zenon
  <2>2. CASE i # e.id
    <3>1. Pending(i, b) \/ Right(i, k.view[i])
      BY <1>2, <1>10, <1>25, Zenon DEF Informed
    <3> QED BY <1>11, <1>23, <2>2, <3>1, Zenon
  <2> QED BY <2>1, <2>2, Zenon
<1>26. Informed(u, m)
  BY <1>16, <1>22, <1>24, <1>25, Zenon DEF Informed, Off
<1>27. stream' = [stream EXCEPT ![c] = u]
  BY <1>1, <1>2, <1>7, <1>13, <1>15, Zenon DEF Send
<1>28. client' = [client EXCEPT ![c] = m]
  BY <1>1, <1>2, <1>7, <1>21, Zenon DEF Send
<1> QED BY <1>2, <1>26, <1>27, <1>28, ClientKeeps, ZenonT(40)

LEMMA NotifyKeeps ==
    ASSUME ViewInv, WatchInv', Notify
    PROVE  ViewInv'
<1>1. UNCHANGED <<instances, revision, log, client>>
  BY Zenon DEF Notify
<1>2. ASSUME NEW c \in Clients
      PROVE  \E t \in StreamType, k \in ClientType :
                stream'[c] = t /\ client'[c] = k /\ Informed(t, k)
  <2>1. PICK t \in StreamType, k \in ClientType : t = stream[c] /\ k = client[c]
    BY ClientFacts, Zenon
  <2>2. Informed(t, k) /\ client'[c] = k
    BY <1>1, <2>1, ClientFacts, Zenon
  <2>3. stream'[c] = [t EXCEPT !.phase = IF t.phase = "waiting" THEN "polling" ELSE t.phase]
    BY <2>1, Zenon DEF Notify
  <2>4. CASE t.phase = "waiting"
    <3>1. [t EXCEPT !.phase = "polling"] \in StreamType
      BY Zenon DEF StreamType, Phases
    <3>2. PICK u \in StreamType : u = [t EXCEPT !.phase = "polling"]
      BY <3>1, Zenon
    <3>3. u.phase = "polling" /\ u.pos = t.pos /\ u.queue = t.queue
      BY <3>2, Zenon DEF StreamType
    <3>4. Base(u, k) = Base(t, k)
      BY <2>4, <3>3, Zenon DEF Base, Off
    <3>5. Informed(u, k)
      BY <2>2, <2>4, <3>3, <3>4, Zenon DEF Informed, Off
    <3> QED BY <2>2, <2>3, <2>4, <3>2, <3>5, Zenon
  <2>5. CASE t.phase # "waiting"
    <3>1. stream'[c] = t
      BY <2>3, <2>5, Zenon DEF StreamType
    <3> QED BY <2>2, <3>1, Zenon
  <2> QED BY <2>4, <2>5, Zenon
<1> QED BY <1>1, <1>2, TableStays, Zenon

\* A new process has an empty table and an empty log, and no client is told that it
\* knows them.
LEMMA EmptyTable ==
    ASSUME instances = [i \in Ids |-> Absent], log = <<>>,
           \A c \in Clients : stream[c] = Idle /\ ~client[c].whole
    PROVE  TableLogged /\ LifeInOrder /\ ClientsInformed
<1>1. DOMAIN log = {}
  OBVIOUS
<1>2. \A i \in Ids : i \notin Present /\ ~instances[i].alive
  BY Zenon DEF Present, Absent
<1>3. TableLogged
  BY <1>1, <1>2, Zenon DEF TableLogged, Tells
<1>4. LifeInOrder
  BY <1>1, Zenon DEF LifeInOrder
<1>5. ClientsInformed
  BY IdleIsRight, Zenon DEF ClientsInformed, Informed, Off
<1> QED BY <1>3, <1>4, <1>5, Zenon

LEMMA EmptyTableNext ==
    ASSUME instances' = [i \in Ids |-> Absent], log' = <<>>,
           \A c \in Clients : stream'[c] = Idle /\ ~client'[c].whole
    PROVE  TableLogged' /\ LifeInOrder' /\ ClientsInformed'
<1>1. DOMAIN log' = {}
  OBVIOUS
<1>2. \A i \in Ids : i \notin Present' /\ ~instances'[i].alive
  BY Zenon DEF Present, Absent
<1>3. TableLogged'
  BY <1>1, <1>2, Zenon DEF TableLogged, Tells
<1>4. LifeInOrder'
  BY <1>1, Zenon DEF LifeInOrder
<1>5. ClientsInformed'
  BY IdleIsRight, Zenon DEF ClientsInformed, Informed, Off
<1> QED BY <1>3, <1>4, <1>5, Zenon

LEMMA RestartKeeps ==
    ASSUME ViewInv, WatchInv', LauncherRestart
    PROVE  ViewInv'
<1>1. ASSUME NEW c \in Clients PROVE stream'[c] = Idle /\ ~client'[c].whole
  <2>1. client[c] \in ClientType /\ client'[c] = [client[c] EXCEPT !.whole = FALSE]
    BY ClientFacts, Zenon DEF LauncherRestart
  <2>2. ~client'[c].whole
    BY <2>1, Zenon DEF ClientType
  <2> QED BY <2>2, Zenon DEF LauncherRestart
<1> QED BY <1>1, EmptyTableNext, Zenon DEF ViewInv, LauncherRestart

-------------------------------------------------------------------------------
\* The invariant and what it implies.

LEMMA ViewInvInit == LauncherInit => ViewInv
<1> SUFFICES ASSUME LauncherInit PROVE ViewInv
  BY Zenon
<1>1. \A c \in Clients : stream[c] = Idle /\ ~client[c].whole
  BY Zenon DEF LauncherInit, Stranger
<1> QED BY <1>1, WatchInvInit, EmptyTable, Zenon DEF LauncherInit, ViewInv

LEMMA ViewInvNext == ViewInv /\ [LauncherNext]_launcherVars => ViewInv'
<1> SUFFICES ASSUME ViewInv, [LauncherNext]_launcherVars PROVE ViewInv'
  BY Zenon
<1>1. CASE LauncherNext
  <2>1. WatchInv'
    BY <1>1, NextMaps, Zenon DEF ViewInv
  <2>2. ASSUME NEW i \in Ids, CreateInstance(i) \/ ProcessExits(i) \/ SentinelExit(i)
        PROVE  ViewInv'
    BY <2>1, <2>2, CreateKeeps, ExitKeeps, SentinelKeeps, Zenon
  <2>3. ASSUME NEW i \in Ids, StopInstance(i) PROVE ViewInv'
    <3>1. {i} \in SUBSET Present /\ StopInstances({i})
      BY <2>3, Zenon DEF StopInstance
    <3> QED BY <2>1, <3>1, StopKeeps, Zenon
  <2>4. CASE StopAllInstances
    BY <2>1, <2>4, StopKeeps, Zenon DEF StopAllInstances
  <2>5. CASE LauncherRestart \/ Notify
    BY <2>1, <2>5, RestartKeeps, NotifyKeeps, Zenon
  <2>6. ASSUME NEW c \in Clients, ClientStep(c) \/ StreamStep(c) PROVE ViewInv'
    BY <2>1, <2>6, ClientStepKeeps, StartKeeps, ListKeeps, PollKeeps, SendKeeps, Zenon DEF StreamStep
  <2> QED BY <1>1, <2>2, <2>3, <2>4, <2>5, <2>6, Zenon DEF LauncherNext
<1>2. CASE UNCHANGED launcherVars
  <2>1. UNCHANGED <<instances, revision, log, events, stream, client>>
    BY <1>2, Zenon DEF launcherVars
  <2>2. WatchInv'
    BY <2>1, Zenon DEF ViewInv, WatchInv, WatchTypes, BufferIsSuffix, Piece, InWatch
  <2>3. ASSUME NEW c \in Clients
        PROVE  \E t \in StreamType, k \in ClientType :
                  stream'[c] = t /\ client'[c] = k /\ Informed(t, k)
    BY <2>1, ClientFacts, Zenon
  <2> QED BY <2>1, <2>2, <2>3, TableStays, Zenon
<1> QED BY <1>1, <1>2, Zenon

LEMMA ViewInvHolds == LauncherSpec => []ViewInv
BY ViewInvInit, ViewInvNext, PTL DEF LauncherSpec

\* Max(before) of LifeCycleLogged is the event LifeInOrder names.
LEMMA OrderIsLogged ==
    ASSUME WatchInv, LifeInOrder
    PROVE  LifeCycleLogged
<1> SUFFICES ASSUME NEW k \in DOMAIN log
             PROVE  LET before == {j \in 1 .. (k - 1) : log[j].id = log[k].id}
                        prev == IF before = {} THEN "DELETED" ELSE log[Max(before)].type
                    IN InOrder(prev, log[k].type)
  BY Zenon DEF LifeCycleLogged, InOrder
<1> DEFINE before == {j \in 1 .. (k - 1) : log[j].id = log[k].id}
           prev == IF before = {} THEN "DELETED" ELSE log[Max(before)].type
<1> SUFFICES InOrder(prev, log[k].type)
  BY Zenon
<1>1. k \in Nat
  BY LogFacts
<1>2. CASE log[k].type = "CREATED" /\ \A j \in 1 .. (k - 1) : log[j].id # log[k].id
  <2>1. before = {}
    BY <1>2, Zenon
  <2> QED BY <1>2, <2>1, Zenon DEF InOrder
<1>3. ASSUME NEW m \in 1 .. (k - 1), log[m].id = log[k].id, InOrder(log[m].type, log[k].type),
             \A j \in 1 .. (k - 1) : j > m => log[j].id # log[k].id
      PROVE  InOrder(prev, log[k].type)
  <2>1. before \in SUBSET Nat /\ m \in before /\ \A j \in before : j <= m
    BY <1>1, <1>3
  <2> HIDE DEF before
  <2>2. Max(before) = m
    BY <2>1, MaxIs, Zenon
  <2>3. before # {}
    BY <2>1, Zenon
  <2>4. prev = log[m].type
    BY <2>2, <2>3, Zenon
  <2> QED BY <1>3, <2>4, Zenon
<1> QED BY <1>2, <1>3, Zenon DEF LifeInOrder

\* A client that was told everything up to the present revision is right.
LEMMA InformedIsUpToDate ==
    ASSUME ViewInv
    PROVE  ViewFollowsTable
<1> SUFFICES ASSUME NEW c \in Clients, client[c].whole, Watching(c), Delivered(c) = revision,
                    NEW i \in Ids
             PROVE  Right(i, client[c].view[i])
  BY Zenon DEF ViewFollowsTable, UpToDate, Right
<1>1. Base(stream[c], client[c]) = revision
  BY Zenon DEF Base, Watching, Delivered, Off
<1>2. Pending(i, revision) \/ Right(i, client[c].view[i])
  BY <1>1, ClientFacts, Zenon DEF Informed
<1>3. ~Pending(i, revision)
  BY LogFacts DEF ViewInv, Pending
<1> QED BY <1>2, <1>3, Zenon

\* A client of the watch endpoint that listed the instances and then followed the
\* stream, with any number of reconnections with ?since, knows the table whenever
\* its stream has caught up, and so does one that was sent the list by the stream
\* itself: for any number of instances, clients and restarts of the launcher and
\* any limit of the event buffer.
THEOREM ClientsFollowTable == LauncherSpec => []ViewFollowsTable
<1>1. ViewInv => ViewFollowsTable
  BY InformedIsUpToDate, Zenon
<1> QED BY <1>1, ViewInvHolds, PTL

\* The launcher's log tells the life of every instance in order: created, perhaps
\* stopped once, deleted, and only then created again, whichever handlers and
\* callbacks of the event loop run in between.
THEOREM LifeCyclesAreLogged == LauncherSpec => []LifeCycleLogged
<1>1. ViewInv => LifeCycleLogged
  BY OrderIsLogged, Zenon DEF ViewInv
<1> QED BY <1>1, ViewInvHolds, PTL

\* The launcher's variables keep their types; what the watch does not use is added
\* to the types its proof has.
THEOREM LauncherTypes == LauncherSpec => []LauncherTypeOK
<1> DEFINE Rest == notify \in BOOLEAN /\ restarts \in Nat
<1>1. LauncherInit => Rest
  <2>1. LauncherInit => notify \in BOOLEAN
    BY Zenon DEF LauncherInit
  <2>2. LauncherInit => restarts = 0
    BY Zenon DEF LauncherInit
  <2> QED BY <2>1, <2>2
<1>2. Rest /\ [LauncherNext]_launcherVars => Rest'
  <2> SUFFICES ASSUME Rest, [LauncherNext]_launcherVars PROVE Rest'
    BY Zenon
  <2>1. ASSUME NEW new, Publish(new) PROVE notify' \in BOOLEAN
    <3>1. notify' = (notify \/ new # <<>>)
      BY <2>1, Zenon DEF Publish
    <3> QED BY <3>1, Zenon
  <2>2. ASSUME NEW i \in Ids,
               CreateInstance(i) \/ ProcessExits(i) \/ SentinelExit(i) \/ StopInstance(i)
        PROVE  Rest'
    BY <2>1, <2>2, Zenon DEF CreateInstance, ProcessExits, SentinelExit, StopInstance, StopInstances
  <2>3. CASE StopAllInstances
    BY <2>1, <2>3, Zenon DEF StopAllInstances, StopInstances
  <2>4. CASE LauncherRestart \/ Notify
    <3>1. notify' \in BOOLEAN
      BY <2>4, Zenon DEF LauncherRestart, Notify
    <3>2. restarts' \in {restarts, restarts + 1}
      BY <2>4, Zenon DEF LauncherRestart, Notify
    <3> QED BY <3>1, <3>2
  <2>5. ASSUME NEW c \in Clients, ClientStep(c) \/ StreamStep(c) PROVE Rest'
    BY <2>5, Zenon DEF ClientStep, ListInstances, WatchBare, WatchSince, Disconnect,
                       StreamStep, StartStream, ListNext, Poll, Send
  <2>6. CASE UNCHANGED launcherVars
    BY <2>6, Zenon DEF launcherVars
  <2> QED BY <2>2, <2>3, <2>4, <2>5, <2>6, Zenon DEF LauncherNext
<1>3. ViewInv /\ Rest => LauncherTypeOK
  BY Zenon DEF ViewInv, WatchInv, WatchTypes, StreamType, LauncherTypeOK
<1> QED BY <1>1, <1>2, <1>3, ViewInvHolds, PTL DEF LauncherSpec
===============================================================================
