------------------------------- MODULE EventLog -------------------------------
(* What the launcher's watch endpoint promises, without buffers, cursors and   *)
(* wake-ups: events form a log, and a reader that is connected receives the    *)
(* events from some point of the log on, each of them once and in order, until *)
(* the connection ends.                                                        *)
EXTENDS Naturals, Sequences

CONSTANTS Event, Readers, Nothing

VARIABLES
    log,              \* the events published by this launcher process
    open,             \* per reader: whether it is connected
    at,               \* per reader: events up to this one were received, or skipped
    got               \* per reader: the event received last

vars == <<log, open, at, got>>

Init ==
    /\ log = <<>>
    /\ open = [c \in Readers |-> FALSE] /\ at = [c \in Readers |-> 0] /\ got = [c \in Readers |-> Nothing]

\* One handler may publish several events at once; no event is ever revised.
Publish ==
    /\ log' \in Seq(Event) /\ Len(log') > Len(log)
    /\ \A i \in DOMAIN log : log'[i] = log[i]
    /\ UNCHANGED <<open, at, got>>

\* The reader chooses where to start, a point that is still to come included.
Connect(c) ==
    /\ ~open[c] /\ open' = [open EXCEPT ![c] = TRUE]
    /\ at'[c] \in Nat /\ at' = [at EXCEPT ![c] = at'[c]]
    /\ UNCHANGED <<log, got>>

\* The next event of the log, and no other.
Receive(c) ==
    /\ open[c] /\ at[c] < Len(log)
    /\ at' = [at EXCEPT ![c] = @ + 1] /\ got' = [got EXCEPT ![c] = log[at[c] + 1]]
    /\ UNCHANGED <<log, open>>

Disconnect(c) ==
    /\ open[c] /\ open' = [open EXCEPT ![c] = FALSE] /\ at' = [at EXCEPT ![c] = 0]
    /\ got' = [got EXCEPT ![c] = Nothing]
    /\ UNCHANGED log

\* A new launcher process starts with an empty log.
Restart ==
    /\ log' = <<>>
    /\ open' = [c \in Readers |-> FALSE] /\ at' = [c \in Readers |-> 0] /\ got' = [c \in Readers |-> Nothing]

Next ==
    \/ Publish \/ Restart
    \/ \E c \in Readers : Connect(c) \/ Receive(c) \/ Disconnect(c)

Spec == Init /\ [][Next]_vars
===============================================================================
