------------------------------- MODULE LogRelay -------------------------------
(* The way of an inference server's log into the log of its requester: chunks   *)
(* are read from the launcher (get_log_bytes in launcher.py) and posted to the   *)
(* requester (newSetLogHandler in coordination/server.go), which writes what is  *)
(* new.  What posts them is not part of this repository: chunks of any position  *)
(* may arrive, in any order and any number of times.  A byte is identified by    *)
(* its position in the log, counted from 0.  The log only grows, so a chunk that *)
(* was read earlier and arrives now is one that could be read now.               *)
EXTENDS Integers, Sequences

CONSTANTS
    MaxLog,           \* bound: length of the log
    MaxResponse,      \* MAX_LOG_RESPONSE_BYTES
    MaxBroken         \* bound: writes that fail

ASSUME RelayConstants == MaxLog \in Nat /\ MaxResponse \in Nat \ {0} /\ MaxBroken \in Nat

VARIABLES
    total,            \* size of the log file of the inference server
    nextLogPos,       \* nextLogPos of the handler
    written,          \* the bytes written to the requester's log
    broken            \* history: writes of the present process that failed

relayVars == <<total, nextLogPos, written, broken>>

RelayInit == total = 0 /\ nextLogPos = 0 /\ written = <<>> /\ broken = 0

LesserOf(a, b) == IF a <= b THEN a ELSE b

\* The server writes to its log file.
LogGrows ==
    /\ total < MaxLog /\ total' = total + 1
    /\ UNCHANGED <<nextLogPos, written, broken>>

\* parse_range_header: a range begins somewhere and ends there, later or not at all.
\* An open one is limited by the size of a response.
Ends(start) == {start + MaxResponse - 1} \union {end \in 0 .. MaxLog : start <= end}

\* get_log_bytes: how many bytes there are from start to the end of the range or of
\* the file.  A start at or beyond the end of the file is refused with 416.
BytesRead(start, end) == LesserOf(end, total - 1) - start + 1

\* Mutant of News: the whole chunk when some of it is new.
NewsUntrimmed(start, len) ==
    IF start <= nextLogPos /\ start + len > nextLogPos
    THEN [k \in 1 .. len |-> start + k - 1]
    ELSE <<>>

\* addChunk up to the write: a chunk that begins beyond the accepted content is
\* refused with 400, one with nothing new is acknowledged, of the others the part
\* that is new remains to be written.
News(start, len) ==
    IF start <= nextLogPos /\ start + len > nextLogPos
    THEN [k \in 1 .. (start + len - nextLogPos) |-> nextLogPos + k - 1]
    ELSE <<>>

\* The write succeeds.
AddChunk(start, len) ==
    /\ News(start, len) # <<>>
    /\ written' = written \o News(start, len)
    /\ nextLogPos' = nextLogPos + Len(News(start, len))
    /\ UNCHANGED <<total, broken>>

\* Mutant of WriteFails: the chunk counts as accepted.
WriteFailsAccepted(start, len) ==
    /\ News(start, len) # <<>> /\ broken < MaxBroken /\ broken' = broken + 1
    /\ nextLogPos' = nextLogPos + Len(News(start, len))
    /\ UNCHANGED <<total, written>>

\* The write fails after some bytes; the accepted content stays as it was.
WriteFails(start, len) ==
    /\ News(start, len) # <<>> /\ broken < MaxBroken /\ broken' = broken + 1
    /\ \E n \in 0 .. Len(News(start, len)) :
         written' = written \o SubSeq(News(start, len), 1, n)
    /\ UNCHANGED <<total, nextLogPos>>

\* The requester's process is replaced: a new handler, and an empty log.
HandlerRestarts ==
    /\ nextLogPos' = 0 /\ written' = <<>> /\ broken' = 0
    /\ UNCHANGED total

\* A chunk arrives.
Relay ==
    \E start \in 0 .. (total - 1) : \E end \in Ends(start) :
       \/ AddChunk(start, BytesRead(start, end))
       \/ WriteFails(start, BytesRead(start, end))

RelayNext == LogGrows \/ Relay \/ HandlerRestarts

RelaySpec == RelayInit /\ [][RelayNext]_relayVars

---------------------------------------------------------------------------
\* Properties

\* The types of the variables.
RelayTypeOK ==
    /\ total \in Nat /\ nextLogPos \in Nat /\ broken \in Nat
    /\ written \in Seq(Nat)

\* Without failed writes the requester's log is the server's log up to the accepted
\* position, byte for byte, whatever chunks arrive in whatever order.
LogIsPrefix ==
    broken = 0 => written = [k \in 1 .. nextLogPos |-> k - 1]

\* With failed writes there are repetitions but no holes: every accepted byte was
\* written, and no byte was written before the one that precedes it.
NothingSkipped ==
    /\ \A n \in 0 .. (nextLogPos - 1) : \E k \in DOMAIN written : written[k] = n
    /\ \A k \in DOMAIN written :
         written[k] = 0 \/ (k > 1 /\ written[k] <= written[k - 1] + 1)

\* Only new content of the server's log is used.
OnlyNewContent == \A j, k \in DOMAIN written : j # k => written[j] # written[k]
===============================================================================
