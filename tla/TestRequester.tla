----------------------------- MODULE TestRequester -----------------------------
(* The test requester (cmd/test-requester/main.go): GPUs are allocated first,    *)
(* then the requester's server is started, whose log handler is followed here    *)
(* for one of the Pods.  A restart of the container ends both.                   *)
EXTENDS GpuAllocation, LogRelay

CONSTANT Logged       \* the Pod whose requester is sent the log of its server

vars == <<allocVars, relayVars>>

Init == AllocInit /\ RelayInit

\* main() up to wg.Wait: the server exists once the GPUs are allocated.
Serving == proc[Logged].phase = "serving"

\* The handler of the requester is gone when its process is.
Allocate ==
    /\ AllocNext
    /\ IF Serving /\ proc'[Logged].phase # "serving" THEN HandlerRestarts ELSE UNCHANGED relayVars

ServeLog == (LogGrows \/ Relay) /\ Serving /\ UNCHANGED allocVars

Next == Allocate \/ ServeLog

Spec == Init /\ [][Next]_vars

\* Every requester goes on with its tries.
FairSpec == Spec /\ \A p \in Pods : WF_vars(Try(p) /\ UNCHANGED relayVars)
===============================================================================
