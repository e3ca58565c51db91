--------------------------- MODULE LauncherNotifier ---------------------------
(* The notifier that runs beside the launcher in its Pod                       *)
(* (launcher_pod_notifier.py), composed with the launcher: it polls the table  *)
(* of instances and publishes a signature of it as an annotation of the Pod,   *)
(* by which the dual-pods controller learns that something has changed.        *)
EXTENDS Launcher

CONSTANTS
    PatchOutcomes,    \* what a failing patch may have done: subset of {"lost", "applied"}
    MaxFaults         \* bound: failing patches and restarts of the notifier

VARIABLES
    ready,            \* inference_server_ready
    fetched,          \* the signature just computed, Unknown outside an iteration
    published,        \* last_published_signature
    annotation,       \* the signature annotation of the Pod
    faults            \* history: failures so far

notifierVars == <<ready, fetched, published, annotation, faults>>
vars == <<launcherVars, notifierVars>>

\* compute_signature of the launcher's state.  The sorted list of IDs and statuses
\* and its hash are taken to tell apart what the set of these pairs tells apart.
Signature == {<<i, StatusOf(instances[i])>> : i \in Present}

\* No signature: no table has this one.
Unknown == {<<"unknown">>}

NotifierInit ==
    /\ ready = FALSE /\ fetched = Unknown /\ published = Unknown
    /\ annotation = Unknown /\ faults = 0

\* is_inference_server_ready, asked until it says yes and not any more after that.
BecomeReady ==
    /\ ~ready /\ ready' = TRUE
    /\ UNCHANGED <<launcherVars, fetched, published, annotation, faults>>

\* fetch_launcher_state and compute_signature; a signature that was published
\* last is not published again.
Fetch ==
    /\ ready /\ fetched = Unknown /\ Signature # published
    /\ fetched' = Signature
    /\ UNCHANGED <<launcherVars, ready, published, annotation, faults>>

\* patch_pod_signature succeeds, and only then the signature is remembered.
Patch ==
    /\ fetched # Unknown
    /\ annotation' = fetched /\ published' = fetched /\ fetched' = Unknown
    /\ UNCHANGED <<launcherVars, ready, faults>>

\* Mutant of PatchFails: the signature is remembered all the same.
RememberFailed ==
    /\ fetched # Unknown /\ faults < MaxFaults /\ faults' = faults + 1
    /\ published' = fetched /\ fetched' = Unknown
    /\ UNCHANGED <<launcherVars, ready, annotation>>

\* patch_pod_signature fails: the iteration ends, after the backoff another one
\* begins.  The request may have been carried out and only the reply be missing.
PatchFails ==
    /\ fetched # Unknown /\ faults < MaxFaults /\ faults' = faults + 1
    /\ \E outcome \in PatchOutcomes :
         annotation' = IF outcome = "applied" THEN fetched ELSE annotation
    /\ fetched' = Unknown
    /\ UNCHANGED <<launcherVars, ready, published>>

\* The notifier's container restarts; the annotation stays.
NotifierRestart ==
    /\ faults < MaxFaults /\ faults' = faults + 1
    /\ ready' = FALSE /\ fetched' = Unknown /\ published' = Unknown
    /\ UNCHANGED <<launcherVars, annotation>>

NotifierStep == BecomeReady \/ Fetch \/ Patch

Init == LauncherInit /\ NotifierInit

Next ==
    \/ LauncherNext /\ UNCHANGED notifierVars
    \/ NotifierStep \/ PatchFails \/ NotifierRestart

Spec == Init /\ [][Next]_vars

\* The launcher becomes ready at some time, the notifier's loop goes on, and its
\* failures are bounded.
FairSpec == Spec /\ WF_vars(NotifierStep)

---------------------------------------------------------------------------
\* Properties

\* Every change of the table reaches the Pod: again and again the annotation is
\* the signature of the instances as they are, however the polls, the changes, the
\* failed patches and the restarts of either container interleave.
SignatureCatchesUp == []<>(annotation = Signature)
===============================================================================
