---------------------------- MODULE ReleaseLock ----------------------------
(***************************************************************************)
(* What the table of Helm operations promises to the operations of one     *)
(* release, and the table of node deployments to those of one machine,     *)
(* without rows, keys, clocks or heartbeats: an operation is opened only   *)
(* when no other open operation of the release is working, it works only   *)
(* while it is open, at most one works at a time, and the outcome it is    *)
(* closed with is final.                                                   *)
(***************************************************************************)
CONSTANTS Releases, Operations, NoRelease

VARIABLES
    state,    \* of each operation
    release,  \* the release each opened operation belongs to
    working   \* operations that may be changing their release

vars == <<state, release, working>>

OpenOn(r) == {o \in Operations : state[o] = "open" /\ release[o] = r}

Init ==
    /\ state = [o \in Operations |-> "unused"]
    /\ release = [o \in Operations |-> NoRelease]
    /\ working = {}

\* An operation is opened; open operations of its release that have fallen
\* silent are failed in the same step.
Open(o, r) ==
    /\ state[o] = "unused"
    /\ OpenOn(r) \cap working = {}
    /\ state' = [p \in Operations |-> IF p = o THEN "open"
                                      ELSE IF p \in OpenOn(r) THEN "failed" ELSE state[p]]
    /\ release' = [release EXCEPT ![o] = r]
    /\ UNCHANGED working

Begin(o) ==
    /\ state[o] = "open" /\ o \notin working
    /\ working' = working \cup {o}
    /\ UNCHANGED <<state, release>>

\* One operation stops working, or all of them do when their process ends.
Stop(S) ==
    /\ working' = working \ S
    /\ UNCHANGED <<state, release>>

Close(o, outcome) ==
    /\ state[o] = "open" /\ o \notin working
    /\ state' = [state EXCEPT ![o] = outcome]
    /\ UNCHANGED <<release, working>>

\* A new process fails everything an earlier one left open.
Abandon ==
    /\ working = {}
    /\ state' = [o \in Operations |-> IF state[o] = "open" THEN "failed" ELSE state[o]]
    /\ UNCHANGED <<release, working>>

Forget(S) ==
    /\ \A o \in S : state[o] = "failed"
    /\ state' = [o \in Operations |-> IF o \in S THEN "removed" ELSE state[o]]
    /\ UNCHANGED <<release, working>>

Next ==
    \/ \E o \in Operations : \/ \E r \in Releases : Open(o, r)
                             \/ Begin(o)
                             \/ \E outcome \in {"succeeded", "failed"} : Close(o, outcome)
    \/ \E S \in SUBSET Operations : Stop(S) \/ Forget(S)
    \/ Abandon

Spec == Init /\ [][Next]_vars

TypeOK ==
    /\ state \in [Operations -> {"unused", "open", "succeeded", "failed", "removed"}]
    /\ release \in [Operations -> Releases \cup {NoRelease}]
    /\ working \in SUBSET Operations

(* An operation works only while it is open, and alone on its release.       *)
Exclusion ==
    /\ \A o \in working : state[o] = "open"
    /\ \A o, p \in working : release[o] = release[p] => o = p
============================================================================
