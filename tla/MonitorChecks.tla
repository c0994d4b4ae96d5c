--------------------------- MODULE MonitorChecks ---------------------------
(***************************************************************************)
(* The monitor page: a snapshot is read from the cluster list by list      *)
(* while the cluster changes and calls fail, and two things are told of    *)
(* it: health checks with an overall status (buildMonitorChecks,           *)
(* buildMonitorSummary), and issues (buildMonitorIssues).                  *)
(***************************************************************************)
EXTENDS Naturals, Sequences, FiniteSets

CONSTANTS Nodes,
          MaxIssues,   \* warnings add no issues to as many: 50
          MaxEvents,   \* warnings that are looked at: 500
          MaxChanges, MaxFaults

VARIABLES world,    \* the cluster
          probe,    \* how many of the calls are done
          snap,     \* list -> what it gave
          db,       \* the database answered the ping
          changes, faults

vars == <<world, probe, snap, db, changes, faults>>

(* Pods: "pulling" is abnormal, "crashing" is so critically, "unready" runs *)
(* without being available.                                                *)
PodStates == {"running", "unready", "pulling", "crashing", "gone"}
NodeStates == {"ready", "pressured", "not ready", "gone"}
ClaimStates == {"bound", "pending", "lost"}
detectAbnormalPod(p) == p \in {"pulling", "crashing"}
isCriticalPodReason(p) == p = "crashing"
isPodAvailable(p) == p = "running"

CoreDNS == {"dns 1", "dns 2"}
System == CoreDNS \cup {"proxy"}          \* the pods of kube-system
Pods == {"app"} \cup System

(* What a warning can be of; the event of "nameless" names no object.      *)
Nameless == "nameless"
Warned == {"app", "volume", Nameless}

Calls == <<"api", "nodes", "pods", "system", "pvcs", "events">>
Listing(items) == [failed |-> FALSE, items |-> items]
None == Listing(<<>>)
Error == [failed |-> TRUE, items |-> <<>>]

(* What a list of the cluster gives: object -> state; of the warnings, the *)
(* newest: object -> when it was warned of last.                           *)
Latest == {o \in Warned : /\ world.warned[o] > 0
                          /\ Cardinality({p \in Warned : world.warned[p] > world.warned[o]}) < MaxEvents}
Present(part) == [o \in {p \in DOMAIN part : part[p] # "gone"} |-> part[o]]
Items(l) == CASE l = "nodes" -> Present(world.node)
              [] l = "pods" -> Present(world.pod)
              [] l = "system" -> Present([p \in System |-> world.pod[p]])
              [] l = "pvcs" -> [c \in {"claim"} |-> world.claim]
              [] l = "events" -> [o \in Latest |-> world.warned[o]]
              [] OTHER -> <<>>
Failed(l) == snap[l].failed
All(l) == DOMAIN snap[l].items
Those(l, Such(_)) == {o \in All(l) : Such(snap[l].items[o])}

Init == /\ world = [node |-> [n \in Nodes |-> "ready"], pod |-> [p \in Pods |-> "running"],
                    claim |-> "bound", warned |-> [o \in Warned |-> 0]]
        /\ probe = 0 /\ snap = [l \in {Calls[i] : i \in DOMAIN Calls} |-> None]
        /\ db = TRUE /\ changes = 0 /\ faults = 0

Change == /\ changes < MaxChanges /\ changes' = changes + 1
          /\ \/ \E n \in Nodes, s \in NodeStates : world' = [world EXCEPT !.node[n] = s]
             \/ \E p \in Pods, s \in PodStates : world' = [world EXCEPT !.pod[p] = s]
             \/ \E s \in ClaimStates : world' = [world EXCEPT !.claim = s]
             \/ \E o \in Warned : world' = [world EXCEPT !.warned[o] = changes + 1]
          /\ UNCHANGED <<probe, snap, db, faults>>
Done == probe = Len(Calls)
(* The next list.  Without a client for the API no list is tried; if only  *)
(* its version cannot be read, the lists are.                              *)
Read == /\ ~Done
        /\ LET l == Calls[probe + 1] IN
           \/ /\ snap' = [snap EXCEPT ![l] = Listing(Items(l))] /\ probe' = probe + 1
              /\ UNCHANGED faults
           \/ /\ faults < MaxFaults /\ faults' = faults + 1
              /\ snap' = [snap EXCEPT ![l] = Error]
              /\ probe' \in {probe + 1} \cup (IF l = "api" THEN {Len(Calls)} ELSE {})
        /\ UNCHANGED <<world, db, changes>>
Ping == /\ Done /\ faults < MaxFaults /\ faults' = faults + 1 /\ db /\ db' = FALSE
        /\ UNCHANGED <<world, probe, snap, changes>>
Again == /\ Done /\ probe' = 0 /\ snap' = [l \in DOMAIN snap |-> None] /\ db' = TRUE
         /\ UNCHANGED <<world, changes, faults>>
Next == Change \/ Read \/ Ping \/ Again
Spec == Init /\ [][Next]_vars

----------------------------------------------------------------------------
(* The API is unreachable, too, if nodes could not be listed. *)
apiErr == Failed("api") \/ Failed("nodes")
Worse(critical, warning) == IF critical THEN "critical" ELSE IF warning THEN "warning" ELSE "healthy"
checkNodeReady ==
    LET down == Those("nodes", LAMBDA s : s = "not ready") IN
    Worse(down = All("nodes"), down # {})
checkPodAbnormal == Worse(Those("pods", isCriticalPodReason) # {}, Those("pods", detectAbnormalPod) # {})
checkSystemComponents ==
    LET up == Those("system", isPodAvailable)
        dns == CoreDNS \cap All("system")
    IN  IF All("system") = {} THEN "unknown"
        ELSE Worse(dns # {} /\ dns \cap up = {}, up # All("system"))
checkPVCBound == Worse(FALSE, Those("pvcs", LAMBDA s : s # "bound") # {})
checkNodePressure == Worse(FALSE, Those("nodes", LAMBDA s : s = "pressured") # {})
checkWarningEvents == Worse(FALSE, All("events") # {})
(* A check of a list that could not be read is unknown. *)
ReadOf(c) == IF c = "pressure" THEN "nodes" ELSE c
OfList(c) ==
    CASE c = "nodes" -> checkNodeReady
      [] c = "pressure" -> checkNodePressure
      [] c = "pods" -> checkPodAbnormal
      [] c = "system" -> checkSystemComponents
      [] c = "pvcs" -> checkPVCBound
      [] c = "events" -> checkWarningEvents
ListChecks == {"nodes", "pressure", "pods", "system", "pvcs", "events"}
buildMonitorChecks ==
    [c \in ListChecks \cup {"api", "casos"} |->
        IF c = "api" THEN IF apiErr THEN "unknown" ELSE "healthy"
        ELSE IF c = "casos" THEN Worse(~db, FALSE)
        ELSE IF Failed(ReadOf(c)) THEN "unknown" ELSE OfList(c)]
\* Variant: what is unknown is as good as healthy.
buildMonitorSummaryOfKnown ==
    LET of == {buildMonitorChecks[c] : c \in DOMAIN buildMonitorChecks} IN
    IF "critical" \in of THEN "critical" ELSE IF "warning" \in of THEN "warning" ELSE "healthy"
(* The worst of the checks; one that is unknown is the least of them.      *)
buildMonitorSummary ==
    LET of == {buildMonitorChecks[c] : c \in DOMAIN buildMonitorChecks} IN
    IF "critical" \in of THEN "critical"
    ELSE IF "warning" \in of THEN "warning"
    ELSE IF "unknown" \in of THEN "unknown" ELSE "healthy"

Issue(o, reason, critical) == [object |-> o, reason |-> reason, critical |-> critical]
Lists == {"nodes", "pods", "system", "pvcs"}
Unlisted == {Issue(l, "list", FALSE) : l \in {k \in Lists : Failed(k)}}
            \cup (IF apiErr THEN {Issue("api", "unreachable", FALSE)} ELSE {})
(* An issue for each object in a bad state, critical in some of them.      *)
Seen(l, bad, critical) ==
    {Issue(o, snap[l].items[o], snap[l].items[o] \in critical) : o \in Those(l, LAMBDA s : s \in bad)}
ListIssues ==
    Unlisted
    \cup Seen("nodes", NodeStates \ {"ready"}, {"not ready"})
    \cup Seen("pods", {s \in PodStates : detectAbnormalPod(s)}, {s \in PodStates : isCriticalPodReason(s)})
    \cup {Issue(o, "CoreDNSUnavailable", TRUE) : o \in (CoreDNS \cap All("system")) \ Those("system", isPodAvailable)}
    \cup Seen("pvcs", ClaimStates \ {"bound"}, {"lost"})
(* A warning is an issue of its own for an object that has none, from the  *)
(* newest on, until the issues are MaxIssues or more.                       *)
At(o)    == snap["events"].items[o]
New      == {o \in All("events") \ {Nameless} : ~ \E i \in ListIssues : i.object = o}
Newer(o) == {p \in New : At(p) > At(o)}
Room     == IF Cardinality(ListIssues) < MaxIssues THEN MaxIssues - Cardinality(ListIssues) ELSE 1
EventIssues == {Issue(o, "event", FALSE) : o \in {p \in New : Cardinality(Newer(p)) < Room}}
buildMonitorIssues == ListIssues \cup EventIssues

----------------------------------------------------------------------------
(***************************************************************************)
(* The two agree about one snapshot, however the cluster changed while it  *)
(* was read: what is healthy overall has no issue and no call failed; a    *)
(* snapshot without issues is critical only for want of nodes or of the    *)
(* database; a critical issue of a listed pod, or one of every pod of the  *)
(* cluster's DNS, makes the whole critical; and an object a warning was    *)
(* listed of has an issue, unless the issues are as many as they may be,   *)
(* and those of warnings are of newer ones.                                *)
(***************************************************************************)
PageAgrees ==
    Done =>
        /\ buildMonitorSummary = "healthy" =>
              buildMonitorIssues = {} /\ db /\ \A l \in DOMAIN snap : ~Failed(l)
        /\ buildMonitorSummary = "critical" /\ buildMonitorIssues = {} => ~db \/ All("nodes") = {}
        /\ \/ \E i \in buildMonitorIssues : i.critical /\ isCriticalPodReason(i.reason)
           \/ /\ CoreDNS \cap All("system") # {}
              /\ \A p \in CoreDNS \cap All("system") : Issue(p, "CoreDNSUnavailable", TRUE) \in buildMonitorIssues
           => buildMonitorSummary = "critical"
        /\ \A o \in All("events") \ {Nameless} :
              \/ \E i \in buildMonitorIssues : i.object = o
              \/ /\ Cardinality(buildMonitorIssues) >= MaxIssues
                 /\ \A p \in New : Issue(p, "event", FALSE) \in buildMonitorIssues => At(p) > At(o)
=============================================================================
