--------------------------- MODULE Watchers_proofs --------------------------
(***************************************************************************)
(* Proofs about the parts that MCWatchers plays one at a time: the monitor  *)
(* page, the joins of a mesh, storage classes, certificates of Ingresses,   *)
(* the leases of boxes, the rules of the webhooks, the local node, the      *)
(* certificates of the control plane, the load balancer, and the domains of *)
(* an app.                                                                  *)
(***************************************************************************)
EXTENDS MCWatchers, Integers, FunctionTheorems, FiniteSetTheorems, SequenceTheorems,
        WellFoundedInduction, TLAPS

----------------------------------------------------------------------------
(* The checks of the monitor page, one by one, of whatever snapshot.        *)
State(l, o) == snap[l].items[o]
Verdicts == {"healthy", "warning", "critical", "unknown"}
Check(c) == MO!buildMonitorChecks[c]
Checks == MO!ListChecks \cup {"api", "casos"}
Dns == MO!CoreDNS \cap MO!All("system")

LEMMA ListVerdicts ==
    /\ MO!checkNodeReady \in Verdicts
    /\ MO!checkNodeReady = "healthy" => \A o \in MO!All("nodes") : State("nodes", o) # "not ready"
    /\ MO!checkNodeReady = "critical" => \A o \in MO!All("nodes") : State("nodes", o) = "not ready"
    /\ MO!checkNodePressure \in {"healthy", "warning"}
    /\ MO!checkNodePressure = "healthy" => \A o \in MO!All("nodes") : State("nodes", o) # "pressured"
    /\ MO!checkPodAbnormal \in Verdicts
    /\ MO!checkPodAbnormal = "healthy" => \A o \in MO!All("pods") : ~MO!detectAbnormalPod(State("pods", o))
    /\ MO!checkPodAbnormal = "critical"
          <=> \E o \in MO!All("pods") : MO!isCriticalPodReason(State("pods", o))
    /\ MO!checkPVCBound \in {"healthy", "warning"}
    /\ MO!checkPVCBound = "healthy" => \A o \in MO!All("pvcs") : State("pvcs", o) = "bound"
    /\ MO!checkWarningEvents \in {"healthy", "warning"}
    /\ MO!checkWarningEvents = "healthy" => MO!All("events") = {}
BY DEF Verdicts, State, MO!checkNodeReady, MO!checkNodePressure, MO!checkPodAbnormal, MO!checkPVCBound,
       MO!checkWarningEvents, MO!Worse, MO!Those, MO!detectAbnormalPod, MO!isCriticalPodReason

LEMMA SystemVerdict ==
    /\ MO!checkSystemComponents \in Verdicts
    /\ MO!checkSystemComponents = "healthy" => \A o \in MO!All("system") : MO!isPodAvailable(State("system", o))
    /\ MO!checkSystemComponents = "critical"
          <=> Dns # {} /\ \A o \in Dns : ~MO!isPodAvailable(State("system", o))
BY DEF Verdicts, State, Dns, MO!checkSystemComponents, MO!Worse, MO!Those, MO!isPodAvailable

LEMMA PageVerdicts ==
    /\ \A c \in Checks : Check(c) \in Verdicts
    /\ Check("casos") \in {"healthy", "critical"} /\ (Check("casos") = "healthy" <=> db)
    /\ Check("api") \in {"healthy", "unknown"} /\ (Check("api") = "healthy" <=> ~MO!apiErr)
    /\ Check("nodes") = IF MO!Failed("nodes") THEN "unknown" ELSE MO!checkNodeReady
    /\ Check("pressure") = IF MO!Failed("nodes") THEN "unknown" ELSE MO!checkNodePressure
    /\ Check("pods") = IF MO!Failed("pods") THEN "unknown" ELSE MO!checkPodAbnormal
    /\ Check("system") = IF MO!Failed("system") THEN "unknown" ELSE MO!checkSystemComponents
    /\ Check("pvcs") = IF MO!Failed("pvcs") THEN "unknown" ELSE MO!checkPVCBound
    /\ Check("events") = IF MO!Failed("events") THEN "unknown" ELSE MO!checkWarningEvents
<1>1. \A c \in MO!ListChecks :
          Check(c) = IF MO!Failed(IF c = "pressure" THEN "nodes" ELSE c) THEN "unknown" ELSE MO!OfList(c)
  BY DEF Check, MO!buildMonitorChecks, MO!ListChecks, MO!ReadOf
<1>2. /\ MO!OfList("nodes") = MO!checkNodeReady /\ MO!OfList("pressure") = MO!checkNodePressure
      /\ MO!OfList("pods") = MO!checkPodAbnormal /\ MO!OfList("system") = MO!checkSystemComponents
      /\ MO!OfList("pvcs") = MO!checkPVCBound /\ MO!OfList("events") = MO!checkWarningEvents
  BY DEF MO!OfList
<1>3. /\ Check("nodes") = IF MO!Failed("nodes") THEN "unknown" ELSE MO!checkNodeReady
      /\ Check("pressure") = IF MO!Failed("nodes") THEN "unknown" ELSE MO!checkNodePressure
      /\ Check("pods") = IF MO!Failed("pods") THEN "unknown" ELSE MO!checkPodAbnormal
      /\ Check("system") = IF MO!Failed("system") THEN "unknown" ELSE MO!checkSystemComponents
      /\ Check("pvcs") = IF MO!Failed("pvcs") THEN "unknown" ELSE MO!checkPVCBound
      /\ Check("events") = IF MO!Failed("events") THEN "unknown" ELSE MO!checkWarningEvents
  BY <1>1, <1>2 DEF MO!ListChecks
<1>4. Check("casos") = IF ~db THEN "critical" ELSE "healthy"
  BY DEF Check, MO!buildMonitorChecks, MO!ListChecks, MO!Worse
<1>5. Check("api") = IF MO!apiErr THEN "unknown" ELSE "healthy"
  BY DEF Check, MO!buildMonitorChecks, MO!ListChecks
<1>6. \A c \in Checks : Check(c) \in Verdicts
  BY <1>3, <1>4, <1>5, ListVerdicts, SystemVerdict DEF Checks, MO!ListChecks, Verdicts
<1> QED
  BY <1>3, <1>4, <1>5, <1>6

(* The overall status is the worst of them.                                 *)
LEMMA WorstOfChecks ==
    /\ MO!buildMonitorSummary = "healthy" => \A c \in Checks : Check(c) = "healthy"
    /\ MO!buildMonitorSummary = "critical" <=> \E c \in Checks : Check(c) = "critical"
<1>1. DOMAIN MO!buildMonitorChecks = Checks
  BY DEF MO!buildMonitorChecks, Checks
<1>2. \A v : v \in {MO!buildMonitorChecks[c] : c \in DOMAIN MO!buildMonitorChecks}
             <=> \E c \in Checks : Check(c) = v
  BY <1>1 DEF Check
<1> QED
  BY <1>2, PageVerdicts DEF MO!buildMonitorSummary, Verdicts

----------------------------------------------------------------------------
(* The issues.  What the reasons of issues are tells them apart.             *)
LEMMA IssueFields ==
    ASSUME NEW o, NEW reason, NEW critical
    PROVE  /\ MO!Issue(o, reason, critical).object = o
           /\ MO!Issue(o, reason, critical).reason = reason
           /\ MO!Issue(o, reason, critical).critical = critical
BY DEF MO!Issue

LEMMA SeenIssues ==
    ASSUME NEW l, NEW bad, NEW critical
    PROVE  /\ \A i \in MO!Seen(l, bad, critical) : \E o \in MO!All(l) :
                  /\ i.object = o /\ i.reason = State(l, o) /\ State(l, o) \in bad
                  /\ i.critical = (State(l, o) \in critical)
           /\ \A o \in MO!All(l) : State(l, o) \in bad => \E i \in MO!Seen(l, bad, critical) : i.object = o
BY IssueFields DEF MO!Seen, MO!Those, State

NodeIssues == MO!Seen("nodes", MO!NodeStates \ {"ready"}, {"not ready"})
PodIssues == MO!Seen("pods", {s \in MO!PodStates : MO!detectAbnormalPod(s)},
                             {s \in MO!PodStates : MO!isCriticalPodReason(s)})
ClaimIssues == MO!Seen("pvcs", MO!ClaimStates \ {"bound"}, {"lost"})
DnsIssues == {MO!Issue(o, "CoreDNSUnavailable", TRUE) : o \in Dns \ MO!Those("system", MO!isPodAvailable)}

LEMMA IssuesOfLists ==
    MO!ListIssues = MO!Unlisted \cup NodeIssues \cup PodIssues \cup DnsIssues \cup ClaimIssues
BY DEF MO!ListIssues, NodeIssues, PodIssues, ClaimIssues, DnsIssues, Dns

LEMMA DnsIssue ==
    /\ \A i \in DnsIssues : i.object \in Dns /\ ~MO!isPodAvailable(State("system", i.object))
                           /\ i.reason = "CoreDNSUnavailable" /\ i.critical = TRUE
    /\ \A o \in Dns : ~MO!isPodAvailable(State("system", o)) => \E i \in DnsIssues : i.object = o
<1>1. \A o \in Dns : o \in MO!Those("system", MO!isPodAvailable) <=> MO!isPodAvailable(State("system", o))
  BY DEF Dns, State, MO!Those, MO!isPodAvailable
<1>2. ASSUME NEW i \in DnsIssues
      PROVE  i.object \in Dns /\ ~MO!isPodAvailable(State("system", i.object))
             /\ i.reason = "CoreDNSUnavailable" /\ i.critical = TRUE
  <2>1. PICK o \in Dns \ MO!Those("system", MO!isPodAvailable) : i = MO!Issue(o, "CoreDNSUnavailable", TRUE)
    BY DEF DnsIssues
  <2>2. i.object = o /\ i.reason = "CoreDNSUnavailable" /\ i.critical = TRUE
    BY <2>1 DEF MO!Issue
  <2> QED
    BY <1>1, <2>1, <2>2
<1>3. ASSUME NEW o \in Dns, ~MO!isPodAvailable(State("system", o))
      PROVE  \E i \in DnsIssues : i.object = o
  <2>1. MO!Issue(o, "CoreDNSUnavailable", TRUE) \in DnsIssues
    BY <1>1, <1>3 DEF DnsIssues
  <2>2. MO!Issue(o, "CoreDNSUnavailable", TRUE).object = o
    BY DEF MO!Issue
  <2> QED
    BY <2>1, <2>2
<1> QED
  BY <1>2, <1>3

LEMMA Reasons ==
    /\ \A i \in NodeIssues : i.reason \in {"pressured", "not ready", "gone"}
    /\ \A i \in PodIssues : i.reason \in {"pulling", "crashing"}
    /\ \A i \in ClaimIssues : i.reason \in {"pending", "lost"}
    /\ \A i \in DnsIssues : i.reason = "CoreDNSUnavailable"
<1>1. ASSUME NEW i \in NodeIssues PROVE i.reason \in {"pressured", "not ready", "gone"}
  <2>1. \E o \in MO!All("nodes") :
            i.reason = State("nodes", o) /\ State("nodes", o) \in MO!NodeStates \ {"ready"}
    <3>1. \A bad, critical : i \in MO!Seen("nodes", bad, critical) =>
              \E o \in MO!All("nodes") : i.reason = State("nodes", o) /\ State("nodes", o) \in bad
      BY SeenIssues
    <3> QED
      BY <3>1 DEF NodeIssues
  <2> QED
    BY <2>1 DEF MO!NodeStates
<1>2. ASSUME NEW i \in PodIssues PROVE i.reason \in {"pulling", "crashing"}
  <2>1. i.reason \in {s \in MO!PodStates : MO!detectAbnormalPod(s)}
    BY SeenIssues DEF PodIssues
  <2> QED
    BY <2>1 DEF MO!detectAbnormalPod
<1>3. ASSUME NEW i \in ClaimIssues PROVE i.reason \in {"pending", "lost"}
  <2>1. i.reason \in MO!ClaimStates \ {"bound"}
    BY SeenIssues DEF ClaimIssues
  <2> QED
    BY <2>1 DEF MO!ClaimStates
<1> QED
  BY <1>1, <1>2, <1>3, DnsIssue

LEMMA UnlistedIssue ==
    /\ \A i \in MO!Unlisted : i.critical = FALSE /\ i.reason \in {"list", "unreachable"}
    /\ MO!Unlisted = {} <=> ~MO!apiErr /\ \A l \in MO!Lists : ~MO!Failed(l)
<1>1. ASSUME NEW i \in MO!Unlisted
      PROVE  i.critical = FALSE /\ i.reason \in {"list", "unreachable"}
  <2>1. \/ i = MO!Issue("api", "unreachable", FALSE)
        \/ \E l \in MO!Lists : i = MO!Issue(l, "list", FALSE)
    BY DEF MO!Unlisted
  <2>2. CASE i = MO!Issue("api", "unreachable", FALSE)
    BY <2>2 DEF MO!Issue
  <2>3. CASE \E l \in MO!Lists : i = MO!Issue(l, "list", FALSE)
    BY <2>3 DEF MO!Issue
  <2> QED
    BY <2>1, <2>2, <2>3
<1>2. MO!Unlisted = {} <=> ~MO!apiErr /\ \A l \in MO!Lists : ~MO!Failed(l)
  BY DEF MO!Unlisted
<1> QED
  BY <1>1, <1>2

LEMMA EventIssue ==
    /\ \A i \in MO!EventIssues : \E o \in MO!New : i = MO!Issue(o, "event", FALSE)
    /\ \A i \in MO!buildMonitorIssues : i \in MO!ListIssues \/ (i.critical = FALSE /\ i.reason = "event")
    /\ MO!ListIssues \subseteq MO!buildMonitorIssues
    /\ MO!All("events") = {} => MO!buildMonitorIssues = MO!ListIssues
<1>1. \A i \in MO!EventIssues : \E o \in MO!New : i = MO!Issue(o, "event", FALSE)
  BY DEF MO!EventIssues
<1>2. ASSUME NEW i \in MO!EventIssues PROVE i.critical = FALSE /\ i.reason = "event"
  <2>1. PICK o \in MO!New : i = MO!Issue(o, "event", FALSE)
    BY <1>1
  <2> QED
    BY <2>1 DEF MO!Issue
<1>3. MO!All("events") = {} => MO!EventIssues = {}
  BY <1>1 DEF MO!New
<1> QED
  BY <1>1, <1>2, <1>3 DEF MO!buildMonitorIssues

----------------------------------------------------------------------------
(* What is so of a snapshot whenever the page is built: a list that failed    *)
(* has nothing, lists are finite, warnings have times, and the nodes are in   *)
(* states that nodes can be in.                                              *)
Worlds == [node : [{n1, n2} -> MO!NodeStates], pod : [MO!Pods -> MO!PodStates],
           claim : MO!ClaimStates, warned : [MO!Warned -> Nat]]
Snapshot ==
    /\ \A l \in DOMAIN snap : MO!Failed(l) => MO!All(l) = {}
    /\ \A l \in DOMAIN snap : IsFiniteSet(MO!All(l))
    /\ \A o \in MO!All("events") : MO!At(o) \in Nat
    /\ DOMAIN snap = {"api", "nodes", "pods", "system", "pvcs", "events"}
    /\ \A o \in MO!All("nodes") : State("nodes", o) \in {"ready", "pressured", "not ready"}

LEMMA HealthyPage ==
    ASSUME Snapshot, MO!buildMonitorSummary = "healthy"
    PROVE  MO!buildMonitorIssues = {} /\ db /\ \A l \in DOMAIN snap : ~MO!Failed(l)
<1>1. \A c \in Checks : Check(c) = "healthy"
  BY WorstOfChecks
<1>2. /\ Check("casos") = "healthy" /\ Check("api") = "healthy" /\ Check("nodes") = "healthy"
      /\ Check("pressure") = "healthy" /\ Check("pods") = "healthy" /\ Check("system") = "healthy"
      /\ Check("pvcs") = "healthy" /\ Check("events") = "healthy"
  BY <1>1 DEF Checks, MO!ListChecks
<1>3. db /\ ~MO!apiErr /\ \A l \in MO!Lists \cup {"events"} : ~MO!Failed(l)
  BY <1>2, PageVerdicts DEF MO!Lists
<1>4. \A l \in DOMAIN snap : ~MO!Failed(l)
  BY <1>3 DEF Snapshot, MO!Lists, MO!apiErr
<1>5. /\ MO!checkNodeReady = "healthy" /\ MO!checkNodePressure = "healthy" /\ MO!checkPodAbnormal = "healthy"
      /\ MO!checkSystemComponents = "healthy" /\ MO!checkPVCBound = "healthy"
      /\ MO!checkWarningEvents = "healthy"
  BY <1>2, <1>3, PageVerdicts DEF MO!Lists
<1>6. MO!Unlisted = {}
  BY <1>3, UnlistedIssue DEF MO!Lists
<1>7. NodeIssues = {}
  <2>1. \A o \in MO!All("nodes") : State("nodes", o) \notin MO!NodeStates \ {"ready"}
    BY <1>5, ListVerdicts DEF Snapshot
  <2> QED
    BY <2>1, SeenIssues DEF NodeIssues
<1>8. PodIssues = {}
  <2>1. \A o \in MO!All("pods") : State("pods", o) \notin {s \in MO!PodStates : MO!detectAbnormalPod(s)}
    BY <1>5, ListVerdicts
  <2> QED
    BY <2>1, SeenIssues DEF PodIssues
<1>9. ClaimIssues = {}
  <2>1. \A o \in MO!All("pvcs") : State("pvcs", o) \notin MO!ClaimStates \ {"bound"}
    BY <1>5, ListVerdicts
  <2> QED
    BY <2>1, SeenIssues DEF ClaimIssues
<1>10. DnsIssues = {}
  <2>1. \A o \in Dns : MO!isPodAvailable(State("system", o))
    BY <1>5, SystemVerdict DEF Dns
  <2> QED
    BY <2>1, DnsIssue
<1>11. MO!All("events") = {}
  BY <1>5, ListVerdicts
<1> QED
  BY <1>3, <1>4, <1>6, <1>7, <1>8, <1>9, <1>10, <1>11, IssuesOfLists, EventIssue

LEMMA CriticalPage ==
    ASSUME Snapshot, MO!buildMonitorSummary = "critical", MO!buildMonitorIssues = {}
    PROVE  ~db \/ MO!All("nodes") = {}
<1>1. PICK c \in Checks : Check(c) = "critical"
  BY WorstOfChecks
<1>2. NodeIssues = {} /\ PodIssues = {} /\ DnsIssues = {}
  BY EventIssue, IssuesOfLists
<1>3. c \in {"casos", "nodes", "pods", "system"}
  BY <1>1, PageVerdicts, ListVerdicts DEF Checks, MO!ListChecks
<1>4. CASE c = "casos"
  BY <1>1, <1>4, PageVerdicts
<1>5. CASE c = "nodes"
  <2>1. \A o \in MO!All("nodes") : State("nodes", o) = "not ready"
    BY <1>1, <1>5, PageVerdicts, ListVerdicts
  <2>2. \A o \in MO!All("nodes") : State("nodes", o) \in MO!NodeStates \ {"ready"}
    BY <2>1 DEF MO!NodeStates
  <2> QED
    BY <1>2, <2>2, SeenIssues DEF NodeIssues
<1>6. CASE c = "pods"
  <2>1. PICK o \in MO!All("pods") : MO!isCriticalPodReason(State("pods", o))
    BY <1>1, <1>6, PageVerdicts, ListVerdicts
  <2>2. State("pods", o) \in {s \in MO!PodStates : MO!detectAbnormalPod(s)}
    BY <2>1 DEF MO!PodStates, MO!detectAbnormalPod, MO!isCriticalPodReason
  <2> QED
    BY <1>2, <2>2, SeenIssues DEF PodIssues
<1>7. CASE c = "system"
  <2>1. Dns # {} /\ \A o \in Dns : ~MO!isPodAvailable(State("system", o))
    BY <1>1, <1>7, PageVerdicts, SystemVerdict
  <2> QED
    BY <1>2, <2>1, DnsIssue
<1> QED
  BY <1>3, <1>4, <1>5, <1>6, <1>7

LEMMA CriticalIssue ==
    ASSUME Snapshot,
           \/ \E i \in MO!buildMonitorIssues : i.critical /\ MO!isCriticalPodReason(i.reason)
           \/ /\ Dns # {}
              /\ \A p \in Dns : MO!Issue(p, "CoreDNSUnavailable", TRUE) \in MO!buildMonitorIssues
    PROVE  MO!buildMonitorSummary = "critical"
<1>1. CASE \E i \in MO!buildMonitorIssues : i.critical /\ MO!isCriticalPodReason(i.reason)
  <2>1. PICK i \in MO!buildMonitorIssues : i.critical /\ MO!isCriticalPodReason(i.reason)
    BY <1>1
  <2>2. i \in NodeIssues \cup PodIssues \cup ClaimIssues \cup DnsIssues
    BY <2>1, EventIssue, IssuesOfLists, UnlistedIssue
  <2>3. i \in PodIssues
    BY <2>1, <2>2, Reasons DEF MO!isCriticalPodReason
  <2>4. PICK o \in MO!All("pods") : i.reason = State("pods", o)
    BY <2>3, SeenIssues DEF PodIssues
  <2>5. ~MO!Failed("pods")
    BY <2>4 DEF Snapshot
  <2>6. Check("pods") = "critical"
    BY <2>1, <2>4, <2>5, PageVerdicts, ListVerdicts
  <2> QED
    BY <2>6, WorstOfChecks DEF Checks, MO!ListChecks
<1>2. CASE /\ Dns # {}
           /\ \A p \in Dns : MO!Issue(p, "CoreDNSUnavailable", TRUE) \in MO!buildMonitorIssues
  <2>1. ASSUME NEW p \in Dns PROVE ~MO!isPodAvailable(State("system", p))
    <3>1. PICK i \in MO!buildMonitorIssues : i = MO!Issue(p, "CoreDNSUnavailable", TRUE)
      BY <1>2
    <3>4. i.object = p /\ i.reason = "CoreDNSUnavailable" /\ i.critical = TRUE
      BY <3>1 DEF MO!Issue
    <3>2. i \in NodeIssues \cup PodIssues \cup ClaimIssues \cup DnsIssues
      BY <3>4, EventIssue, IssuesOfLists, UnlistedIssue
    <3>3. i \in DnsIssues
      BY <3>2, <3>4, Reasons
    <3> QED
      BY <3>3, <3>4, DnsIssue
  <2>2. ~MO!Failed("system")
    BY <1>2 DEF Snapshot, Dns
  <2>3. Check("system") = "critical"
    BY <1>2, <2>1, <2>2, PageVerdicts, SystemVerdict
  <2> QED
    BY <2>3, WorstOfChecks DEF Checks, MO!ListChecks
<1> QED
  BY <1>1, <1>2

(* Finite sets of issues, which are counted against the limit.              *)
LEMMA SameCardinality ==
    ASSUME NEW S
    PROVE  MO!Cardinality(S) = Cardinality(S)
BY DEF MO!Cardinality, Cardinality, MO!IsFiniteSet, IsFiniteSet

LEMMA Image ==
    ASSUME NEW S, IsFiniteSet(S), NEW f
    PROVE  IsFiniteSet({f[x] : x \in S})
<1> DEFINE g == [x \in S |-> f[x]]
           T == {f[x] : x \in S}
<1>1. g \in Surjection(S, T)
  BY DEF Surjection
<1> QED
  BY <1>1, FS_Surjection

LEMMA Smallest ==
    ASSUME NEW S, IsFiniteSet(S), NEW T \in SUBSET (SUBSET S), T # {}
    PROVE  \E x \in T : \A y \in T : y \subseteq x => y = x
<1>1. IsWellFoundedOn(StrictSubsetOrdering(S), SUBSET S)
  BY FS_StrictSubsetOrderingWellFounded, FS_FiniteSubsetsOfFinite
<1>2. PICK x \in T : \A y \in T : ~ <<y, x>> \in StrictSubsetOrdering(S)
  BY <1>1, WFMin
<1> QED
  BY <1>2 DEF StrictSubsetOrdering

LEMMA SeenFinite ==
    ASSUME NEW l, IsFiniteSet(MO!All(l)), NEW bad, NEW critical
    PROVE  IsFiniteSet(MO!Seen(l, bad, critical))
<1> DEFINE S == MO!Those(l, LAMBDA s : s \in bad)
           f == [o \in S |-> MO!Issue(o, snap[l].items[o], snap[l].items[o] \in critical)]
<1>1. IsFiniteSet(S)
  BY FS_Subset DEF MO!Those
<1>2. MO!Seen(l, bad, critical) = {f[o] : o \in S}
  BY DEF MO!Seen
<1> HIDE DEF f, S
<1>3. IsFiniteSet({f[o] : o \in S})
  BY <1>1, Image
<1> QED
  BY <1>2, <1>3

LEMMA FiniteIssues ==
    ASSUME Snapshot
    PROVE  IsFiniteSet(MO!ListIssues) /\ IsFiniteSet(MO!New)
<1>1. \A l \in {"nodes", "pods", "system", "pvcs", "events"} : IsFiniteSet(MO!All(l))
  BY DEF Snapshot
<1>2. IsFiniteSet(NodeIssues) /\ IsFiniteSet(PodIssues) /\ IsFiniteSet(ClaimIssues)
  BY <1>1, SeenFinite DEF NodeIssues, PodIssues, ClaimIssues
<1>3. IsFiniteSet(DnsIssues)
  <2> DEFINE S == Dns \ MO!Those("system", MO!isPodAvailable)
             f == [o \in S |-> MO!Issue(o, "CoreDNSUnavailable", TRUE)]
  <2>1. IsFiniteSet(S)
    BY <1>1, FS_Subset DEF Dns
  <2>2. DnsIssues = {f[o] : o \in S}
    BY DEF DnsIssues
  <2> HIDE DEF f, S
  <2>3. IsFiniteSet({f[o] : o \in S})
    BY <2>1, Image
  <2> QED
    BY <2>2, <2>3
<1>4. IsFiniteSet(MO!Unlisted)
  <2> DEFINE f == [l \in MO!Lists |-> MO!Issue(l, "list", FALSE)]
             T == {f[l] : l \in MO!Lists}
  <2>1. IsFiniteSet(MO!Lists)
    <3>1. MO!Lists = (({"nodes"} \cup {"pods"}) \cup {"system"}) \cup {"pvcs"}
      BY DEF MO!Lists
    <3>2. IsFiniteSet(({"nodes"} \cup {"pods"}) \cup {"system"})
      BY FS_Singleton, FS_Union
    <3> QED
      BY <3>1, <3>2, FS_Singleton, FS_Union
  <2>2. MO!Unlisted \subseteq T \cup {MO!Issue("api", "unreachable", FALSE)}
    BY DEF MO!Unlisted
  <2> HIDE DEF f
  <2>3. IsFiniteSet(T)
    BY <2>1, Image
  <2> HIDE DEF T
  <2>4. IsFiniteSet(T \cup {MO!Issue("api", "unreachable", FALSE)})
    BY <2>3, FS_Singleton, FS_Union
  <2> QED
    BY <2>2, <2>4, FS_Subset
<1>5. IsFiniteSet(MO!New)
  BY <1>1, FS_Subset DEF MO!New
<1> QED
  BY <1>2, <1>3, <1>4, <1>5, FS_Union, IssuesOfLists

(* Whether a warning gets an issue of its own is told by how many newer ones *)
(* could have it.                                                           *)
Shown == {p \in MO!New : MO!Cardinality(MO!Newer(p)) < MO!Room}

LEMMA ShownIssue ==
    /\ MO!EventIssues = {MO!Issue(o, "event", FALSE) : o \in Shown}
    /\ \A o \in MO!New : MO!Issue(o, "event", FALSE) \in MO!buildMonitorIssues => o \in Shown
    /\ \A o \in MO!All("events") \ {MO!Nameless} :
          (\E i \in MO!buildMonitorIssues : i.object = o) \/ o \in MO!New \ Shown
<1>1. MO!EventIssues = {MO!Issue(o, "event", FALSE) : o \in Shown}
  BY DEF MO!EventIssues, Shown
<1>2. \A o : MO!Issue(o, "event", FALSE).object = o
  BY DEF MO!Issue
<1>3. \A o \in MO!New : ~ \E i \in MO!ListIssues : i.object = o
  BY DEF MO!New
<1>4. ASSUME NEW o \in MO!New, MO!Issue(o, "event", FALSE) \in MO!buildMonitorIssues
      PROVE  o \in Shown
  <2>1. MO!Issue(o, "event", FALSE) \in MO!EventIssues
    BY <1>2, <1>3, <1>4 DEF MO!buildMonitorIssues
  <2>2. PICK p \in Shown : MO!Issue(o, "event", FALSE) = MO!Issue(p, "event", FALSE)
    BY <1>1, <2>1
  <2>3. MO!Issue(o, "event", FALSE).object = o /\ MO!Issue(p, "event", FALSE).object = p
    BY DEF MO!Issue
  <2>4. o = p
    BY <2>2, <2>3
  <2> QED
    BY <2>4
<1>5. ASSUME NEW o \in MO!All("events") \ {MO!Nameless}, ~ \E i \in MO!buildMonitorIssues : i.object = o
      PROVE  o \in MO!New \ Shown
  <2>1. o \in MO!New
    BY <1>5 DEF MO!New, MO!buildMonitorIssues
  <2>2. MO!Issue(o, "event", FALSE) \notin MO!buildMonitorIssues
    BY <1>2, <1>5
  <2> QED
    BY <1>1, <2>1, <2>2 DEF MO!buildMonitorIssues
<1> QED
  BY <1>1, <1>4, <1>5

(* Of the warnings without an issue, all that are newer than one with the   *)
(* fewest newer ones have theirs, so that the issues are as many as may be.  *)
LEMMA FullPage ==
    ASSUME Snapshot, NEW o \in MO!New \ Shown
    PROVE  MO!Cardinality(MO!buildMonitorIssues) >= MaxIssues
<1> DEFINE L == MO!ListIssues
           E == MO!EventIssues
           f == [p \in Shown |-> MO!Issue(p, "event", FALSE)]
<1>1. IsFiniteSet(L) /\ IsFiniteSet(MO!New)
  BY FiniteIssues
<1>2. \A S \in SUBSET MO!New : IsFiniteSet(S) /\ Cardinality(S) \in Nat
  BY <1>1, FS_Subset, FS_CardinalityType
<1>3. Shown \in SUBSET MO!New /\ \A p \in MO!New : MO!Newer(p) \in SUBSET MO!New
  BY DEF Shown, MO!Newer
<1>4. IsFiniteSet(E) /\ Cardinality(E) = Cardinality(Shown)
  <2>1. f \in Surjection(Shown, E)
    BY ShownIssue DEF Surjection
  <2>2. f \in Injection(Shown, E)
    <3>1. \A p, q \in Shown : f[p] = f[q] => p = q
      BY DEF MO!Issue
    <3> QED
      BY <2>1, <3>1 DEF Injection, Surjection, IsInjective
  <2> QED
    BY <1>2, <1>3, <2>1, <2>2, FS_Surjection
<1>5. L \cap E = {}
  <2>1. ASSUME NEW i \in E PROVE i.object \in MO!New
    <3>1. PICK p \in MO!New : i = MO!Issue(p, "event", FALSE)
      BY EventIssue
    <3> QED
      BY <3>1 DEF MO!Issue
  <2> QED
    BY <2>1 DEF MO!New
<1>6. /\ Cardinality(L) \in Nat
      /\ Cardinality(MO!buildMonitorIssues) = Cardinality(L) + Cardinality(Shown)
  <2>1. Cardinality(L \cup E) = Cardinality(L) + Cardinality(E) - Cardinality(L \cap E)
    BY <1>1, <1>4, FS_Union
  <2>2. Cardinality(L \cap E) = 0
    BY <1>5, FS_EmptySet
  <2>3. Cardinality(L) \in Nat /\ Cardinality(Shown) \in Nat
    BY <1>1, <1>2, <1>3, FS_CardinalityType
  <2>4. MO!buildMonitorIssues = L \cup E
    BY DEF MO!buildMonitorIssues
  <2> HIDE DEF L, E
  <2>5. Cardinality(L \cup E) = Cardinality(L) + Cardinality(Shown)
    BY <1>4, <2>1, <2>2, <2>3
  <2> QED
    BY <2>3, <2>4, <2>5
<1>7. \A S : MO!Cardinality(S) = Cardinality(S)
  BY SameCardinality
<1>8. \E p \in MO!New \ Shown : MO!Newer(p) \subseteq Shown
  <2> DEFINE T == {MO!Newer(p) : p \in MO!New \ Shown}
  <2>1. T \in SUBSET (SUBSET MO!New) /\ T # {}
    BY <1>3
  <2> HIDE DEF T
  <2>2. PICK x \in T : \A y \in T : y \subseteq x => y = x
    BY <1>1, <2>1, Smallest
  <2> USE DEF T
  <2>3. PICK p \in MO!New \ Shown : x = MO!Newer(p)
    OBVIOUS
  <2>4. ASSUME NEW q \in MO!Newer(p) \ Shown PROVE FALSE
    <3>1. q \in MO!New /\ MO!At(q) > MO!At(p) /\ p \in MO!New
      BY DEF MO!Newer
    <3>2. \A r \in MO!New : MO!At(r) \in Nat
      BY DEF Snapshot, MO!New
    <3>3. MO!Newer(q) \subseteq MO!Newer(p)
      BY <3>1, <3>2 DEF MO!Newer
    <3>4. q \notin MO!Newer(q)
      BY <3>1, <3>2 DEF MO!Newer
    <3> QED
      BY <2>2, <2>3, <3>1, <3>3, <3>4
  <2> QED
    BY <2>4
<1>9. PICK p \in MO!New \ Shown : MO!Newer(p) \subseteq Shown
  BY <1>8
<1>10. Cardinality(MO!Newer(p)) <= Cardinality(Shown)
  BY <1>2, <1>3, <1>9, FS_Subset
<1>11. ~ (Cardinality(MO!Newer(p)) < MO!Room)
  BY <1>7, <1>9 DEF Shown
<1>12. MO!Room = IF Cardinality(L) < MaxIssues THEN MaxIssues - Cardinality(L) ELSE 1
  BY <1>7 DEF MO!Room
<1>13. Cardinality(Shown) \in Nat /\ Cardinality(MO!Newer(p)) \in Nat
  BY <1>2, <1>3
<1> HIDE DEF L
<1>14. Cardinality(L) + Cardinality(Shown) >= MaxIssues
  BY <1>6, <1>10, <1>11, <1>12, <1>13, PartsAssumption
<1> QED
  BY <1>6, <1>7, <1>14

LEMMA NewestShown ==
    ASSUME Snapshot, NEW o \in MO!New \ Shown, NEW p \in Shown
    PROVE  MO!At(p) > MO!At(o)
<1>1. p \in MO!New /\ \A r \in MO!New : MO!At(r) \in Nat
  BY DEF Snapshot, MO!New, Shown
<1>2. SUFFICES ASSUME ~ (MO!At(p) > MO!At(o)) PROVE FALSE
  OBVIOUS
<1>3. MO!Newer(o) \subseteq MO!Newer(p)
  BY <1>1, <1>2 DEF MO!Newer
<1>4. IsFiniteSet(MO!New) /\ MO!Newer(o) \subseteq MO!New /\ MO!Newer(p) \subseteq MO!New
  BY FiniteIssues DEF MO!Newer
<1>5. /\ IsFiniteSet(MO!Newer(o)) /\ IsFiniteSet(MO!Newer(p))
      /\ Cardinality(MO!Newer(o)) <= Cardinality(MO!Newer(p))
  BY <1>3, <1>4, FS_Subset
<1>6. Cardinality(MO!Newer(o)) \in Nat /\ Cardinality(MO!Newer(p)) \in Nat
  BY <1>5, FS_CardinalityType
<1>7. Cardinality(MO!Newer(p)) < MO!Room /\ ~ (Cardinality(MO!Newer(o)) < MO!Room)
  BY SameCardinality DEF Shown
<1>8. MO!Room \in Int
  <2>1. Cardinality(MO!ListIssues) \in Nat
    BY FiniteIssues, FS_CardinalityType
  <2> QED
    BY <2>1, SameCardinality, PartsAssumption DEF MO!Room
<1> QED
  BY <1>5, <1>6, <1>7, <1>8

LEMMA PageOfSnapshot == Snapshot => PageAgrees
<1> SUFFICES ASSUME Snapshot, MO!Done PROVE PageAgrees
  BY DEF PageAgrees, MO!PageAgrees
<1>1. ASSUME NEW o \in MO!All("events") \ {MO!Nameless}
      PROVE  \/ \E i \in MO!buildMonitorIssues : i.object = o
             \/ /\ MO!Cardinality(MO!buildMonitorIssues) >= MaxIssues
                /\ \A p \in MO!New :
                      MO!Issue(p, "event", FALSE) \in MO!buildMonitorIssues => MO!At(p) > MO!At(o)
  <2>1. CASE o \in MO!New \ Shown
    BY <2>1, FullPage, NewestShown, ShownIssue
  <2> QED
    BY <2>1, ShownIssue
<1> QED
  BY <1>1, HealthyPage, CriticalPage, CriticalIssue DEF PageAgrees, MO!PageAgrees, Dns

(* Every list that is read keeps the snapshot as it should be.              *)
LEMMA WorldKept ==
    ASSUME world \in Worlds, changes \in Nat, MO!Change
    PROVE  world' \in Worlds
<1>1. CASE \E n \in {n1, n2}, s \in MO!NodeStates : world' = [world EXCEPT !.node[n] = s]
  <2>1. PICK n \in {n1, n2}, s \in MO!NodeStates : world' = [world EXCEPT !.node[n] = s]
    BY <1>1
  <2>2. world' = [world EXCEPT !.node = [world.node EXCEPT ![n] = s]]
    BY <2>1 DEF Worlds
  <2>3. [world.node EXCEPT ![n] = s] \in [{n1, n2} -> MO!NodeStates]
    BY DEF Worlds
  <2> QED
    BY <2>2, <2>3 DEF Worlds
<1>2. CASE \E p \in MO!Pods, s \in MO!PodStates : world' = [world EXCEPT !.pod[p] = s]
  <2>1. PICK p \in MO!Pods, s \in MO!PodStates : world' = [world EXCEPT !.pod[p] = s]
    BY <1>2
  <2>2. world' = [world EXCEPT !.pod = [world.pod EXCEPT ![p] = s]]
    BY <2>1 DEF Worlds
  <2>3. [world.pod EXCEPT ![p] = s] \in [MO!Pods -> MO!PodStates]
    BY DEF Worlds
  <2> QED
    BY <2>2, <2>3 DEF Worlds
<1>3. CASE \E s \in MO!ClaimStates : world' = [world EXCEPT !.claim = s]
  BY <1>3 DEF Worlds
<1>4. CASE \E o \in MO!Warned : world' = [world EXCEPT !.warned[o] = changes + 1]
  <2>1. PICK o \in MO!Warned : world' = [world EXCEPT !.warned[o] = changes + 1]
    BY <1>4
  <2>2. world' = [world EXCEPT !.warned = [world.warned EXCEPT ![o] = changes + 1]]
    BY <2>1 DEF Worlds
  <2>3. [world.warned EXCEPT ![o] = changes + 1] \in [MO!Warned -> Nat]
    BY DEF Worlds
  <2> QED
    BY <2>2, <2>3 DEF Worlds
<1> QED
  BY <1>1, <1>2, <1>3, <1>4 DEF MO!Change

LEMMA ItemsFinite ==
    ASSUME world \in Worlds, NEW l
    PROVE  IsFiniteSet(DOMAIN MO!Items(l))
<1>1. IsFiniteSet({n1, n2})
  <2>1. IsFiniteSet({n1}) /\ IsFiniteSet({n2})
    BY FS_Singleton
  <2>2. IsFiniteSet({n1} \cup {n2})
    BY <2>1, FS_Union
  <2>3. {n1, n2} = {n1} \cup {n2}
    OBVIOUS
  <2> QED
    BY <2>2, <2>3
<1>2. IsFiniteSet(MO!Pods) /\ IsFiniteSet(MO!System)
  <2>1. MO!System = {"dns 1", "dns 2", "proxy"} /\ MO!Pods = {"app", "dns 1", "dns 2", "proxy"}
    BY DEF MO!Pods, MO!System, MO!CoreDNS
  <2>2. IsFiniteSet({"app", "dns 1", "dns 2", "proxy"})
    <3>1. IsFiniteSet({"app"} \cup {"dns 1"})
      BY FS_Singleton, FS_Union
    <3>2. IsFiniteSet(({"app"} \cup {"dns 1"}) \cup {"dns 2"})
      BY <3>1, FS_Singleton, FS_Union
    <3>3. IsFiniteSet((({"app"} \cup {"dns 1"}) \cup {"dns 2"}) \cup {"proxy"})
      BY <3>2, FS_Singleton, FS_Union
    <3>4. {"app", "dns 1", "dns 2", "proxy"} = (({"app"} \cup {"dns 1"}) \cup {"dns 2"}) \cup {"proxy"}
      OBVIOUS
    <3> QED
      BY <3>3, <3>4
  <2> QED
    BY <2>1, <2>2, FS_Subset
<1>3. IsFiniteSet(MO!Warned)
  <2>1. MO!Warned = ({"app"} \cup {"volume"}) \cup {MO!Nameless}
    BY DEF MO!Warned
  <2> QED
    BY <2>1, FS_Singleton, FS_Union
<1>4. IsFiniteSet({"claim"}) /\ IsFiniteSet({})
  BY FS_Singleton, FS_EmptySet
<1>5. /\ l = "nodes" => DOMAIN MO!Items(l) \subseteq {n1, n2}
      /\ l = "pods" => DOMAIN MO!Items(l) \subseteq MO!Pods
      /\ l = "system" => DOMAIN MO!Items(l) \subseteq MO!System
      /\ l = "pvcs" => DOMAIN MO!Items(l) \subseteq {"claim"}
      /\ l = "events" => DOMAIN MO!Items(l) \subseteq MO!Warned
      /\ l \notin {"nodes", "pods", "system", "pvcs", "events"} => DOMAIN MO!Items(l) = {}
  BY DEF MO!Items, MO!Present, MO!Latest, Worlds
<1> QED
  BY <1>1, <1>2, <1>3, <1>4, <1>5, FS_Subset

LEMMA SnapshotKept ==
    ASSUME world \in Worlds, Snapshot, MO!Read
    PROVE  Snapshot'
<1> DEFINE l == MO!Calls[probe + 1]
<1>1. \/ snap' = [snap EXCEPT ![l] = MO!Listing(MO!Items(l))]
      \/ snap' = [snap EXCEPT ![l] = MO!Error]
  BY DEF MO!Read
<1> HIDE DEF l
<1>2. DOMAIN snap' = DOMAIN snap /\ \A k \in DOMAIN snap : k # l => snap'[k] = snap[k]
  BY <1>1
<1>3. l \in DOMAIN snap =>
          \/ snap'[l].failed = FALSE /\ snap'[l].items = MO!Items(l)
          \/ snap'[l].failed = TRUE /\ snap'[l].items = <<>>
  BY <1>1 DEF MO!Listing, MO!Error
<1>4. \A o \in DOMAIN MO!Items("nodes") :
          MO!Items("nodes")[o] \in {"ready", "pressured", "not ready"}
  BY DEF MO!Items, MO!Present, Worlds, MO!NodeStates
<1>5. DOMAIN <<>> = {}
  OBVIOUS
<1>6. \A k \in DOMAIN snap' : MO!Failed(k)' => MO!All(k)' = {}
  BY <1>2, <1>3, <1>5 DEF Snapshot, MO!Failed, MO!All
<1>7. \A o \in MO!All("nodes")' : State("nodes", o)' \in {"ready", "pressured", "not ready"}
  BY <1>2, <1>3, <1>4, <1>5 DEF Snapshot, MO!All, State
<1>8. \A o \in MO!All("events")' : MO!At(o)' \in Nat
  <2>1. \A o \in DOMAIN MO!Items("events") : MO!Items("events")[o] \in Nat
    BY DEF MO!Items, MO!Latest, Worlds
  <2> QED
    BY <1>2, <1>3, <1>5, <2>1 DEF Snapshot, MO!All, MO!At
<1>9. \A k \in DOMAIN snap' : IsFiniteSet(MO!All(k)')
  <2>1. IsFiniteSet(DOMAIN MO!Items(l))
    BY ItemsFinite
  <2> QED
    BY <1>2, <1>3, <1>5, <2>1, FS_EmptySet DEF Snapshot, MO!All
<1> QED
  BY <1>2, <1>6, <1>7, <1>8, <1>9 DEF Snapshot

(* What the checks say and what the issues say agree, of every snapshot the *)
(* lists can give, whatever changes or fails between the lists.             *)
THEOREM PageAlwaysAgrees == FairSpec => []PageAgrees
<1> DEFINE Page == world \in Worlds /\ changes \in Nat /\ Snapshot
<1>1. Init => Page
  <2> SUFFICES ASSUME MO!Init PROVE Page
    BY DEF Init
  <2>1. {MO!Calls[i] : i \in DOMAIN MO!Calls} = {"api", "nodes", "pods", "system", "pvcs", "events"}
    BY DEF MO!Calls
  <2>2. \A l \in DOMAIN snap : snap[l] = MO!None
    BY DEF MO!Init
  <2>3. MO!None.failed = FALSE /\ DOMAIN MO!None.items = {}
    BY DEF MO!None, MO!Listing
  <2>4. world \in Worlds
    BY DEF MO!Init, Worlds, MO!NodeStates, MO!PodStates, MO!ClaimStates
  <2>5. DOMAIN snap = {"api", "nodes", "pods", "system", "pvcs", "events"}
    BY <2>1 DEF MO!Init
  <2>6. \A l \in DOMAIN snap : MO!All(l) = {}
    BY <2>2, <2>3 DEF MO!All
  <2>7. \A l \in DOMAIN snap : IsFiniteSet(MO!All(l))
    BY <2>6, FS_EmptySet
  <2>8. MO!All("events") = {} /\ MO!All("nodes") = {}
    BY <2>5, <2>6
  <2> QED
    BY <2>4, <2>5, <2>6, <2>7, <2>8 DEF MO!Init, Snapshot
<1>2. Page /\ [Next]_allVars => Page'
  <2> SUFFICES ASSUME Page, [Next]_allVars PROVE Page'
    OBVIOUS
  <2>1. MO!Next \/ UNCHANGED moVars
    BY DEF Next, allVars
  <2>2. CASE UNCHANGED <<world, snap, changes>>
    <3>1. world' = world /\ changes' = changes /\ snap' = snap
      BY <2>2
    <3>2. Snapshot'
      BY <3>1 DEF Snapshot, State, MO!Failed, MO!All, MO!At
    <3> QED
      BY <3>1, <3>2
  <2>3. CASE MO!Change
    <3>1. world' \in Worlds /\ changes' \in Nat /\ snap' = snap
      BY <2>3, WorldKept DEF MO!Change
    <3>2. Snapshot'
      BY <3>1 DEF Snapshot, State, MO!Failed, MO!All, MO!At
    <3> QED
      BY <3>1, <3>2
  <2>4. CASE MO!Read
    BY <2>4, SnapshotKept DEF MO!Read
  <2>5. CASE MO!Again
    <3>1. DOMAIN snap' = DOMAIN snap /\ \A l \in DOMAIN snap' : snap'[l] = MO!None
      BY <2>5 DEF MO!Again
    <3>2. MO!None.failed = FALSE /\ DOMAIN MO!None.items = {}
      BY DEF MO!None, MO!Listing
    <3> QED
      BY <2>5, <3>1, <3>2, FS_EmptySet DEF MO!Again, Snapshot, MO!Failed, MO!All
  <2> QED
    BY <2>1, <2>2, <2>3, <2>4, <2>5 DEF MO!Next, MO!Ping, moVars
<1>3. Page => PageAgrees
  BY PageOfSnapshot
<1> QED
  BY <1>1, <1>2, <1>3, PTL DEF FairSpec

----------------------------------------------------------------------------
(* The joins of a mesh.                                                     *)
Anyone == CHOOSE c \in Computers : TRUE
Request == [pc : MJ!Started \cup {"none", "over"}, by : Computers \cup {Anyone}, seen : Int,
            name : Names \cup {1}]
JoinTypes ==
    /\ setup.uses \in Nat /\ uses \in Int /\ spent \in Nat
    /\ machine \in [Names -> Joins \cup {MJ!Nothing}] /\ member \in [Names -> Joins \cup {MJ!Nothing}]
    /\ join \in [Joins -> Request]
    /\ saved \in [Computers -> Joins \cup {MJ!Nothing}] /\ member_of \in [Computers -> BOOLEAN]
    /\ removal \in [pc : {"none", "member", "machine", "told"}, name : Names \cup {1},
                    by : Computers \cup {"admin"}]
    /\ faults \in Nat /\ removals \in Nat

(* Whose rows, credentials and memberships can be there, by how far a join   *)
(* has come.  A computer that runs as a member hears no more of its joins.    *)
Rows == \A n \in Names : machine[n] # MJ!Nothing =>
            join[machine[n]].name = n /\ join[machine[n]].pc \in {"member", "answer", "over"}
Credentials == \A n \in Names : member[n] # MJ!Nothing =>
            join[member[n]].name = n /\ join[member[n]].pc \in {"answer", "over"}
Saved == \A c \in Computers : saved[c] # MJ!Nothing =>
            join[saved[c]].by = c /\ join[saved[c]].pc = "over"
Asked == \A j \in Joins :
            /\ join[j].pc # "none" => join[j].by \in Computers
            /\ join[j].pc \in {"machine", "member", "answer"} => join[j].name \in Names
            /\ join[j].pc \in MJ!Started /\ member_of[join[j].by] => j \in lost
(* A computer that leaves stays a member, of the join it leaves by.           *)
Leaving ==
    /\ removal.pc # "none" => removals > 0
    /\ removal.pc = "told" => removal.by # "admin"
    /\ removal.pc # "none" /\ removal.by # "admin" =>
          /\ member_of[removal.by] /\ saved[removal.by] # MJ!Nothing
          /\ removal.pc # "told" => join[saved[removal.by]].name = removal.name
JoinPlaces == Rows /\ Credentials /\ Saved /\ Asked /\ Leaving

(* The invite.                                                                *)
Invite == setup.db = "sqlite" =>
            uses >= 0 /\ uses + spent = setup.uses /\ \A j \in Joins : join[j].pc # "spend"

(* What stands of a join, until somebody is removed.                          *)
Has(j) == machine[join[j].name] = j /\ member[join[j].name] = j
Standing ==
    removals = 0 =>
        /\ \A j \in Joins : /\ join[j].pc = "member" => machine[join[j].name] = j
                            /\ join[j].pc = "answer" => Has(j)
        /\ \A c \in Computers : saved[c] # MJ!Nothing => join[saved[c]].name \in Names /\ Has(saved[c])

(* Every row of a machine is of somebody, as long as no step fails.           *)
Owned ==
    faults = 0 =>
        /\ \A n \in Names : machine[n] # MJ!Nothing /\ machine[n] \notin lost =>
              join[machine[n]].pc \in MJ!Started \/ saved[join[machine[n]].by] = machine[n]
        /\ \A n \in Names : machine[n] # MJ!Nothing /\ join[machine[n]].pc # "member" =>
              member[n] = machine[n] \/ (removal.pc = "machine" /\ removal.name = n)
        /\ removal.pc = "told" => \A n \in Names : machine[n] # saved[removal.by]
JoinInv == JoinTypes /\ JoinPlaces /\ Invite /\ Standing /\ Owned

----------------------------------------------------------------------------
(* What moves of a join: where it is, and what it has been given on the way.   *)
Others(j) == \A k \in Joins \ {j} : join'[k] = join[k]
Moves(j, to) == /\ Others(j) /\ join' \in [Joins -> Request]
                /\ join'[j].pc = to /\ join'[j].by = join[j].by /\ join'[j].name = join[j].name
LEMMA PcMoves ==
    ASSUME join \in [Joins -> Request], NEW j \in Joins, NEW to \in MJ!Started \cup {"over"}, MJ!Goes(j, to)
    PROVE  Moves(j, to)
<1>1. join[j] \in Request
  OBVIOUS
<1>2. \A r \in Request : /\ [r EXCEPT !.pc = to] \in Request /\ [r EXCEPT !.pc = to].pc = to
                         /\ [r EXCEPT !.pc = to].by = r.by /\ [r EXCEPT !.pc = to].name = r.name
  BY DEF Request
<1>3. join'[j] = [join[j] EXCEPT !.pc = to] /\ \A k \in Joins \ {j} : join'[k] = join[k]
  BY DEF MJ!Goes
<1>4. join' = [k \in Joins |-> join'[k]]
  BY DEF MJ!Goes
<1> QED
  BY <1>1, <1>2, <1>3, <1>4 DEF Moves, Others

----------------------------------------------------------------------------
(* The hub's steps for one join.                                               *)
LEMMA AskStep ==
    ASSUME JoinInv, NEW j \in Joins, NEW c \in Computers, MJ!Ask(j, c)
    PROVE  JoinInv'
<1>1. join[j].pc = "none" /\ ~member_of[c] /\ UNCHANGED <<uses, spent, machine, member, saved, lost, MJ!hub>>
  BY DEF MJ!Ask, MJ!At
<1>2. Others(j) /\ join' \in [Joins -> Request] /\ join'[j].pc = "invite" /\ join'[j].by = c
      /\ join'[j].name = join[j].name
  <2>1. \A r \in Request : LET q == [r EXCEPT !.pc = "invite", !.by = c] IN
            q \in Request /\ q.pc = "invite" /\ q.by = c /\ q.name = r.name
    BY DEF Request, MJ!Started
  <2>2. join \in [Joins -> Request] /\ join[j] \in Request
    BY DEF JoinInv, JoinTypes
  <2>3. join'[j] = [join[j] EXCEPT !.pc = "invite", !.by = c] /\ Others(j)
        /\ join' = [k \in Joins |-> join'[k]]
    BY <2>2 DEF MJ!Ask, Others
  <2> QED
    BY <2>1, <2>2, <2>3 DEF Others
<1>3. UNCHANGED <<setup, uses, spent, machine, member, saved, member_of, removal, lost, faults, removals>>
  BY <1>1 DEF MJ!hub
<1>10. JoinTypes'
  BY <1>1, <1>2, <1>3 DEF JoinInv, JoinTypes
<1>11. JoinPlaces'
  BY <1>1, <1>2, <1>3 DEF JoinInv, JoinTypes, JoinPlaces, Rows, Credentials, Saved, Asked, Leaving, MJ!Started, Others
<1>12. Invite'
  BY <1>1, <1>2, <1>3 DEF JoinInv, JoinTypes, Invite, Others
<1>13. Standing'
  BY <1>1, <1>2, <1>3 DEF JoinInv, JoinTypes, JoinPlaces, Rows, Credentials, Saved, Asked, Leaving, Standing, Has, MJ!Started, Others
<1>14. Owned'
  BY <1>1, <1>2, <1>3 DEF JoinInv, JoinTypes, JoinPlaces, Rows, Credentials, Saved, Asked, Leaving, Owned, MJ!Started, Others
<1> QED
  BY <1>10, <1>11, <1>12, <1>13, <1>14 DEF JoinInv

(* A join that moves by itself: it ends, it takes the invite, or it has found  *)
(* a free name.                                                                *)
Alone == UNCHANGED <<setup, machine, member, saved, member_of, removal, lost, faults, removals>>
LEMMA MovesAlone ==
    ASSUME JoinInv, NEW j \in Joins, Others(j), join' \in [Joins -> Request], Alone,
           join'[j].by = join[j].by,
           \/ join[j].pc \in {"invite", "name", "machine"} /\ join'[j].pc = "over" /\ UNCHANGED <<uses, spent>>
           \/ join[j].pc = "invite" /\ join'[j].pc = "spend" /\ setup.db # "sqlite" /\ UNCHANGED <<uses, spent>>
           \/ /\ join[j].pc \in {"invite", "spend"} /\ join'[j].pc = "name"
              /\ uses' \in Int /\ spent' = spent + 1
              /\ setup.db = "sqlite" => uses # 0 /\ uses' = uses - 1
           \/ /\ join[j].pc = "name" /\ join'[j].pc = "machine" /\ join'[j].name \in Names
              /\ UNCHANGED <<uses, spent>>
    PROVE  JoinInv'
<1>1. Alone
  OBVIOUS
<1>10. JoinTypes'
  BY <1>1 DEF JoinInv, JoinTypes, Others, Moves, Alone
<1>11. JoinPlaces'
  BY <1>1 DEF JoinInv, JoinTypes, JoinPlaces, Rows, Credentials, Saved, Asked, Leaving, MJ!Started, Others, Moves, Alone
<1>12. Invite'
  BY <1>1 DEF JoinInv, JoinTypes, Invite, Others, Moves, Alone
<1>13. Standing'
  BY <1>1 DEF JoinInv, JoinTypes, JoinPlaces, Rows, Credentials, Saved, Asked, Leaving, Standing, Has, MJ!Started, Others, Moves, Alone
<1>14. Owned'
  BY <1>1 DEF JoinInv, JoinTypes, JoinPlaces, Rows, Credentials, Saved, Asked, Leaving, Owned, MJ!Started, Others, Moves, Alone
<1> QED
  BY <1>10, <1>11, <1>12, <1>13, <1>14 DEF JoinInv

LEMMA ConsumeStep ==
    ASSUME JoinInv, NEW j \in Joins, MJ!Consume(j) \/ MJ!Spend(j) \/ MJ!Name(j)
    PROVE  JoinInv'
<1>1. Alone
  BY DEF MJ!Consume, MJ!Spend, MJ!Name, MJ!hub, Alone
<1>2. join \in [Joins -> Request] /\ join[j] \in Request /\ uses \in Int /\ join[j].seen \in Int
  BY DEF JoinInv, JoinTypes, Request
<1>3. CASE MJ!Goes(j, "over") /\ UNCHANGED <<uses, spent>> /\ join[j].pc \in {"invite", "name"}
  <2>1. Moves(j, "over")
    BY <1>2, <1>3, PcMoves
  <2> QED
    BY <1>1, <1>3, <2>1, MovesAlone DEF Moves
<1>4. CASE /\ MJ!Goes(j, "name") /\ join[j].pc \in {"invite", "spend"} /\ spent' = spent + 1 /\ uses' \in Int
           /\ setup.db = "sqlite" => uses # 0 /\ uses' = uses - 1
  <2>1. Moves(j, "name")
    BY <1>2, <1>4, PcMoves DEF MJ!Started
  <2> QED
    BY <1>1, <1>4, <2>1, MovesAlone DEF Moves
<1>5. CASE /\ join' = [join EXCEPT ![j].pc = "spend", ![j].seen = uses]
           /\ join[j].pc = "invite" /\ setup.db # "sqlite" /\ UNCHANGED <<uses, spent>>
  <2>1. \A r \in Request : LET q == [r EXCEPT !.pc = "spend", !.seen = uses] IN
            q \in Request /\ q.pc = "spend" /\ q.by = r.by
    BY <1>2 DEF Request, MJ!Started
  <2>2. join'[j] = [join[j] EXCEPT !.pc = "spend", !.seen = uses] /\ Others(j)
        /\ join' = [k \in Joins |-> join'[k]]
    BY <1>2, <1>5 DEF Others
  <2>3. join' \in [Joins -> Request] /\ join'[j].pc = "spend" /\ join'[j].by = join[j].by
    BY <1>2, <2>1, <2>2 DEF Others
  <2> QED
    BY <1>1, <1>5, <2>2, <2>3, MovesAlone
<1>6. CASE \E n \in Names : /\ join' = [join EXCEPT ![j].pc = "machine", ![j].name = n]
                             /\ join[j].pc = "name" /\ UNCHANGED <<uses, spent>>
  <2>1. PICK n \in Names : join' = [join EXCEPT ![j].pc = "machine", ![j].name = n]
    BY <1>6
  <2>2. \A r \in Request : LET q == [r EXCEPT !.pc = "machine", !.name = n] IN
            q \in Request /\ q.pc = "machine" /\ q.by = r.by /\ q.name = n
    BY DEF Request, MJ!Started
  <2>3. join'[j] = [join[j] EXCEPT !.pc = "machine", !.name = n] /\ Others(j)
        /\ join' = [k \in Joins |-> join'[k]]
    BY <1>2, <2>1 DEF Others
  <2>4. join' \in [Joins -> Request] /\ join'[j].pc = "machine" /\ join'[j].by = join[j].by
        /\ join'[j].name \in Names
    BY <1>2, <2>2, <2>3 DEF Others
  <2> QED
    BY <1>1, <1>6, <2>3, <2>4, MovesAlone
<1>7. CASE MJ!Consume(j)
  <2>1. uses - 1 \in Int
    BY <1>2
  <2> QED
    BY <1>3, <1>4, <1>5, <1>7, <2>1 DEF MJ!Consume, MJ!At
<1>8. CASE MJ!Spend(j)
  <2>1. setup.db # "sqlite" /\ join[j].seen - 1 \in Int
    BY <1>2, <1>8 DEF MJ!Spend, MJ!At, JoinInv, Invite
  <2> QED
    BY <1>4, <1>8, <2>1 DEF MJ!Spend, MJ!At
<1>9. CASE MJ!Name(j)
  BY <1>3, <1>6, <1>9 DEF MJ!Name, MJ!At
<1> QED
  BY <1>7, <1>8, <1>9

LEMMA AddMachineStep ==
    ASSUME JoinInv, MJ!Nothing \notin Joins, NEW j \in Joins, MJ!AddMachine(j)
    PROVE  JoinInv'
<1>1. /\ join \in [Joins -> Request] /\ join[j].pc = "machine" /\ join[j].name \in Names
      /\ UNCHANGED <<uses, spent, member, saved, lost, setup, member_of, removal, faults, removals>>
  BY DEF MJ!AddMachine, MJ!At, MJ!hub, JoinInv, JoinTypes, JoinPlaces, Asked
<1>2. CASE machine[join[j].name] # MJ!Nothing
  <2>1. Moves(j, "over") /\ UNCHANGED machine
    BY <1>1, <1>2, PcMoves DEF MJ!AddMachine
  <2> QED
    BY <1>1, <2>1, MovesAlone DEF Moves, Alone
<1>3. CASE machine[join[j].name] = MJ!Nothing
  <2>1. Moves(j, "member") /\ machine' = [machine EXCEPT ![join[j].name] = j]
    BY <1>1, <1>3, PcMoves DEF MJ!AddMachine, MJ!Started
  <2>10. JoinTypes'
    BY <1>1, <1>3, <2>1 DEF JoinInv, JoinTypes, Others, Moves
  <2>11. JoinPlaces'
    BY <1>1, <1>3, <2>1 DEF JoinInv, JoinTypes, JoinPlaces, Rows, Credentials, Saved, Asked, Leaving, MJ!Started, Others, Moves
  <2>12. Invite'
    BY <1>1, <1>3, <2>1 DEF JoinInv, JoinTypes, Invite, Others, Moves
  <2>13. Standing'
    BY <1>1, <1>3, <2>1 DEF JoinInv, JoinTypes, JoinPlaces, Rows, Credentials, Saved, Asked, Leaving, Standing, Has, MJ!Started, Others, Moves
  <2>14. Owned'
    BY <1>1, <1>3, <2>1 DEF JoinInv, JoinTypes, JoinPlaces, Rows, Credentials, Saved, Asked, Leaving, Owned, MJ!Started, Others, Moves
  <2> QED
    BY <2>10, <2>11, <2>12, <2>13, <2>14 DEF JoinInv
<1> QED
  BY <1>2, <1>3

LEMMA AddMemberStep ==
    ASSUME JoinInv, MJ!Nothing \notin Joins, NEW j \in Joins, MJ!AddMember(j)
    PROVE  JoinInv'
<1>1. /\ join \in [Joins -> Request] /\ join[j].pc = "member" /\ join[j].name \in Names
      /\ UNCHANGED <<uses, spent, saved, lost, setup, member_of, removal, faults, removals>>
  BY DEF MJ!AddMember, MJ!At, MJ!hub, JoinInv, JoinTypes, JoinPlaces, Asked
<1>2. \/ /\ Moves(j, "answer") /\ member[join[j].name] = MJ!Nothing
         /\ member' = [member EXCEPT ![join[j].name] = j] /\ UNCHANGED machine
      \/ /\ Moves(j, "over") /\ member[join[j].name] # MJ!Nothing
         /\ machine' = [machine EXCEPT ![join[j].name] = MJ!Nothing] /\ UNCHANGED member
  BY <1>1, PcMoves DEF MJ!AddMember, MJ!Started
<1>10. JoinTypes'
  BY <1>1, <1>2 DEF JoinInv, JoinTypes, Others, Moves
<1>11. JoinPlaces'
  BY <1>1, <1>2 DEF JoinInv, JoinTypes, JoinPlaces, Rows, Credentials, Saved, Asked, Leaving, MJ!Started, Others, Moves
<1>12. Invite'
  BY <1>1, <1>2 DEF JoinInv, JoinTypes, Invite, Others, Moves
<1>13. Standing'
  BY <1>1, <1>2 DEF JoinInv, JoinTypes, JoinPlaces, Rows, Credentials, Saved, Asked, Leaving, Standing, Has, MJ!Started, Others, Moves
<1>14. Owned'
  BY <1>1, <1>2 DEF JoinInv, JoinTypes, JoinPlaces, Rows, Credentials, Saved, Asked, Leaving, Owned, MJ!Started, Others, Moves
<1> QED
  BY <1>10, <1>11, <1>12, <1>13, <1>14 DEF JoinInv

LEMMA AnswerStep ==
    ASSUME JoinInv, MJ!Nothing \notin Joins, NEW j \in Joins, MJ!Answer(j)
    PROVE  JoinInv'
<1>1. /\ join \in [Joins -> Request] /\ join[j].pc = "answer" /\ join[j].name \in Names
      /\ join[j].by \in Computers
      /\ UNCHANGED <<uses, spent, machine, member, setup, member_of, removal, faults, removals>>
  BY DEF MJ!Answer, MJ!At, MJ!hub, JoinInv, JoinTypes, JoinPlaces, Asked
<1>2. Moves(j, "over")
  BY <1>1, PcMoves DEF MJ!Answer
<1>3. \/ j \in lost /\ UNCHANGED <<saved, lost>>
      \/ /\ j \notin lost /\ saved' = [saved EXCEPT ![join[j].by] = j]
         /\ lost' = lost \cup ({saved[join[j].by]} \ {MJ!Nothing})
  BY DEF MJ!Answer
<1>10. JoinTypes'
  BY <1>1, <1>2, <1>3 DEF JoinInv, JoinTypes, Others, Moves
<1>11. JoinPlaces'
  BY <1>1, <1>2, <1>3 DEF JoinInv, JoinTypes, JoinPlaces, Rows, Credentials, Saved, Asked, Leaving, MJ!Started, Others, Moves
<1>12. Invite'
  BY <1>1, <1>2, <1>3 DEF JoinInv, JoinTypes, Invite, Others, Moves
<1>13. Standing'
  BY <1>1, <1>2, <1>3 DEF JoinInv, JoinTypes, JoinPlaces, Rows, Credentials, Saved, Asked, Leaving, Standing, Has, MJ!Started, Others, Moves
<1>14. Owned'
  BY <1>1, <1>2, <1>3 DEF JoinInv, JoinTypes, JoinPlaces, Rows, Credentials, Saved, Asked, Leaving, Owned, MJ!Started, Others, Moves
<1> QED
  BY <1>10, <1>11, <1>12, <1>13, <1>14 DEF JoinInv

LEMMA JoinErrsStep ==
    ASSUME JoinInv, MJ!Nothing \notin Joins, NEW j \in Joins, MJ!JoinErrs(j)
    PROVE  JoinInv'
<1>1. /\ join \in [Joins -> Request] /\ join[j].pc \in MJ!Started
      /\ UNCHANGED <<setup, uses, spent, member, saved, member_of, removal, removals>>
      /\ faults' = faults + 1 /\ lost' = lost \cup {j}
  BY DEF MJ!JoinErrs, JoinInv, JoinTypes
<1>2. Moves(j, "over")
  BY <1>1, PcMoves DEF MJ!JoinErrs
<1>3. machine' = IF join[j].pc = "member" THEN [machine EXCEPT ![join[j].name] = MJ!Nothing] ELSE machine
  BY DEF MJ!JoinErrs, MJ!At
<1>4. machine' \in [Names -> Joins \cup {MJ!Nothing}]
  <2>1. machine \in [Names -> Joins \cup {MJ!Nothing}]
    BY DEF JoinInv, JoinTypes
  <2> QED
    BY <1>3, <2>1
<1>10. JoinTypes'
  BY <1>1, <1>2, <1>3, <1>4 DEF JoinInv, JoinTypes, Others, Moves
<1>11. JoinPlaces'
  BY <1>1, <1>2, <1>3, <1>4 DEF JoinInv, JoinTypes, JoinPlaces, Rows, Credentials, Saved, Asked, Leaving, MJ!Started, Others, Moves
<1>12. Invite'
  BY <1>1, <1>2, <1>3, <1>4 DEF JoinInv, JoinTypes, Invite, Others, Moves
<1>13. Standing'
  BY <1>1, <1>2, <1>3, <1>4 DEF JoinInv, JoinTypes, JoinPlaces, Rows, Credentials, Saved, Asked, Leaving, Standing, Has, MJ!Started, Others, Moves
<1>14. Owned'
  BY <1>1, <1>2, <1>3, <1>4 DEF JoinInv, JoinTypes, JoinPlaces, Rows, Credentials, Saved, Asked, Leaving, Owned, MJ!Started, Others, Moves
<1> QED
  BY <1>10, <1>11, <1>12, <1>13, <1>14 DEF JoinInv

----------------------------------------------------------------------------
(* What ends joins from outside, and the removals.                             *)
LEMMA HubDiesStep ==
    ASSUME JoinInv, MJ!Nothing \notin Joins, MJ!HubDies
    PROVE  JoinInv'
<1>1. /\ UNCHANGED <<setup, uses, spent, machine, member, saved, member_of, removals>>
      /\ faults' = faults + 1 /\ lost' = lost \cup {j \in Joins : join[j].pc \in MJ!Started}
  BY DEF MJ!HubDies
<1>2. join' \in [Joins -> Request] /\ \A j \in Joins :
          /\ join'[j].pc = IF join[j].pc \in MJ!Started THEN "over" ELSE join[j].pc
          /\ join'[j].by = join[j].by /\ join'[j].name = join[j].name
  <2>1. \A r \in Request : /\ [r EXCEPT !.pc = "over"] \in Request /\ [r EXCEPT !.pc = "over"].pc = "over"
                           /\ [r EXCEPT !.pc = "over"].by = r.by /\ [r EXCEPT !.pc = "over"].name = r.name
    BY DEF Request
  <2>2. \A j \in Joins : join[j] \in Request
    BY DEF JoinInv, JoinTypes
  <2>3. join' = [j \in Joins |-> join'[j]]
        /\ \A j \in Joins : join'[j] = IF join[j].pc \in MJ!Started THEN [join[j] EXCEPT !.pc = "over"] ELSE join[j]
    BY DEF MJ!HubDies
  <2> QED
    BY <2>1, <2>2, <2>3
<1>3. /\ removal' \in [pc : {"none", "member", "machine", "told"}, name : Names \cup {1},
                       by : Computers \cup {"admin"}]
      /\ removal'.pc = "none"
  BY DEF MJ!HubDies, JoinInv, JoinTypes
<1>10. JoinTypes'
  BY <1>1, <1>2, <1>3 DEF JoinInv, JoinTypes
<1>11. JoinPlaces'
  BY <1>1, <1>2, <1>3 DEF JoinInv, JoinTypes, JoinPlaces, Rows, Credentials, Saved, Asked, Leaving, MJ!Started
<1>12. Invite'
  BY <1>1, <1>2, <1>3 DEF JoinInv, JoinTypes, Invite
<1>13. Standing'
  BY <1>1, <1>2, <1>3 DEF JoinInv, JoinTypes, JoinPlaces, Rows, Credentials, Saved, Asked, Leaving, Standing, Has, MJ!Started
<1>14. Owned'
  BY <1>1, <1>2, <1>3 DEF JoinInv, JoinTypes, JoinPlaces, Rows, Credentials, Saved, Asked, Leaving, Owned, MJ!Started
<1> QED
  BY <1>10, <1>11, <1>12, <1>13, <1>14 DEF JoinInv

LEMMA RestartStep ==
    ASSUME JoinInv, MJ!Nothing \notin Joins, "admin" \notin Computers, NEW c \in Computers, MJ!Restart(c)
    PROVE  JoinInv'
<1>1. /\ UNCHANGED <<setup, uses, spent, machine, member, join, saved, faults, removals>>
      /\ member_of' = [member_of EXCEPT ![c] = saved[c] # MJ!Nothing]
      /\ lost' = lost \cup {j \in Joins : join[j].by = c /\ join[j].pc \in MJ!Started}
      /\ member_of[c] # (saved[c] # MJ!Nothing)
  BY DEF MJ!Restart
<1>2. removal' \in [pc : {"none", "member", "machine", "told"}, name : Names \cup {1},
                    by : Computers \cup {"admin"}]
      /\ (removal' = removal \/ (removal.pc = "none" /\ removal'.pc = "none"))
  <2>1. removal.by = c => removal.pc = "none"
    BY <1>1 DEF JoinInv, JoinTypes, JoinPlaces, Leaving
  <2>2. CASE removal.by # c
    BY <2>2 DEF MJ!Restart, JoinInv, JoinTypes
  <2>3. CASE removal.by = c
    <3>1. removal.pc = "none" /\ removal' = [removal EXCEPT !.by = "admin", !.pc = "none"]
      <4>1. removal.pc = "none" /\ removal' = [removal EXCEPT !.by = "admin", !.pc = removal.pc]
        BY <2>1, <2>3 DEF MJ!Restart
      <4> QED
        BY <4>1
    <3> QED
      BY <3>1 DEF JoinInv, JoinTypes
  <2> QED
    BY <2>2, <2>3
<1>10. JoinTypes'
  BY <1>1, <1>2 DEF JoinInv, JoinTypes
<1>11. JoinPlaces'
  BY <1>1, <1>2 DEF JoinInv, JoinTypes, JoinPlaces, Rows, Credentials, Saved, Asked, Leaving, MJ!Started
<1>12. Invite'
  BY <1>1, <1>2 DEF JoinInv, JoinTypes, Invite
<1>13. Standing'
  BY <1>1, <1>2 DEF JoinInv, JoinTypes, JoinPlaces, Rows, Credentials, Saved, Asked, Leaving, Standing, Has, MJ!Started
<1>14. Owned'
  BY <1>1, <1>2 DEF JoinInv, JoinTypes, JoinPlaces, Rows, Credentials, Saved, Asked, Leaving, Owned, MJ!Started
<1> QED
  BY <1>10, <1>11, <1>12, <1>13, <1>14 DEF JoinInv

LEMMA RemovalBegins ==
    ASSUME JoinInv, MJ!Nothing \notin Joins, "admin" \notin Computers,
           (\E c \in Computers : MJ!Leave(c)) \/ \E n \in Names : MJ!Remove(n)
    PROVE  JoinInv'
<1>1. /\ UNCHANGED <<setup, uses, spent, machine, member, join, saved, member_of, lost, faults>>
      /\ removals' = removals + 1 /\ removal.pc = "none"
  BY DEF MJ!Leave, MJ!Remove
<1>2. removal' \in [pc : {"none", "member", "machine", "told"}, name : Names \cup {1},
                    by : Computers \cup {"admin"}]
      /\ \/ removal'.pc = "member" /\ removal'.by = "admin"
         \/ /\ removal'.pc = "member" /\ removal'.by \in Computers
            /\ member_of[removal'.by] /\ saved[removal'.by] # MJ!Nothing
            /\ removal'.name \in Names /\ member[removal'.name] = saved[removal'.by]
         \/ /\ removal'.pc = "told" /\ removal'.by \in Computers
            /\ member_of[removal'.by] /\ saved[removal'.by] # MJ!Nothing
            /\ \A n \in Names : member[n] # saved[removal'.by]
  <2>1. CASE \E n \in Names : MJ!Remove(n)
    BY <2>1 DEF MJ!Remove
  <2>2. ASSUME NEW c \in Computers, MJ!Leave(c), MJ!Known(saved[c])
        PROVE  <1>2!1 /\ <1>2!2!2
    <3>1. MJ!NameOf(saved[c]) \in Names /\ member[MJ!NameOf(saved[c])] = saved[c]
      BY <2>2 DEF MJ!Known, MJ!NameOf
    <3>2. removal' = [pc |-> "member", name |-> MJ!NameOf(saved[c]), by |-> c]
      BY <2>2 DEF MJ!Leave
    <3> QED
      BY <2>2, <3>1, <3>2 DEF MJ!Leave
  <2>3. ASSUME NEW c \in Computers, MJ!Leave(c), ~MJ!Known(saved[c])
        PROVE  <1>2!1 /\ <1>2!2!3
    BY <2>3 DEF MJ!Leave, MJ!Known
  <2> QED
    BY <2>1, <2>2, <2>3
<1>10. JoinTypes'
  BY <1>1, <1>2 DEF JoinInv, JoinTypes
<1>11. JoinPlaces'
  BY <1>1, <1>2 DEF JoinInv, JoinTypes, JoinPlaces, Rows, Credentials, Saved, Asked, Leaving, MJ!Started
<1>12. Invite'
  BY <1>1, <1>2 DEF JoinInv, JoinTypes, Invite
<1>13. Standing'
  BY <1>1, <1>2 DEF JoinInv, JoinTypes, JoinPlaces, Rows, Credentials, Saved, Asked, Leaving, Standing, Has, MJ!Started
<1>14. Owned'
  BY <1>1, <1>2 DEF JoinInv, JoinTypes, JoinPlaces, Rows, Credentials, Saved, Asked, Leaving, Owned, MJ!Started
<1> QED
  BY <1>10, <1>11, <1>12, <1>13, <1>14 DEF JoinInv

LEMMA DropStep ==
    ASSUME JoinInv, MJ!Nothing \notin Joins, "admin" \notin Computers, MJ!DropMember \/ MJ!DropMachine
    PROVE  JoinInv'
<1>1. UNCHANGED <<setup, uses, spent, join, saved, member_of, lost, faults, removals>>
  BY DEF MJ!DropMember, MJ!DropMachine, MJ!rest
<1>2. removal' \in [pc : {"none", "member", "machine", "told"}, name : Names \cup {1},
                    by : Computers \cup {"admin"}]
      /\ removal'.by = removal.by /\ removal'.name = removal.name
  BY DEF MJ!DropMember, MJ!DropMachine, JoinInv, JoinTypes
<1>3. \/ /\ removal.pc = "member" /\ removal'.pc = "machine" /\ UNCHANGED machine
         /\ member' = [member EXCEPT ![removal.name] = MJ!Nothing]
      \/ /\ removal.pc = "machine" /\ UNCHANGED member
         /\ removal'.pc = IF removal.by = "admin" THEN "none" ELSE "told"
         /\ machine' = [machine EXCEPT ![removal.name] = MJ!Nothing]
  BY DEF MJ!DropMember, MJ!DropMachine, JoinInv, JoinTypes
<1>10. JoinTypes'
  BY <1>1, <1>2, <1>3 DEF JoinInv, JoinTypes
<1>11. JoinPlaces'
  BY <1>1, <1>2, <1>3 DEF JoinInv, JoinTypes, JoinPlaces, Rows, Credentials, Saved, Asked, Leaving, MJ!Started
<1>12. Invite'
  BY <1>1, <1>2, <1>3 DEF JoinInv, JoinTypes, Invite
<1>13. Standing'
  BY <1>1, <1>2, <1>3 DEF JoinInv, JoinTypes, JoinPlaces, Rows, Credentials, Saved, Asked, Leaving, Standing, Has, MJ!Started
<1>14. Owned'
  BY <1>1, <1>2, <1>3 DEF JoinInv, JoinTypes, JoinPlaces, Rows, Credentials, Saved, Asked, Leaving, Owned, MJ!Started
<1> QED
  BY <1>10, <1>11, <1>12, <1>13, <1>14 DEF JoinInv

LEMMA ForgetStep ==
    ASSUME JoinInv, MJ!Nothing \notin Joins, "admin" \notin Computers, MJ!Forget
    PROVE  JoinInv'
<1>1. UNCHANGED <<setup, uses, spent, machine, member, join, member_of, lost, faults, removals>>
  BY DEF MJ!Forget, MJ!rest
<1>2. removal' \in [pc : {"none", "member", "machine", "told"}, name : Names \cup {1},
                    by : Computers \cup {"admin"}]
      /\ removal.pc = "told" /\ removal'.pc = "none"
  BY DEF MJ!Forget, JoinInv, JoinTypes
<1>3. saved' = [saved EXCEPT ![removal.by] = MJ!Nothing]
  BY DEF MJ!Forget
<1>10. JoinTypes'
  BY <1>1, <1>2, <1>3 DEF JoinInv, JoinTypes
<1>11. JoinPlaces'
  BY <1>1, <1>2, <1>3 DEF JoinInv, JoinTypes, JoinPlaces, Rows, Credentials, Saved, Asked, Leaving, MJ!Started
<1>12. Invite'
  BY <1>1, <1>2, <1>3 DEF JoinInv, JoinTypes, Invite
<1>13. Standing'
  BY <1>1, <1>2, <1>3 DEF JoinInv, JoinTypes, JoinPlaces, Rows, Credentials, Saved, Asked, Leaving, Standing, Has, MJ!Started
<1>14. Owned'
  BY <1>1, <1>2, <1>3 DEF JoinInv, JoinTypes, JoinPlaces, Rows, Credentials, Saved, Asked, Leaving, Owned, MJ!Started
<1> QED
  BY <1>10, <1>11, <1>12, <1>13, <1>14 DEF JoinInv

LEMMA RemovalErrsStep ==
    ASSUME JoinInv, MJ!Nothing \notin Joins, "admin" \notin Computers, MJ!RemovalErrs
    PROVE  JoinInv'
<1>1. /\ UNCHANGED <<setup, uses, spent, machine, member, join, saved, member_of, lost, removals>>
      /\ faults' = faults + 1 /\ removal.pc # "none"
  BY DEF MJ!RemovalErrs
<1>2. removal' \in [pc : {"none", "member", "machine", "told"}, name : Names \cup {1},
                    by : Computers \cup {"admin"}]
      /\ \/ removal'.pc = "none"
         \/ removal'.pc = "told" /\ removal'.by = removal.by /\ removal.by # "admin"
  BY DEF MJ!RemovalErrs, JoinInv, JoinTypes
<1>10. JoinTypes'
  BY <1>1, <1>2 DEF JoinInv, JoinTypes
<1>11. JoinPlaces'
  BY <1>1, <1>2 DEF JoinInv, JoinTypes, JoinPlaces, Rows, Credentials, Saved, Asked, Leaving, MJ!Started
<1>12. Invite'
  BY <1>1, <1>2 DEF JoinInv, JoinTypes, Invite
<1>13. Standing'
  BY <1>1, <1>2 DEF JoinInv, JoinTypes, JoinPlaces, Rows, Credentials, Saved, Asked, Leaving, Standing, Has, MJ!Started
<1>14. Owned'
  BY <1>1, <1>2 DEF JoinInv, JoinTypes, JoinPlaces, Rows, Credentials, Saved, Asked, Leaving, Owned, MJ!Started
<1> QED
  BY <1>10, <1>11, <1>12, <1>13, <1>14 DEF JoinInv

----------------------------------------------------------------------------
LEMMA JoinIsInductive ==
    ASSUME JoinInv, [MJ!Next]_MJ!vars
    PROVE  JoinInv'
<1>0. MJ!Nothing \notin Joins /\ "admin" \notin Computers
  BY PartsAssumption DEF MJ!Nothing
<1>1. CASE UNCHANGED MJ!vars
  BY <1>1 DEF MJ!vars, JoinInv, JoinTypes, JoinPlaces, Rows, Credentials, Saved, Asked, Leaving, Invite, Standing, Has, Owned
<1>2. CASE MJ!Next
  BY <1>0, <1>2, AskStep, ConsumeStep, AddMachineStep, AddMemberStep, AnswerStep, JoinErrsStep, HubDiesStep,
     RestartStep, RemovalBegins, DropStep, ForgetStep, RemovalErrsStep DEF MJ!Next
<1> QED
  BY <1>1, <1>2

LEMMA JoinAtFirst ==
    ASSUME MJ!Init
    PROVE  JoinInv
<1>1. setup.uses \in Nat /\ uses = setup.uses /\ spent = 0
  BY PartsAssumption DEF MJ!Init
<1>2. JoinTypes
  BY <1>1 DEF MJ!Init, JoinTypes, Request, Anyone, MJ!Nothing
<1>3. JoinPlaces
  BY DEF MJ!Init, JoinPlaces, Rows, Credentials, Saved, Asked, Leaving, MJ!Started
<1>4. Invite /\ Standing /\ Owned
  BY <1>1 DEF MJ!Init, Invite, Standing, Has, Owned
<1> QED
  BY <1>2, <1>3, <1>4 DEF JoinInv

LEMMA JoinSuffices == JoinInv => MJ!JoinKept
<1> SUFFICES ASSUME JoinInv PROVE MJ!JoinKept
  OBVIOUS
<1>1. MJ!InviteKept
  BY DEF JoinInv, JoinTypes, Invite, MJ!InviteKept
<1>2. MJ!Memberships
  BY DEF JoinInv, Standing, Has, MJ!Memberships
<1>3. MJ!NoOrphans
  BY DEF JoinInv, Owned, MJ!NoOrphans
<1> QED
  BY <1>1, <1>2, <1>3 DEF MJ!JoinKept


(* Invites admit no more machines than they say; the membership a computer  *)
(* has is one the hub has the credential and the machine of; and a machine  *)
(* the hub has is somebody's, however many computers join at once, give up, *)
(* leave and come again, whichever steps fail.  The other parts of          *)
(* MCWatchers count the same faults: either the mesh is played, or nobody   *)
(* has joined.                                                              *)
Quiet == /\ setup.uses \in Nat /\ spent = 0
         /\ machine = [n \in Names |-> 0] /\ saved = [c \in Computers |-> 0]
THEOREM JoinAlwaysKept == FairSpec => []JoinKept
<1> DEFINE Joined == IF Is("mesh") THEN JoinInv ELSE Quiet
<1>2. Init => Joined
  <2>1. Init => MJ!Init
    BY DEF Init
  <2>2. MJ!Init => JoinInv
    BY JoinAtFirst
  <2>3. MJ!Init => Quiet
    BY PartsAssumption DEF MJ!Init, MJ!Nothing, Quiet
  <2> QED
    BY <2>1, <2>2, <2>3
<1>3. Joined /\ [Next]_allVars => Joined'
  <2> SUFFICES ASSUME Joined, [Next]_allVars PROVE Joined'
    OBVIOUS
  <2>1. Is("mesh")' <=> Is("mesh")
    BY DEF Next, allVars, Is
  <2>2. CASE Is("mesh")
    <3>1. [MJ!Next]_MJ!vars
      BY <2>2 DEF Next, allVars, Is, mjVars, MJ!vars
    <3>2. JoinInv'
      BY <2>2, <3>1, JoinIsInductive
    <3> QED
      BY <2>1, <2>2, <3>2
  <2>3. CASE ~Is("mesh")
    <3>1. UNCHANGED mjVars
      BY <2>3 DEF Next, allVars
    <3> QED
      BY <2>1, <2>3, <3>1 DEF mjVars, Quiet
  <2> QED
    BY <2>2, <2>3
<1>4. Joined => JoinKept
  <2>1. JoinInv => JoinKept
    BY JoinSuffices DEF JoinKept
  <2>2. Quiet => JoinKept
    BY DEF Quiet, JoinKept, MJ!JoinKept, MJ!InviteKept, MJ!Memberships, MJ!NoOrphans, MJ!Nothing
  <2> QED
    BY <2>1, <2>2
<1> QED
  BY <1>2, <1>3, <1>4, PTL DEF FairSpec

----------------------------------------------------------------------------
(* Storage classes: what a handler and the bootstrap have recorded of their *)
(* looks is what they go by when they write.                                *)
ClassRec == [is : BOOLEAN, default : BOOLEAN, ver : Nat]
ClassReq == [pc : {"idle", "check", "others", "write", "list", "clear"}, op : {"none", "add", "update", "delete"},
             on : Classes, default : BOOLEAN, ver : Nat, left : SUBSET Classes, was : BOOLEAN, other : BOOLEAN,
             seen : [Classes -> ClassRec]]
ClassBoot == [pc : {"list", "get", "write", "done", "off"}, default : BOOLEAN, other : BOOLEAN, view : ClassRec]
ClassTypes ==
    /\ class \in [Classes -> ClassRec] /\ scReq \in [Clients -> ClassReq] /\ scBoot \in ClassBoot
    /\ \A c \in Classes : class[c].default => class[c].is
(* A class that was marked and is to lose the mark has had another beside   *)
(* it when they were listed; a class is not among the others of itself.     *)
RequestAhead(q) ==
    /\ q.pc \in {"check", "others"} => q.op # "add"
    /\ q.pc = "others" => SC!Guarded(q, q.was)
    /\ q.pc = "write" /\ q.op # "add" /\ SC!Guarded(q, q.was) => q.other
    /\ q.pc = "clear" => q.on \notin q.left
BootAhead == scBoot.pc \in {"get", "write"} => scBoot.default = ~scBoot.other
ClassInv  == ClassTypes /\ BootAhead /\ \A r \in Clients : RequestAhead(scReq[r])
(* What the property says of a step.                                        *)
DefaultStep ==
    /\ SC!HasDefault /\ ~SC!HasDefault' =>
          \/ scBoot' # scBoot /\ SC!StaleBoot
          \/ \E r \in Clients : scReq'[r] # scReq[r] /\ SC!Stale(r)
    /\ scBoot.pc = "write" /\ scBoot'.pc = "done" => SC!HasDefault' \/ SC!StaleBoot

LEMMA NoClass ==
    /\ SC!Absent \in ClassRec /\ ~SC!Absent.default
    /\ SC!Idle \in ClassReq /\ SC!Idle.pc = "idle" /\ RequestAhead(SC!Idle)
BY PartsAssumption DEF SC!Absent, SC!Idle, ClassRec, ClassReq, RequestAhead

LEMMA NoBoot ==
    ASSUME NEW where \in {"list", "done", "off"}
    PROVE  SC!BootAt(where) \in ClassBoot /\ SC!BootAt(where).pc = where
BY NoClass DEF SC!BootAt, ClassBoot

LEMMA ClassesAtFirst == ASSUME SC!Init PROVE ClassInv
<1>1. [SC!Absent EXCEPT !.is = TRUE] \in ClassRec /\ [SC!Absent EXCEPT !.is = TRUE, !.default = TRUE] \in ClassRec
  BY DEF SC!Absent, ClassRec
<1>2. ~[SC!Absent EXCEPT !.is = TRUE].default /\ [SC!Absent EXCEPT !.is = TRUE, !.default = TRUE].is
  BY DEF SC!Absent
<1>3. scBoot \in ClassBoot /\ scBoot.pc \in {"list", "off"}
  BY NoBoot DEF SC!Init
<1> QED
  BY <1>1, <1>2, <1>3, NoClass DEF SC!Init, ClassTypes, ClassInv, BootAhead

(* One request goes on, or ends; the classes may change.                    *)
LEMMA RequestMoves ==
    ASSUME ClassInv, NEW r \in Clients, NEW p \in ClassReq, RequestAhead(p), scReq' = [scReq EXCEPT ![r] = p],
           class' \in [Classes -> ClassRec], \A c \in Classes : class'[c].default => class'[c].is,
           UNCHANGED scBoot
    PROVE  ClassInv'
<1>1. scReq' \in [Clients -> ClassReq] /\ scReq'[r] = p /\ \A s \in Clients \ {r} : scReq'[s] = scReq[s]
  BY DEF ClassInv, ClassTypes
<1>2. \A s \in Clients : RequestAhead(scReq'[s])
  BY <1>1 DEF ClassInv
<1>3. ClassTypes' /\ BootAhead'
  BY <1>1 DEF ClassInv, ClassTypes, BootAhead
<1> QED
  BY <1>2, <1>3 DEF ClassInv

(* A handler that writes no class keeps the default.                        *)
LEMMA NoWrite ==
    ASSUME UNCHANGED class, scBoot.pc = "write" => scBoot'.pc # "done"
    PROVE  DefaultStep
BY DEF DefaultStep, SC!HasDefault, SC!Default

LEMMA EndMoves ==
    ASSUME ClassInv, NEW r \in Clients, SC!Ends(r), UNCHANGED <<class, scBoot>>
    PROVE  ClassInv' /\ DefaultStep
<1>1. ClassInv'
  BY NoClass, RequestMoves DEF SC!Ends, ClassInv, ClassTypes
<1> QED
  BY <1>1, NoWrite

LEMMA AskStorage ==
    ASSUME ClassInv, NEW r \in Clients, SC!Ask(r)
    PROVE  ClassInv' /\ DefaultStep
<1>1. UNCHANGED <<class, scBoot>>
  BY DEF SC!Ask
<1>2. PICK c \in Classes :
          \/ \E d \in BOOLEAN :
                \/ scReq' = [scReq EXCEPT ![r] = [SC!Idle EXCEPT !.pc = "write", !.op = "add", !.on = c, !.default = d]]
                \/ scReq' = [scReq EXCEPT ![r] = [SC!Idle EXCEPT !.pc = "check", !.op = "update", !.on = c,
                                                                 !.default = d, !.ver = class[c].ver]]
          \/ scReq' = [scReq EXCEPT ![r] = [SC!Idle EXCEPT !.pc = "check", !.op = "delete", !.on = c]]
  BY DEF SC!Ask
<1>3. class[c].ver \in Nat
  BY DEF ClassInv, ClassTypes, ClassRec
<1>4. ASSUME NEW d \in BOOLEAN
      PROVE  LET p == [SC!Idle EXCEPT !.pc = "write", !.op = "add", !.on = c, !.default = d] IN
             p \in ClassReq /\ RequestAhead(p)
  BY NoClass DEF SC!Idle, ClassReq, RequestAhead
<1>5. ASSUME NEW d \in BOOLEAN
      PROVE  LET p == [SC!Idle EXCEPT !.pc = "check", !.op = "update", !.on = c, !.default = d, !.ver = class[c].ver] IN
             p \in ClassReq /\ RequestAhead(p)
  BY <1>3, NoClass DEF SC!Idle, ClassReq, RequestAhead
<1>6. LET p == [SC!Idle EXCEPT !.pc = "check", !.op = "delete", !.on = c] IN
      p \in ClassReq /\ RequestAhead(p)
  BY NoClass DEF SC!Idle, ClassReq, RequestAhead
<1>7. PICK p \in ClassReq : RequestAhead(p) /\ scReq' = [scReq EXCEPT ![r] = p]
  BY <1>2, <1>4, <1>5, <1>6
<1>8. ClassInv'
  BY <1>1, <1>7, RequestMoves DEF ClassInv, ClassTypes
<1> QED
  BY <1>1, <1>8, NoWrite

LEMMA CheckStorage ==
    ASSUME ClassInv, NEW r \in Clients, SC!Check(r)
    PROVE  ClassInv' /\ DefaultStep
<1> DEFINE q == scReq[r]
           p == [q EXCEPT !.was = SC!Default(q.on),
                          !.pc = IF SC!Guarded(q, SC!Default(q.on)) THEN "others" ELSE "write"]
<1>1. q.pc = "check" /\ q \in ClassReq /\ q.op # "add" /\ UNCHANGED <<class, scBoot>>
  BY DEF SC!Check, ClassInv, ClassTypes, RequestAhead
<1>2. CASE SC!Ends(r)
  BY <1>1, <1>2, EndMoves
<1>3. CASE scReq' = [scReq EXCEPT ![r] = p]
  <2>1. SC!Default(q.on) \in BOOLEAN
    BY <1>1 DEF SC!Default, ClassInv, ClassTypes, ClassReq, ClassRec
  <2>2. /\ p \in ClassReq /\ p.op = q.op /\ p.default = q.default /\ p.was = SC!Default(q.on)
        /\ p.pc = IF SC!Guarded(q, SC!Default(q.on)) THEN "others" ELSE "write"
    BY <1>1, <2>1 DEF ClassReq
  <2> HIDE DEF p
  <2>3. RequestAhead(p)
    BY <1>1, <2>2 DEF RequestAhead, SC!Guarded
  <2>4. ClassInv'
    BY <1>1, <1>3, <2>2, <2>3, RequestMoves DEF ClassInv, ClassTypes
  <2> QED
    BY <1>1, <2>4, NoWrite
<1>4. SC!Ends(r) \/ scReq' = [scReq EXCEPT ![r] = p]
  BY DEF SC!Check, ClassInv, ClassTypes
<1> QED
  BY <1>2, <1>3, <1>4

LEMMA RequireStorage ==
    ASSUME ClassInv, NEW r \in Clients, SC!RequireAnother(r)
    PROVE  ClassInv' /\ DefaultStep
<1> DEFINE q == scReq[r]
           p == [q EXCEPT !.other = TRUE, !.pc = "write"]
<1>1. q.pc = "others" /\ q \in ClassReq /\ UNCHANGED <<class, scBoot>>
  BY DEF SC!RequireAnother, ClassInv, ClassTypes
<1>2. CASE SC!Ends(r)
  BY <1>1, <1>2, EndMoves
<1>3. CASE scReq' = [scReq EXCEPT ![r] = p]
  <2>1. p \in ClassReq /\ p.pc = "write" /\ p.other
    BY <1>1 DEF ClassReq
  <2> HIDE DEF p
  <2>2. ClassInv'
    BY <1>1, <1>3, <2>1, RequestMoves DEF ClassInv, ClassTypes, RequestAhead
  <2> QED
    BY <1>1, <2>2, NoWrite
<1>4. SC!Ends(r) \/ scReq' = [scReq EXCEPT ![r] = p]
  BY DEF SC!RequireAnother, ClassInv, ClassTypes
<1> QED
  BY <1>2, <1>3, <1>4

(* A write of one class: what else there is stays.                          *)
LEMMA WriteClass ==
    ASSUME ClassInv, NEW c \in Classes, NEW v \in ClassRec, v.default => v.is, SC!Writes(c, v)
    PROVE  /\ class' \in [Classes -> ClassRec] /\ \A d \in Classes : class'[d].default => class'[d].is
           /\ class'[c].default = v.default /\ \A d \in Classes \ {c} : class'[d] = class[d]
<1>1. class[c].ver + 1 \in Nat
  BY DEF ClassInv, ClassTypes, ClassRec
<1>2. LET w == [v EXCEPT !.ver = class[c].ver + 1] IN
         w \in ClassRec /\ w.is = v.is /\ w.default = v.default
  BY <1>1 DEF ClassRec
<1>3. class' = [class EXCEPT ![c] = [v EXCEPT !.ver = class[c].ver + 1]]
  BY DEF SC!Writes
<1> QED
  BY <1>2, <1>3 DEF ClassInv, ClassTypes

LEMMA WriteStorage ==
    ASSUME ClassInv, NEW r \in Clients, SC!Write(r)
    PROVE  ClassInv' /\ DefaultStep
<1> DEFINE q == scReq[r]
           v == IF q.op = "delete" THEN SC!Absent ELSE [is |-> TRUE, default |-> q.default, ver |-> 0]
           p == [SC!Idle EXCEPT !.pc = "list", !.on = q.on]
<1>1. /\ q \in ClassReq /\ q.pc = "write" /\ UNCHANGED scBoot /\ q.on \in Classes /\ q.default \in BOOLEAN
      /\ RequestAhead(q)
  BY DEF SC!Write, ClassInv, ClassTypes, ClassReq
<1>2. CASE SC!Ends(r) /\ UNCHANGED class
  BY <1>1, <1>2, EndMoves
<1>3. CASE /\ SC!Writes(q.on, v)
           /\ q.op = "add" => ~class[q.on].is
           /\ scReq' = [scReq EXCEPT ![r] = IF q.op # "delete" /\ q.default THEN p ELSE SC!Idle]
  <2>1. v \in ClassRec /\ (v.default => v.is) /\ (v.default <=> q.op # "delete" /\ q.default)
    BY <1>1, NoClass DEF ClassRec, SC!Absent
  <2> HIDE DEF v
  <2>2. /\ class' \in [Classes -> ClassRec] /\ \A d \in Classes : class'[d].default => class'[d].is
        /\ class'[q.on].default = v.default /\ \A d \in Classes \ {q.on} : class'[d] = class[d]
    BY <1>1, <1>3, <2>1, WriteClass
  <2>3. p \in ClassReq /\ p.pc = "list"
    BY <1>1, NoClass DEF ClassReq, SC!Idle
  <2>4. scReq'[r] # q
    BY <1>1, <1>3, <2>3, NoClass DEF ClassInv, ClassTypes
  <2> HIDE DEF p
  <2>5. ClassInv'
    <3> DEFINE e == IF q.op # "delete" /\ q.default THEN p ELSE SC!Idle
    <3>1. e \in ClassReq /\ RequestAhead(e)
      BY <2>3, NoClass DEF RequestAhead
    <3>2. scReq' = [scReq EXCEPT ![r] = e]
      BY <1>3
    <3> HIDE DEF e
    <3> QED
      BY <1>1, <2>2, <3>1, <3>2, RequestMoves
  <2>6. SC!HasDefault /\ ~SC!HasDefault' => SC!Stale(r)
    <3> SUFFICES ASSUME SC!HasDefault, ~SC!HasDefault', ~SC!Stale(r)
                 PROVE  FALSE
      OBVIOUS
    <3>1. ~v.default /\ class[q.on].default /\ \A d \in Classes \ {q.on} : ~class[d].default
      BY <1>1, <2>2 DEF SC!HasDefault, SC!Default
    <3>2. q.op # "add"
      BY <1>1, <1>3, <3>1 DEF ClassInv, ClassTypes
    <3>3. q.was /\ ~q.other
      BY <1>1, <3>1 DEF SC!Stale, SC!Default, SC!AnotherDefault, ClassReq, ClassInv, ClassTypes, ClassRec
    <3> QED
      BY <1>1, <2>1, <3>1, <3>2, <3>3 DEF RequestAhead, SC!Guarded
  <2> QED
    BY <1>1, <2>4, <2>5, <2>6 DEF DefaultStep
<1>4. \/ SC!Ends(r) /\ UNCHANGED class
      \/ /\ SC!Writes(q.on, v)
         /\ q.op = "add" => ~class[q.on].is
         /\ scReq' = [scReq EXCEPT ![r] = IF q.op # "delete" /\ q.default THEN p ELSE SC!Idle]
  BY DEF SC!Write, SC!Exists, SC!Ends
<1> QED
  BY <1>2, <1>3, <1>4

LEMMA ListStorage ==
    ASSUME ClassInv, NEW r \in Clients, SC!ListOthers(r)
    PROVE  ClassInv' /\ DefaultStep
<1>1. scReq[r].pc = "list" /\ scReq[r] \in ClassReq /\ UNCHANGED <<class, scBoot>>
  BY DEF SC!ListOthers, ClassInv, ClassTypes
<1> DEFINE others == {c \in Classes \ {scReq[r].on} : SC!Default(c)}
           f == [c \in Classes |-> IF c \in others THEN class[c] ELSE SC!Absent]
           p == [scReq[r] EXCEPT !.pc = "clear", !.left = others, !.seen = f]
<1>2. f \in [Classes -> ClassRec]
  BY NoClass DEF ClassInv, ClassTypes
<1>3. scReq' = [scReq EXCEPT ![r] = p]
  BY DEF SC!ListOthers, ClassInv, ClassTypes
<1> HIDE DEF f
<1>4. p \in ClassReq /\ p.pc = "clear" /\ p.on = scReq[r].on /\ p.left = others /\ p.on \notin others
  BY <1>1, <1>2 DEF ClassReq
<1> HIDE DEF p, others
<1>5. ClassInv'
  BY <1>1, <1>3, <1>4, RequestMoves DEF ClassInv, ClassTypes, RequestAhead
<1> QED
  BY <1>1, <1>5, NoWrite

LEMMA ClearStorage ==
    ASSUME ClassInv, NEW r \in Clients, SC!Clear(r)
    PROVE  ClassInv' /\ DefaultStep
<1> DEFINE q == scReq[r]
<1>1. /\ q.pc = "clear" /\ q \in ClassReq /\ UNCHANGED scBoot /\ q.on \in Classes
      /\ q.on \notin q.left /\ q.left \subseteq Classes
  BY DEF SC!Clear, ClassInv, ClassTypes, ClassReq, RequestAhead
<1>2. CASE SC!Ends(r) /\ UNCHANGED class
  BY <1>1, <1>2, EndMoves
<1>3. CASE \E c \in q.left : /\ SC!Writes(c, [class[c] EXCEPT !.default = FALSE])
                             /\ scReq' = [scReq EXCEPT ![r].left = @ \ {c}]
  <2>1. PICK c \in q.left : /\ SC!Writes(c, [class[c] EXCEPT !.default = FALSE])
                            /\ scReq' = [scReq EXCEPT ![r].left = @ \ {c}]
    BY <1>3
  <2>2. c \in Classes /\ c # q.on
    BY <1>1
  <2>3. [class[c] EXCEPT !.default = FALSE] \in ClassRec /\ ~[class[c] EXCEPT !.default = FALSE].default
    BY <2>2 DEF ClassInv, ClassTypes, ClassRec
  <2>4. /\ class' \in [Classes -> ClassRec] /\ \A d \in Classes : class'[d].default => class'[d].is
        /\ class'[q.on] = class[q.on]
    BY <1>1, <2>1, <2>2, <2>3, WriteClass
  <2> DEFINE p == [q EXCEPT !.left = @ \ {c}]
  <2>5. p \in ClassReq /\ p.pc = "clear" /\ p.on = q.on /\ p.left = q.left \ {c}
    BY <1>1 DEF ClassReq
  <2>6. scReq' = [scReq EXCEPT ![r] = p] /\ scReq'[r] = p
    BY <2>1 DEF ClassInv, ClassTypes
  <2> HIDE DEF p
  <2>7. p # q
    BY <1>1, <2>5
  <2>8. ClassInv'
    BY <1>1, <2>4, <2>5, <2>6, RequestMoves DEF RequestAhead
  <2>9. ~SC!HasDefault' => SC!Stale(r)
    BY <1>1, <2>4 DEF SC!HasDefault, SC!Stale, SC!Default
  <2> QED
    BY <1>1, <2>6, <2>7, <2>8, <2>9 DEF DefaultStep
<1> QED
  BY <1>2, <1>3 DEF SC!Clear

(* The bootstrap goes on, or gives up, without a write.                     *)
LEMMA BootGoes ==
    ASSUME ClassInv, scBoot' \in ClassBoot, BootAhead', UNCHANGED <<class, scReq>>,
           scBoot.pc = "write" => scBoot'.pc # "done"
    PROVE  ClassInv' /\ DefaultStep
BY NoWrite DEF ClassInv, ClassTypes

LEMMA BootStorage ==
    ASSUME ClassInv, SC!BootList \/ SC!BootGet \/ SC!BootWrite \/ SC!BootErrs
    PROVE  ClassInv' /\ DefaultStep
<1>1. CASE SC!BootList
  <2>1. SC!AnotherDefault(Own) \in BOOLEAN
    BY DEF SC!AnotherDefault
  <2>2. scBoot' \in ClassBoot /\ scBoot'.default = ~scBoot'.other
    BY <1>1, <2>1 DEF SC!BootList, ClassInv, ClassTypes, ClassBoot
  <2> QED
    BY <1>1, <2>2, BootGoes DEF SC!BootList, BootAhead
<1>2. CASE SC!BootGet
  <2>1. class[Own] \in ClassRec
    BY PartsAssumption DEF ClassInv, ClassTypes
  <2>2. /\ scBoot' \in ClassBoot /\ scBoot'.pc = "write"
        /\ scBoot'.default = scBoot.default /\ scBoot'.other = scBoot.other
    BY <1>2, <2>1 DEF SC!BootGet, ClassInv, ClassTypes, ClassBoot
  <2> QED
    BY <1>2, <2>2, BootGoes DEF SC!BootGet, ClassInv, BootAhead
<1>3. CASE SC!BootErrs \/ (SC!BootWrite /\ SC!BootMoves("off") /\ UNCHANGED class)
  <2>1. scBoot' \in ClassBoot /\ scBoot'.pc = "off"
    BY <1>3, NoBoot DEF SC!BootErrs, SC!BootMoves
  <2> QED
    BY <1>3, <2>1, BootGoes DEF SC!BootErrs, SC!BootWrite, BootAhead
<1>4. CASE /\ SC!BootWrite /\ SC!BootMoves("done")
           /\ SC!Writes(Own, [is |-> TRUE, default |-> scBoot.default, ver |-> 0])
  <2> DEFINE v == [is |-> TRUE, default |-> scBoot.default, ver |-> 0]
  <2>1. v \in ClassRec /\ v.is /\ v.default = scBoot.default /\ scBoot.default \in BOOLEAN
    BY DEF ClassInv, ClassTypes, ClassBoot, ClassRec
  <2> HIDE DEF v
  <2>2. /\ class' \in [Classes -> ClassRec] /\ \A d \in Classes : class'[d].default => class'[d].is
        /\ class'[Own].default = v.default /\ \A d \in Classes \ {Own} : class'[d] = class[d]
    BY <1>4, <2>1, PartsAssumption, WriteClass DEF v
  <2>3. scBoot.pc = "write" /\ scBoot' \in ClassBoot /\ scBoot'.pc = "done" /\ UNCHANGED scReq
    BY <1>4, NoBoot DEF SC!BootWrite, SC!BootMoves
  <2>4. ClassInv'
    BY <2>2, <2>3 DEF ClassInv, ClassTypes, BootAhead
  <2>5. SC!HasDefault' \/ SC!StaleBoot
    <3>1. CASE scBoot.default
      BY <2>1, <2>2, <3>1, PartsAssumption DEF SC!HasDefault, SC!Default
    <3>2. CASE ~scBoot.default
      BY <2>2, <2>3, <3>2 DEF SC!HasDefault, SC!Default, SC!StaleBoot, SC!AnotherDefault, ClassInv, BootAhead
    <3> QED
      BY <3>1, <3>2
  <2> QED
    BY <2>3, <2>4, <2>5 DEF DefaultStep
<1> QED
  BY <1>1, <1>2, <1>3, <1>4 DEF SC!BootWrite

LEMMA RestartStorage ==
    ASSUME ClassInv, SC!Restart
    PROVE  ClassInv' /\ DefaultStep
<1>1. UNCHANGED class /\ scReq' = [r \in Clients |-> SC!Idle]
  BY DEF SC!Restart
<1>2. scBoot' \in ClassBoot /\ scBoot'.pc \in {"list", "off"}
  BY NoBoot DEF SC!Restart, SC!BootMoves
<1>3. ClassInv'
  BY <1>1, <1>2, NoClass DEF ClassInv, ClassTypes, BootAhead
<1> QED
  BY <1>1, <1>2, <1>3, NoWrite

(* A claim that names no class goes on getting one: whatever is added,      *)
(* updated and deleted at the same time, also beside the bootstrap, and     *)
(* whichever call fails, the last default class goes only by a write of one *)
(* whose look is out of date (storageclass.go:141).                         *)
THEOREM DefaultAlwaysStays == FairSpec => DefaultStays
<1>1. Init => ClassInv
  BY ClassesAtFirst DEF Init
<1>2. ClassInv /\ [Next]_allVars => ClassInv' /\ [DefaultStep]_SC!vars
  <2> SUFFICES ASSUME ClassInv, [Next]_allVars
               PROVE  ClassInv' /\ [DefaultStep]_SC!vars
    OBVIOUS
  <2>1. SC!Next \/ UNCHANGED scVars
    BY DEF Next, allVars
  <2>2. CASE UNCHANGED scVars
    <3>1. ClassInv'
      BY <2>2 DEF scVars, ClassInv, ClassTypes, BootAhead
    <3>2. DefaultStep
      BY <2>2, NoWrite DEF scVars
    <3> QED
      BY <3>1, <3>2
  <2>3. ASSUME NEW r \in Clients, SC!Errs(r)
        PROVE  ClassInv' /\ DefaultStep
    BY <2>3, EndMoves DEF SC!Errs
  <2> QED
    BY <2>1, <2>2, <2>3, AskStorage, CheckStorage, RequireStorage, WriteStorage, ListStorage, ClearStorage,
       BootStorage, RestartStorage DEF SC!Next, SC!Handle
<1>3. [DefaultStep]_SC!vars => [/\ SC!HasDefault /\ ~SC!HasDefault' =>
                                      \/ scBoot' # scBoot /\ SC!StaleBoot
                                      \/ \E r \in Clients : scReq'[r] # scReq[r] /\ SC!Stale(r)
                                /\ scBoot.pc = "write" /\ scBoot'.pc = "done" => SC!HasDefault' \/ SC!StaleBoot]_SC!vars
  BY DEF DefaultStep
<1> QED
  BY <1>1, <1>2, <1>3, PTL DEF FairSpec, DefaultStays, SC!DefaultStays

----------------------------------------------------------------------------
(* The lease of a box: whoever acts on a look at it has seen a version, and *)
(* one that took the lease away is younger than what the reaper has seen.   *)
Actor == [pc : {"idle", "get", "write", "list", "service", "extras", "claim"},
          do : {"none", "set", "delete"}, ver : Int, to : Int]
Box == [is : BOOLEAN, lease : Int, ver : Int]
LeaseTypes == /\ now \in Int /\ box \in Box
              /\ agent \in Actor /\ person \in Actor /\ reaper \in Actor
LeaseInv ==
    /\ LeaseTypes
    /\ person.pc # "idle" => person.do = "set" /\ person.to = DL!Kept
    /\ reaper.pc # "idle" => reaper.do = "delete" /\ reaper.ver <= box.ver
    /\ reaper.pc # "idle" /\ reaper.ver = box.ver => box.lease # DL!Kept
    /\ reaper.pc # "write"

LEMMA NoActor == DL!Idle \in Actor /\ DL!Idle.pc = "idle"
BY DEF DL!Idle, Actor

LEMMA LeasesAtFirst == ASSUME DL!Init PROVE LeaseInv
<1>1. box \in Box
  <2>1. \A S, V \in SUBSET Int, T \in SUBSET BOOLEAN : [is : T, lease : S, ver : V] \subseteq Box
    BY DEF Box
  <2>2. {1, DL!Kept} \in SUBSET Int /\ {0} \in SUBSET Int /\ {TRUE} \in SUBSET BOOLEAN
    BY DEF DL!Kept
  <2>3. [is : {TRUE}, lease : {1, DL!Kept}, ver : {0}] \subseteq Box
    BY <2>1, <2>2
  <2> QED
    BY <2>3 DEF DL!Init
<1>2. now = 0 /\ agent = DL!Idle /\ person = DL!Idle /\ reaper = DL!Idle
  BY DEF DL!Init
<1> QED
  BY <1>1, <1>2, NoActor DEF LeaseInv, LeaseTypes

LEMMA UninstallMoves ==
    ASSUME LeaseTypes, NEW a \in Actor, NEW b, DL!Uninstalls(a, b)
    PROVE  /\ b \in Actor /\ a.pc # "idle" /\ b.pc # "write" /\ (b.pc # "idle" => b.do = a.do /\ b.ver = a.ver)
           /\ box' \in Box /\ box'.ver = box.ver /\ box'.lease = box.lease
<1>1. \A p \in {"service", "extras", "claim"} :
         LET c == [a EXCEPT !.pc = p] IN c \in Actor /\ c.pc = p /\ c.do = a.do /\ c.ver = a.ver
  BY DEF Actor
<1>2. LET c == [box EXCEPT !.is = FALSE] IN
         c \in Box /\ c.ver = box.ver /\ c.lease = box.lease
  BY DEF LeaseTypes, Box
<1>3. b = DL!Idle \/ \E p \in {"service", "extras", "claim"} : b = [a EXCEPT !.pc = p]
  BY DEF DL!Uninstalls
<1>4. box' = box \/ box' = [box EXCEPT !.is = FALSE]
  BY DEF DL!Uninstalls
<1>5. a.pc # "idle"
  BY DEF DL!Uninstalls
<1> QED
  BY <1>1, <1>2, <1>3, <1>4, <1>5, NoActor DEF LeaseTypes

LEMMA MissedMoves ==
    ASSUME NEW a \in Actor, NEW b \in DL!Missed(a)
    PROVE  /\ b \in Actor /\ b.pc # "write" /\ (b.pc # "idle" => a.pc # "idle" /\ b.do = a.do /\ b.ver = a.ver)
<1>1. \A p \in {"service", "extras", "claim"} :
         LET c == [a EXCEPT !.pc = p] IN c \in Actor /\ c.pc = p /\ c.do = a.do /\ c.ver = a.ver
  BY DEF Actor
<1>2. b = DL!Idle \/ (a.pc # "idle" /\ \E p \in {"service", "extras", "claim"} : b = [a EXCEPT !.pc = p])
  <2>1. CASE a.pc = "list"
    BY <2>1 DEF DL!Missed
  <2>2. CASE a.pc = "service"
    BY <2>2 DEF DL!Missed
  <2>3. CASE a.pc = "extras"
    BY <2>3 DEF DL!Missed
  <2>4. CASE a.pc \notin {"list", "service", "extras"}
    BY <2>4 DEF DL!Missed
  <2> QED
    BY <2>1, <2>2, <2>3, <2>4
<1> QED
  BY <1>1, <1>2, NoActor

LEMMA Rewritten ==
    ASSUME NEW b \in Box, NEW t \in Int, NEW v \in Int
    PROVE  LET c == [b EXCEPT !.lease = t, !.ver = v] IN
           c \in Box /\ c.ver = v /\ c.lease = t /\ c.is = b.is
BY DEF Box

LEMMA WriteMoves ==
    ASSUME LeaseTypes, NEW a \in Actor, DL!Write(a)
    PROVE  /\ box' \in Box /\ a.pc = "write" /\ (box.is => box'.is)
           /\ box' = box \/ (box'.ver = box.ver + 1 /\ box'.lease = a.to)
<1>1. a.to \in Int /\ box \in Box /\ box.ver + 1 \in Int
  BY DEF LeaseTypes, Actor, Box
<1>2. PICK v \in Int : v = box.ver + 1
  BY <1>1
<1> DEFINE c == [box EXCEPT !.lease = a.to, !.ver = v]
<1>3. c \in Box /\ c.ver = v /\ c.lease = a.to /\ c.is = box.is
  BY <1>1, Rewritten
<1>4. a.pc = "write" /\ (box' = c \/ box' = box)
  BY <1>2 DEF DL!Write
<1> HIDE DEF c
<1> QED
  BY <1>1, <1>2, <1>3, <1>4

LEMMA SeenMoves ==
    ASSUME LeaseTypes, NEW a \in Actor
    PROVE  LET b == DL!Seen(a) IN b \in Actor /\ (b.pc # "idle" => b.do = a.do /\ b.to = a.to)
<1>1. LET c == [a EXCEPT !.pc = "write", !.ver = box.ver] IN c \in Actor /\ c.do = a.do /\ c.to = a.to
  BY DEF LeaseTypes, Actor, Box
<1> QED
  BY <1>1, NoActor DEF DL!Seen

(* A box nobody acts on and nobody has a lease of keeps what it has.        *)
BoxStep == box.is /\ box.lease = DL!Kept /\ ~DL!Acting => box'.is /\ box'.lease = DL!Kept /\ parts' = parts

LEMMA LeaseStep == ASSUME LeaseInv, DL!Next PROVE LeaseInv' /\ BoxStep
<1>1. CASE DL!Tick
  BY <1>1 DEF DL!Tick, LeaseInv, LeaseTypes, BoxStep
<1>2. CASE DL!AgentCalls
  <2>1. agent' \in Actor
    <3>1. \A a \in Actor, t \in Int : [a EXCEPT !.pc = "get", !.do = "set", !.to = t] \in Actor
      BY DEF Actor
    <3>2. \A a \in Actor : [a EXCEPT !.pc = "list", !.do = "delete"] \in Actor
      BY DEF Actor
    <3>3. \A t \in (now + 1)..MaxTime : t \in Int
      BY DEF LeaseInv, LeaseTypes
    <3> QED
      BY <1>2, <3>1, <3>2, <3>3, NoActor DEF DL!AgentCalls
  <2> QED
    BY <1>2, <2>1 DEF DL!AgentCalls, LeaseInv, LeaseTypes, BoxStep
<1>3. CASE DL!PersonCalls
  <2>1. \A a \in Actor, t \in Int : LET p == [a EXCEPT !.pc = "get", !.do = "set", !.to = t] IN
           p \in Actor /\ p.do = "set" /\ p.to = t
    BY DEF Actor
  <2>2. DL!Kept \in Int
    BY DEF DL!Kept
  <2> QED
    BY <1>3, <2>1, <2>2, NoActor DEF DL!PersonCalls, LeaseInv, LeaseTypes, BoxStep
<1>4. CASE DL!AgentReads
  BY <1>4, SeenMoves DEF DL!AgentReads, DL!still, LeaseInv, LeaseTypes, BoxStep
<1>5. CASE DL!PersonReads
  <2>1. person.pc # "idle"
    BY <1>5 DEF DL!PersonReads, DL!Read
  <2> QED
    BY <1>5, <2>1, SeenMoves DEF DL!PersonReads, DL!still, LeaseInv, LeaseTypes, BoxStep
<1>6. CASE DL!AgentWrites
  <2>1. DL!Write(agent) /\ agent' = DL!Idle /\ UNCHANGED <<parts, person, reaper, now>>
    BY <1>6 DEF DL!AgentWrites, DL!still
  <2>2. /\ box' \in Box /\ agent.pc = "write"
        /\ box' = box \/ box'.ver = box.ver + 1
    BY <2>1, WriteMoves DEF LeaseInv, LeaseTypes
  <2>3. DL!Acting
    BY <2>2 DEF DL!Acting
  <2>4. reaper.ver \in Int /\ box.ver \in Int
    BY DEF LeaseInv, LeaseTypes, Actor, Box
  <2> QED
    BY <2>1, <2>2, <2>3, <2>4, NoActor DEF LeaseInv, LeaseTypes, BoxStep
<1>7. CASE DL!PersonWrites
  <2>1. DL!Write(person) /\ person' = DL!Idle /\ UNCHANGED <<parts, agent, reaper, now>>
    BY <1>7 DEF DL!PersonWrites, DL!still
  <2>2. /\ box' \in Box /\ person.pc = "write" /\ (box.is => box'.is)
        /\ box' = box \/ (box'.ver = box.ver + 1 /\ box'.lease = person.to)
    BY <2>1, WriteMoves DEF LeaseInv, LeaseTypes
  <2>3. reaper.ver \in Int /\ box.ver \in Int
    BY DEF LeaseInv, LeaseTypes, Actor, Box
  <2> QED
    BY <2>1, <2>2, <2>3, NoActor DEF LeaseInv, LeaseTypes, BoxStep
<1>8. CASE DL!Reap
  <2>1. \A a \in Actor, v \in Int : LET p == [a EXCEPT !.pc = "list", !.do = "delete", !.ver = v] IN
           p \in Actor /\ p.pc = "list" /\ p.do = "delete" /\ p.ver = v
    BY DEF Actor
  <2>2. box.lease # DL!Kept
    BY <1>8 DEF DL!Reap, DL!Expired
  <2>3. box.ver \in Int /\ box.ver <= box.ver
    BY DEF LeaseInv, LeaseTypes, Box
  <2> QED
    BY <1>8, <2>1, <2>2, <2>3, NoActor DEF DL!Reap, DL!still, LeaseInv, LeaseTypes, BoxStep
<1>9. CASE DL!AgentDeletes
  <2>1. DL!Uninstalls(agent, agent') /\ UNCHANGED <<person, reaper, now>>
    BY <1>9 DEF DL!AgentDeletes, DL!still
  <2>2. agent.pc # "idle" /\ DL!Acting
    BY <2>1, UninstallMoves DEF LeaseInv, LeaseTypes, DL!Acting
  <2> QED
    BY <2>1, <2>2, UninstallMoves DEF LeaseInv, LeaseTypes, BoxStep
<1>10. CASE DL!ReaperDeletes
  <2>1. DL!Uninstalls(reaper, reaper') /\ UNCHANGED <<person, agent, now>>
    BY <1>10 DEF DL!ReaperDeletes, DL!still
  <2>2. reaper.pc # "idle"
    BY <2>1, UninstallMoves DEF LeaseInv, LeaseTypes
  <2>3. box.lease = DL!Kept => DL!Acting
    BY <2>2 DEF LeaseInv, LeaseTypes, Actor, Box, DL!Acting
  <2> QED
    BY <2>1, <2>2, <2>3, UninstallMoves DEF LeaseInv, LeaseTypes, BoxStep
<1>11. CASE DL!Errs
  <2>1. UNCHANGED <<now, box, parts>>
    BY <1>11 DEF DL!Errs
  <2>2. /\ agent' \in Actor /\ person' \in Actor /\ reaper' \in Actor
        /\ person'.pc # "idle" => person' = person
        /\ reaper'.pc # "idle" => reaper.pc # "idle" /\ reaper'.do = reaper.do /\ reaper'.ver = reaper.ver
        /\ reaper'.pc # "write"
    BY <1>11, MissedMoves, NoActor DEF DL!Errs, LeaseInv, LeaseTypes
  <2> QED
    BY <2>1, <2>2 DEF LeaseInv, LeaseTypes, BoxStep
<1>12. CASE DL!Restart
  BY <1>12, NoActor DEF DL!Restart, LeaseInv, LeaseTypes, BoxStep
<1> QED
  BY <1>1, <1>2, <1>3, <1>4, <1>5, <1>6, <1>7, <1>8, <1>9, <1>10, <1>11, <1>12 DEF DL!Next

(* A box whose lease a person has taken away stays, with all it has, unless *)
(* the agent or the reaper acts on an older look at it -- however often the *)
(* lease is moved, and whatever fails.                                      *)
THEOREM BoxAlwaysStays == FairSpec => BoxStays
<1>1. Init => LeaseInv
  BY LeasesAtFirst DEF Init
<1>2. LeaseInv /\ [Next]_allVars => LeaseInv' /\ [BoxStep]_DL!vars
  <2> SUFFICES ASSUME LeaseInv, [Next]_allVars
               PROVE  LeaseInv' /\ BoxStep
    OBVIOUS
  <2>1. DL!Next \/ UNCHANGED dlVars
    BY DEF Next, allVars
  <2>2. CASE UNCHANGED dlVars
    BY <2>2 DEF dlVars, LeaseInv, LeaseTypes, BoxStep
  <2> QED
    BY <2>1, <2>2, LeaseStep
<1> QED
  BY <1>1, <1>2, PTL DEF FairSpec, BoxStays, DL!Stays, BoxStep

----------------------------------------------------------------------------
(* The mutex of the local node: on a host that is not a member of a cloud,  *)
(* whoever is busy with the distribution holds it.                          *)
Holds(a) == LN!Busy(a) => lock = a
AtPlaces == {"idle", "waiting", "preparing", "provisioning", "saving", "deploying"}
Mutex == /\ at \in [LN!Actors -> AtPlaces]
         /\ mode # "member" => at["member"] = "idle" /\ \A a \in LN!Actors : Holds(a)

LEMMA MutexStep == ASSUME Mutex, LN!Next PROVE Mutex'
<1>1. UNCHANGED mode
  BY DEF LN!Next, LN!StartJob, LN!MemberStarts, LN!SessionResumes, LN!Deployed, LN!Restart, LN!Step,
         LN!Acquire, LN!Prepare, LN!Provision, LN!Save, LN!Fail, LN!world
<1>2. at' \in [LN!Actors -> AtPlaces]
  <2>1. UNCHANGED at \/ \E a \in LN!Actors, w \in AtPlaces : LN!Goes(a, w)
    <3>1. {"job", "member", "keeper", "bootstrap"} \subseteq LN!Actors
      BY DEF LN!Actors
    <3>2. ASSUME NEW a \in LN!Actors, LN!Step(a)
          PROVE  \E w \in AtPlaces : LN!Goes(a, w)
      BY <3>2 DEF AtPlaces, LN!Step, LN!Acquire, LN!Prepare, LN!Provision, LN!Save, LN!Fail
    <3>3. CASE LN!StartJob \/ LN!MemberStarts \/ LN!SessionResumes \/ LN!Deployed
      BY <3>1, <3>3 DEF AtPlaces, LN!StartJob, LN!MemberStarts, LN!SessionResumes, LN!Deployed
    <3>4. CASE LN!Restart
      BY <3>4 DEF LN!Restart
    <3> QED
      BY <3>2, <3>3, <3>4 DEF LN!Next
  <2> QED
    BY <2>1 DEF Mutex, LN!Goes
<1>3. SUFFICES ASSUME mode # "member"
               PROVE  at'["member"] = "idle" /\ \A a \in LN!Actors : Holds(a)'
  BY <1>1, <1>2 DEF Mutex
<1>4. /\ at["member"] = "idle" /\ \A a \in LN!Actors : Holds(a)
      /\ LN!Actors = {"bootstrap", "job", "keeper", "member"} /\ at \in [LN!Actors -> AtPlaces]
  BY <1>3 DEF Mutex, LN!Actors
<1>5. CASE LN!StartJob
  BY <1>4, <1>5 DEF LN!StartJob, LN!Goes, Holds, LN!Busy
<1>6. CASE LN!SessionResumes
  BY <1>4, <1>6 DEF LN!SessionResumes, LN!Goes, Holds, LN!Busy
<1>7. CASE LN!Deployed
  BY <1>4, <1>7 DEF LN!Deployed, LN!Goes, LN!Release, Holds, LN!Busy
<1>8. CASE LN!Restart
  BY <1>4, <1>8 DEF LN!Restart, Holds, LN!Busy
<1>9. CASE LN!MemberStarts
  BY <1>3, <1>9 DEF LN!MemberStarts
<1>10. ASSUME NEW a \in LN!Actors, LN!Acquire(a)
       PROVE  at'["member"] = "idle" /\ \A b \in LN!Actors : Holds(b)'
  BY <1>4, <1>10 DEF LN!Acquire, LN!Goes, Holds, LN!Busy
<1>11. ASSUME NEW a \in LN!Actors, LN!Prepare(a) \/ LN!Provision(a)
       PROVE  at'["member"] = "idle" /\ \A b \in LN!Actors : Holds(b)'
  BY <1>4, <1>11 DEF LN!Prepare, LN!Provision, LN!Goes, Holds, LN!Busy
<1>12. ASSUME NEW a \in LN!Actors, LN!Save(a)
       PROVE  at'["member"] = "idle" /\ \A b \in LN!Actors : Holds(b)'
  BY <1>4, <1>12 DEF LN!Save, LN!Goes, LN!Release, Holds, LN!Busy
<1>13. ASSUME NEW a \in LN!Actors, LN!Fail(a)
       PROVE  at'["member"] = "idle" /\ \A b \in LN!Actors : Holds(b)'
  BY <1>4, <1>13 DEF LN!Fail, LN!Goes, LN!Release, Holds, LN!Busy
<1> QED
  BY <1>5, <1>6, <1>7, <1>8, <1>9, <1>10, <1>11, <1>12, <1>13 DEF LN!Next, LN!Step

(* On a host of its own, no two of bootstrap, job and keeper are busy with  *)
(* the distribution at a time, from preparing it to the deployed node,      *)
(* however often it restarts and they fail.                                 *)
THEOREM OneRunsAlways == FairSpec => []OneAtATime
<1>1. Init => Mutex
  <2> SUFFICES ASSUME LN!Init PROVE Mutex
    BY DEF Init
  <2>1. at \in [LN!Actors -> AtPlaces] /\ \A a \in LN!Actors : at[a] \in {"idle", "waiting"}
    BY DEF LN!Init, AtPlaces
  <2>2. at["member"] = "idle"
    BY DEF LN!Init, LN!Actors
  <2> QED
    BY <2>1, <2>2 DEF Mutex, Holds, LN!Busy
<1>2. Mutex /\ [Next]_allVars => Mutex'
  <2> SUFFICES ASSUME Mutex, [Next]_allVars PROVE Mutex'
    OBVIOUS
  <2>1. LN!Next \/ UNCHANGED lnVars
    BY DEF Next, allVars
  <2>2. CASE UNCHANGED lnVars
    BY <2>2 DEF lnVars, Mutex, Holds, LN!Busy
  <2> QED
    BY <2>1, <2>2, MutexStep
<1>3. Mutex => OneAtATime
  BY DEF Mutex, Holds, OneAtATime, LN!OneRun
<1> QED
  BY <1>1, <1>2, <1>3, PTL DEF FairSpec

----------------------------------------------------------------------------
(* The certificate: what is told to be issued has been stored and is used,  *)
(* and a token or a route is that of a request that still has to drop it.   *)
Stages == {"new", "started", "account", "key", "order", "token", "route", "accept", "store", "attach",
           "issued", "failed", "unrouted issued", "unrouted failed", "over"}
FlowAhead(f) ==
    /\ flow[f] = "attach" => secret # CE!Nothing
    /\ flow[f] \in {"issued", "unrouted issued"} => secret # CE!Nothing /\ tls # "not yet"
    /\ f \in tokens => flow[f] \notin {"new", "over"}
    /\ flow[f] \in {"route", "accept"} => f \in tokens
RouteAhead ==
    faults = 0 /\ route # CE!Nothing =>
        /\ route \in Flows /\ route \in tokens
        /\ flow[route] \in {"accept", "store", "attach", "issued", "failed"}
StatusAhead ==
    /\ status = "issued" => secret # CE!Nothing /\ tls # "not yet"
    /\ upload = "attach" => secret # CE!Nothing
    /\ upload = "set" => secret # CE!Nothing /\ tls # "not yet"
CertInv == /\ faults \in Nat /\ flow \in [Flows -> Stages] /\ tokens \subseteq Flows
           /\ StatusAhead /\ RouteAhead /\ \A f \in Flows : FlowAhead(f)

LEMMA OneMore == \A n \in Nat : n + 1 \in Nat /\ n + 1 # 0
OBVIOUS

LEMMA CertAtFirst == ASSUME CE!Init PROVE CertInv
BY DEF CE!Init, CE!Nothing, CertInv, Stages, StatusAhead, RouteAhead, FlowAhead

(* What is left of it when one request goes on: the others keep their       *)
(* places, and neither the Secret nor its use goes.                         *)
LEMMA CertMoves ==
    ASSUME CertInv, NEW f \in Flows, NEW to \in Stages, CE!Goes(f, to), faults' \in Nat,
           tokens' \subseteq Flows, tokens' \ {f} = tokens \ {f},
           tls # "not yet" => tls' # "not yet", secret # CE!Nothing => secret' # CE!Nothing,
           StatusAhead', FlowAhead(f)', RouteAhead'
    PROVE  CertInv'
<1>1. flow' \in [Flows -> Stages] /\ flow'[f] = to /\ \A g \in Flows \ {f} : flow'[g] = flow[g]
  BY DEF CertInv, CE!Goes
<1>2. \A g \in Flows \ {f} : FlowAhead(g)'
  BY <1>1 DEF CertInv, FlowAhead
<1> QED
  BY <1>1, <1>2 DEF CertInv

(* A step that changes nothing but a request's place and the faults.        *)
LEMMA CertErrs ==
    ASSUME CertInv, NEW f \in Flows, CE!Errs(f)
    PROVE  CertInv'
<1>1. /\ faults' = faults + 1 /\ UNCHANGED <<status, upload, tokens, secret, tls>>
      /\ flow[f] \notin {"new", "over"}
      /\ CE!Goes(f, IF flow[f] = "route" THEN "unrouted failed" ELSE "failed")
  BY DEF CE!Errs, CE!page, CE!acme, CE!cert
<1>2. PICK to \in {"unrouted failed", "failed"} : CE!Goes(f, to)
  BY <1>1
<1>3. to \in Stages /\ flow'[f] = to
  BY <1>2 DEF Stages, CE!Goes, CertInv
<1>4. faults' \in Nat /\ faults' # 0
  <2>1. faults \in Nat /\ faults' = faults + 1
    BY <1>1 DEF CertInv
  <2> QED
    BY <2>1, OneMore
<1>5. FlowAhead(f)' /\ RouteAhead' /\ StatusAhead'
  BY <1>1, <1>3, <1>4 DEF CertInv, FlowAhead, RouteAhead, StatusAhead
<1> QED
  BY <1>1, <1>2, <1>3, <1>4, <1>5, CertMoves DEF CertInv

LEMMA CertRequests ==
    ASSUME CertInv, NEW f \in Flows,
           \/ CE!Request(f) \/ CE!Verify(f) \/ CE!FindAccount(f) \/ CE!MakeAccount(f) \/ CE!Order(f)
    PROVE  CertInv'
<1>1. /\ UNCHANGED <<tokens, route, secret, tls, upload>>
      /\ faults' = faults \/ faults' = faults + 1
      /\ status' = status \/ status' \in {"pending", "verifying"}
  BY DEF CE!Request, CE!Verify, CE!FindAccount, CE!MakeAccount, CE!Order, CE!page, CE!acme, CE!cert
<1>2. /\ flow[f] \in {"new", "started", "account", "key", "order"}
      /\ \E to \in {"started", "account", "key", "order", "failed", "store", "token"} : CE!Goes(f, to)
  BY DEF CE!Request, CE!Verify, CE!FindAccount, CE!MakeAccount, CE!Order
<1>3. PICK to \in {"started", "account", "key", "order", "failed", "store", "token"} : CE!Goes(f, to)
  BY <1>2
<1>4. to \in Stages /\ flow'[f] = to /\ \A g \in Flows \ {f} : flow'[g] = flow[g]
  BY <1>3 DEF Stages, CE!Goes, CertInv
<1>5. FlowAhead(f)'
  BY <1>1, <1>2, <1>4 DEF CertInv, FlowAhead
<1>6. faults' \in Nat /\ (faults' = 0 => faults = 0)
  <2>1. faults \in Nat
    BY DEF CertInv
  <2> QED
    BY <1>1, <2>1, OneMore
<1>7. RouteAhead' /\ StatusAhead'
  BY <1>1, <1>2, <1>4, <1>6 DEF CertInv, RouteAhead, StatusAhead
<1> QED
  BY <1>1, <1>3, <1>4, <1>5, <1>6, <1>7, CertMoves DEF CertInv

LEMMA CertChallenge ==
    ASSUME CertInv, NEW f \in Flows, CE!SetChallenge(f) \/ CE!Routed(f) \/ CE!Authorize(f)
    PROVE  CertInv'
<1>1. UNCHANGED <<status, secret, tls, faults, upload>>
  BY DEF CE!SetChallenge, CE!Routed, CE!Authorize, CE!page, CE!cert
<1>2. CASE CE!SetChallenge(f)
  <2>1. CE!Goes(f, "route") /\ flow'[f] = "route" /\ \A g \in Flows \ {f} : flow'[g] = flow[g]
    BY <1>2 DEF CE!SetChallenge, CE!Goes, CertInv
  <2>2. tokens' = tokens \cup {f} /\ UNCHANGED route /\ flow[f] = "token"
    BY <1>2 DEF CE!SetChallenge
  <2>3. FlowAhead(f)' /\ StatusAhead'
    BY <1>1, <2>1, <2>2 DEF CertInv, FlowAhead, StatusAhead
  <2>4. RouteAhead'
    BY <1>1, <2>1, <2>2 DEF CertInv, RouteAhead
  <2> QED
    BY <1>1, <2>1, <2>2, <2>3, <2>4, CertMoves DEF CertInv, Stages
<1>3. CASE CE!Routed(f)
  <2>1. /\ flow[f] = "route" /\ UNCHANGED tokens
        /\ \/ route' = f /\ CE!Goes(f, "accept")
           \/ UNCHANGED route /\ CE!Goes(f, "unrouted failed")
    BY <1>3 DEF CE!Routed
  <2>2. f \in tokens
    BY <2>1 DEF CertInv, FlowAhead
  <2>3. PICK to \in {"accept", "unrouted failed"} : CE!Goes(f, to)
    BY <2>1
  <2>4. /\ to \in Stages /\ flow'[f] = to /\ \A g \in Flows \ {f} : flow'[g] = flow[g]
        /\ \/ route' = f /\ to = "accept"
           \/ UNCHANGED route
    BY <2>1, <2>3 DEF CE!Goes, CertInv, Stages
  <2>5. FlowAhead(f)' /\ StatusAhead'
    BY <1>1, <2>1, <2>2, <2>4 DEF CertInv, FlowAhead, StatusAhead
  <2>6. RouteAhead'
    BY <1>1, <2>1, <2>2, <2>4 DEF CertInv, RouteAhead
  <2> QED
    BY <1>1, <2>1, <2>3, <2>4, <2>5, <2>6, CertMoves DEF CertInv
<1>4. CASE CE!Authorize(f)
  <2>1. /\ flow[f] = "accept" /\ UNCHANGED <<tokens, route>>
        /\ \E to \in {"store", "failed"} : CE!Goes(f, to)
    BY <1>4 DEF CE!Authorize
  <2>2. PICK to \in {"store", "failed"} : CE!Goes(f, to)
    BY <2>1
  <2>3. to \in Stages /\ flow'[f] = to /\ \A g \in Flows \ {f} : flow'[g] = flow[g]
    BY <2>2 DEF CE!Goes, CertInv, Stages
  <2>4. FlowAhead(f)' /\ StatusAhead'
    BY <1>1, <2>1, <2>3 DEF CertInv, FlowAhead, StatusAhead
  <2>5. RouteAhead'
    BY <1>1, <2>1, <2>3 DEF CertInv, RouteAhead
  <2> QED
    BY <1>1, <2>1, <2>2, <2>3, <2>4, <2>5, CertMoves DEF CertInv
<1> QED
  BY <1>2, <1>3, <1>4

LEMMA CertStores ==
    ASSUME CertInv, NEW f \in Flows, CE!Store(f) \/ CE!Attach(f)
    PROVE  CertInv'
<1>1. /\ UNCHANGED <<status, upload, tokens, route, faults>>
      /\ flow[f] \in {"store", "attach"}
      /\ \/ secret' = f /\ UNCHANGED tls /\ CE!Goes(f, "attach")
         \/ tls' = "used" /\ UNCHANGED secret /\ flow[f] = "attach" /\ CE!Goes(f, "issued")
  BY DEF CE!Store, CE!Attach, CE!page, CE!acme
<1>2. f # CE!Nothing
  BY PartsAssumption DEF CE!Nothing
<1>3. PICK to \in {"attach", "issued"} : /\ CE!Goes(f, to)
                                         /\ \/ secret' = f /\ UNCHANGED tls /\ to = "attach"
                                            \/ tls' = "used" /\ UNCHANGED secret /\ flow[f] = "attach"
  BY <1>1
<1>4. to \in Stages /\ flow'[f] = to /\ \A g \in Flows \ {f} : flow'[g] = flow[g]
  BY <1>3 DEF CE!Goes, CertInv, Stages
<1>5. secret # CE!Nothing => secret' # CE!Nothing
  BY <1>2, <1>3
<1>6. FlowAhead(f)'
  <2>1. CASE secret' = f /\ to = "attach"
    BY <1>1, <1>2, <1>4, <2>1 DEF CertInv, FlowAhead
  <2>2. CASE tls' = "used" /\ UNCHANGED secret /\ flow[f] = "attach"
    BY <1>1, <1>4, <2>2 DEF CertInv, FlowAhead
  <2> QED
    BY <1>3, <2>1, <2>2
<1>7. StatusAhead'
  BY <1>1, <1>3, <1>5 DEF CertInv, StatusAhead
<1>8. RouteAhead'
  BY <1>1, <1>4 DEF CertInv, RouteAhead
<1> QED
  BY <1>1, <1>3, <1>4, <1>5, <1>6, <1>7, <1>8, CertMoves DEF CertInv

LEMMA CertEnds ==
    ASSUME CertInv, NEW f \in Flows, CE!DropRoute(f) \/ CE!Finish(f)
    PROVE  CertInv'
<1>1. UNCHANGED <<upload, secret, tls>>
  BY DEF CE!DropRoute, CE!Finish, CE!page, CE!cert
<1>2. CASE CE!DropRoute(f)
  <2>1. /\ UNCHANGED <<status, tokens>> /\ flow[f] \in {"issued", "failed"}
        /\ CE!Goes(f, IF flow[f] = "issued" THEN "unrouted issued" ELSE "unrouted failed")
        /\ \/ route' = CE!Nothing /\ UNCHANGED faults
           \/ faults' = faults + 1
    BY <1>2 DEF CE!DropRoute
  <2>2. PICK to \in {"unrouted issued", "unrouted failed"} :
             CE!Goes(f, to) /\ (to = "unrouted issued" <=> flow[f] = "issued")
    BY <2>1
  <2>3. to \in Stages /\ flow'[f] = to
    BY <2>2 DEF CE!Goes, CertInv, Stages
  <2>4. faults' \in Nat /\ (faults' = 0 => route' = CE!Nothing)
    <3>1. faults \in Nat /\ ((route' = CE!Nothing /\ faults' = faults) \/ faults' = faults + 1)
      BY <2>1 DEF CertInv
    <3> QED
      BY <3>1, OneMore
  <2>5. FlowAhead(f)' /\ StatusAhead' /\ RouteAhead'
    BY <1>1, <2>1, <2>2, <2>3, <2>4 DEF CertInv, FlowAhead, StatusAhead, RouteAhead
  <2> QED
    BY <1>1, <2>1, <2>2, <2>3, <2>4, <2>5, CertMoves DEF CertInv
<1>3. CASE CE!Finish(f)
  <2>1. /\ \/ flow[f] \in {"issued", "failed"} /\ f \notin tokens
           \/ flow[f] \in {"unrouted issued", "unrouted failed"}
        /\ tokens' = tokens \ {f} /\ CE!Goes(f, "over")
        /\ status' = "issued" => flow[f] \in {"issued", "unrouted issued"}
        /\ UNCHANGED <<route, faults>>
    BY <1>3 DEF CE!Finish
  <2>2. flow'[f] = "over" /\ \A g \in Flows \ {f} : flow'[g] = flow[g]
    BY <2>1 DEF CE!Goes, CertInv
  <2>3. FlowAhead(f)' /\ StatusAhead'
    BY <1>1, <2>1, <2>2 DEF CertInv, FlowAhead, StatusAhead
  <2>4. RouteAhead'
    <3>1. faults = 0 => f # route \/ route = CE!Nothing
      BY <2>1 DEF CertInv, RouteAhead
    <3> QED
      BY <2>1, <2>2, <3>1 DEF CertInv, RouteAhead
  <2> QED
    BY <1>1, <2>1, <2>3, <2>4, CertMoves DEF CertInv, Stages
<1> QED
  BY <1>2, <1>3

LEMMA CertUploads ==
    ASSUME CertInv, CE!StartUpload \/ CE!UploadSteps \/ CE!UploadErrs
    PROVE  CertInv'
<1>1. UNCHANGED <<flow, tokens, route>> /\ (faults' = faults \/ faults' = faults + 1)
  BY DEF CE!StartUpload, CE!UploadSteps, CE!UploadErrs, CE!acme, CE!cert
<1>2. faults' \in Nat /\ (faults' = 0 => faults = 0)
  BY <1>1 DEF CertInv
<1>3. /\ secret' = secret \/ secret' # CE!Nothing
      /\ tls' = tls \/ tls' = "used"
  BY DEF CE!StartUpload, CE!UploadSteps, CE!UploadErrs, CE!acme, CE!cert, CE!Upload, CE!Nothing
<1>4. StatusAhead'
  <2>1. StatusAhead
    BY DEF CertInv
  <2>2. CASE CE!StartUpload
    BY <2>1, <2>2 DEF StatusAhead, CE!StartUpload, CE!acme, CE!cert
  <2>3. CASE CE!UploadSteps
    <3>1. \/ upload = "store" /\ secret' = CE!Upload /\ upload' = "attach" /\ UNCHANGED <<status, tls>>
          \/ upload = "attach" /\ tls' = "used" /\ upload' = "set" /\ UNCHANGED <<status, secret>>
          \/ upload = "set" /\ status' = "issued" /\ upload' = "idle" /\ UNCHANGED <<secret, tls>>
      BY <2>3 DEF CE!UploadSteps, CE!cert
    <3>2. CE!Upload # CE!Nothing
      BY DEF CE!Upload, CE!Nothing
    <3> QED
      BY <2>1, <3>1, <3>2 DEF StatusAhead
  <2>4. CASE CE!UploadErrs
    BY <2>1, <2>4 DEF StatusAhead, CE!UploadErrs, CE!acme, CE!cert
  <2> QED
    BY <2>2, <2>3, <2>4
<1>5. \A f \in Flows : FlowAhead(f)'
  BY <1>1, <1>3 DEF CertInv, FlowAhead
<1> QED
  BY <1>1, <1>2, <1>4, <1>5 DEF CertInv, RouteAhead

(* The pages of Ingresses and Secrets leave all but the Ingress or the      *)
(* Secret, and neither as if it had never been written.                     *)
LEMMA CertPages ==
    ASSUME CertInv, CE!UpdateIngress \/ CE!DeleteSecret
    PROVE  CertInv'
<1>1. UNCHANGED <<status, flow, upload, tokens, route, faults>>
  BY DEF CE!UpdateIngress, CE!DeleteSecret, CE!page, CE!acme
<1>2. (tls # "not yet" => tls' # "not yet") /\ (secret # CE!Nothing => secret' # CE!Nothing)
  <2>1. \/ tls' = "dropped" /\ UNCHANGED secret
        \/ secret' = CE!Taken /\ UNCHANGED tls
    BY DEF CE!UpdateIngress, CE!DeleteSecret
  <2>2. CE!Taken # CE!Nothing
    BY DEF CE!Taken, CE!Nothing
  <2> QED
    BY <2>1, <2>2
<1> QED
  BY <1>1, <1>2 DEF CertInv, StatusAhead, RouteAhead, FlowAhead

LEMMA CertRestart ==
    ASSUME CertInv, CE!Restart
    PROVE  CertInv'
<1>1. /\ faults' = faults + 1 /\ status' = "none" /\ tokens' = {} /\ upload' = "idle"
      /\ flow' = [f \in Flows |-> IF CE!Running(f) THEN "over" ELSE flow[f]]
      /\ UNCHANGED <<secret, tls>>
  BY DEF CE!Restart, CE!cert
<1>2. faults' \in Nat /\ faults' # 0
  BY <1>1 DEF CertInv
<1>3. \A f \in Flows : flow'[f] \in {"new", "over"}
  BY <1>1 DEF CE!Running
<1>4. flow' \in [Flows -> Stages]
  BY <1>1, <1>3 DEF CertInv, Stages
<1> QED
  BY <1>1, <1>2, <1>3, <1>4 DEF CertInv, StatusAhead, RouteAhead, FlowAhead

(* However requests, uploads, the pages of Ingresses and Secrets, failures  *)
(* and restarts come between each other, a certificate that is told to be   *)
(* issued has been stored and used, and only such a page has taken it away  *)
(* since; and when no request runs no token is answered any more, and no    *)
(* route to casos is left unless a removal failed.                          *)
THEOREM AlwaysCertified == FairSpec => []Certified
<1> DEFINE Sure == IF Is("certificates") THEN CertInv ELSE status = "none" /\ tokens = {} /\ route = CE!Nothing
<1>1. Init => Sure
  <2>1. Init => CE!Init
    BY DEF Init
  <2> QED
    BY <2>1, CertAtFirst DEF CE!Init
<1>2. Sure /\ [Next]_allVars => Sure'
  <2> SUFFICES ASSUME Sure, [Next]_allVars PROVE Sure'
    OBVIOUS
  <2>1. Is("certificates")' <=> Is("certificates")
    BY DEF Next, allVars, Is
  <2>2. CASE Is("certificates")
    <3>1. CE!Next \/ UNCHANGED <<ceVars, faults>>
      BY <2>2 DEF Next, allVars, Is
    <3>2. ASSUME UNCHANGED <<ceVars, faults>> PROVE CertInv'
      BY <2>2, <3>2 DEF ceVars, CertInv, StatusAhead, RouteAhead, FlowAhead
    <3> QED
      BY <2>1, <2>2, <3>1, <3>2, CertErrs, CertRequests, CertChallenge, CertStores, CertEnds, CertUploads,
         CertPages, CertRestart DEF CE!Next, CE!Flow
  <2>3. CASE ~Is("certificates")
    <3>1. UNCHANGED ceVars
      BY <2>3 DEF Next, allVars
    <3> QED
      BY <2>1, <2>3, <3>1 DEF ceVars
  <2> QED
    BY <2>2, <2>3
<1>3. Sure => Certified
  <2>1. ASSUME CertInv PROVE CE!Certified
    <3>1. CE!Issued
      BY <2>1 DEF CertInv, StatusAhead, CE!Issued
    <3>2. CE!Cleared
      BY <2>1 DEF CertInv, RouteAhead, FlowAhead, CE!Cleared, CE!Running
    <3> QED
      BY <3>1, <3>2 DEF CE!Certified
  <2>2. ASSUME status = "none" /\ tokens = {} /\ route = CE!Nothing PROVE CE!Certified
    BY <2>2 DEF CE!Certified, CE!Issued, CE!Cleared
  <2> QED
    BY <2>1, <2>2 DEF Certified
<1> QED
  BY <1>1, <1>2, <1>3, PTL DEF FairSpec

----------------------------------------------------------------------------
(* The rules of the webhooks: what the copy of a scope lacks, some request  *)
(* under way still has to read, or has read in full and has to put in its   *)
(* place, unless a copy that had seen more was replaced there.              *)
AnyRules == SUBSET (Rules \cup {PE!AllowAll})
RuleReq == [pc : {"idle", "read", "swap"}, todo : SUBSET Scopes, at : Scopes \cup {PE!Idle.at}, seen : AnyRules,
            nth : Nat]
RuleTypes ==
    /\ rules \in [Scopes -> AnyRules] /\ loaded \in [Scopes -> AnyRules \cup {PE!NotLoaded}]
    /\ changed \in [Scopes -> Nat] /\ placed \in [Scopes -> Nat]
    /\ req \in [Clients -> RuleReq] /\ faults \in Nat
(* Who has seen all changes of a scope has seen its rules.                  *)
ReadingOf(q) == q.pc = "swap" => /\ q.at \in Scopes /\ q.nth <= changed[q.at]
                                 /\ q.nth = changed[q.at] => q.seen = rules[q.at]
Reading == \A c \in Clients : ReadingOf(req[c])
Current(s) == placed[s] = changed[s] /\ loaded[s] = rules[s]
Carries(q, s) == q.pc # "idle" /\ (s \in q.todo \/ (q.pc = "swap" /\ q.at = s /\ q.nth = changed[s]))
InHand(s) == \E c \in Clients : Carries(req[c], s)
CopyAhead == boot # "seed" /\ faults = 0 => \A s \in Scopes \ older : Current(s) \/ InHand(s)
RuleInv == RuleTypes /\ Reading /\ CopyAhead /\ (boot = "seed" => PE!Busy = {})

LEMMA NoReload ==
    PE!Idle \in RuleReq /\ PE!Idle.pc = "idle"
BY DEF PE!Idle, RuleReq, AnyRules

LEMMA ReloadsOf ==
    ASSUME NEW more \in SUBSET Scopes
    PROVE  LET q == PE!Reloads(more) IN
           /\ q \in RuleReq /\ q.pc \in {"idle", "read"}
           /\ more # {} => q.pc = "read" /\ q.todo = more
           /\ more = {} => q.pc = "idle"
<1>1. \A i \in RuleReq : LET q == [i EXCEPT !.pc = "read", !.todo = more] IN
         q \in RuleReq /\ q.pc = "read" /\ q.todo = more
  BY DEF RuleReq
<1> QED
  BY <1>1, NoReload DEF PE!Reloads

LEMMA RulesAtFirst == ASSUME PE!Init PROVE RuleInv
<1>1. RuleTypes /\ PE!Busy = {}
  BY NoReload DEF PE!Init, RuleTypes, AnyRules, PE!Busy
<1> QED
  BY <1>1 DEF PE!Init, RuleInv, Reading, ReadingOf, CopyAhead, PE!Busy

(* A request that begins, beside others or none, and that names every scope *)
(* whose rules it has changed, if nothing has failed.                       *)
LEMMA ReloadBegins ==
    ASSUME RuleInv, NEW c \in Clients, req[c].pc = "idle", NEW more \in SUBSET Scopes,
           req' = [req EXCEPT ![c] = PE!Reloads(more)],
           rules' \in [Scopes -> AnyRules], changed' \in [Scopes -> Nat],
           UNCHANGED <<loaded, placed, older>>, faults' \in Nat, boot' # "seed",
           \/ PE!Busy = {}
           \/ \A s \in Scopes : (rules'[s] = rules[s] /\ changed'[s] = changed[s]) \/ changed'[s] = changed[s] + 1,
           \/ faults' # 0
           \/ more = Scopes
           \/ /\ boot # "seed" /\ faults = 0
              /\ \A s \in Scopes \ more : rules'[s] = rules[s] /\ changed'[s] = changed[s]
    PROVE  RuleInv'
<1> DEFINE q == PE!Reloads(more)
<1>1. q \in RuleReq /\ q.pc \in {"idle", "read"} /\ (more # {} => q.pc = "read" /\ q.todo = more)
  BY ReloadsOf
<1>2. req' \in [Clients -> RuleReq] /\ req'[c] = q /\ \A d \in Clients \ {c} : req'[d] = req[d]
  BY <1>1 DEF RuleInv, RuleTypes
<1> HIDE DEF q
<1>3. RuleTypes'
  BY <1>2 DEF RuleInv, RuleTypes
<1>4. Reading'
  <2>1. ASSUME NEW d \in Clients, req'[d].pc = "swap" PROVE ReadingOf(req[d])'
    <3>1. d # c /\ req'[d] = req[d] /\ req[d].pc # "idle" /\ PE!Busy # {}
      BY <1>1, <1>2, <2>1 DEF PE!Busy
    <3>2. /\ req[d].at \in Scopes /\ req[d].nth <= changed[req[d].at]
          /\ req[d].nth = changed[req[d].at] => req[d].seen = rules[req[d].at]
      BY <2>1, <3>1 DEF RuleInv, Reading, ReadingOf
    <3>3. req[d].nth \in Nat /\ changed[req[d].at] \in Nat
      BY <3>2 DEF RuleInv, RuleTypes, RuleReq
    <3>4. CASE rules'[req[d].at] = rules[req[d].at] /\ changed'[req[d].at] = changed[req[d].at]
      BY <3>1, <3>2, <3>4 DEF ReadingOf
    <3>5. CASE changed'[req[d].at] = changed[req[d].at] + 1
      <4>1. req[d].nth <= changed'[req[d].at] /\ req[d].nth # changed'[req[d].at]
        BY <3>2, <3>3, <3>5
      <4> QED
        BY <3>1, <3>2, <4>1 DEF ReadingOf
    <3> QED
      BY <3>1, <3>2, <3>4, <3>5
  <2> QED
    BY <2>1 DEF Reading, ReadingOf
<1>5. \A s \in more : InHand(s)'
  BY <1>1, <1>2 DEF InHand, Carries
<1>6. ASSUME NEW s \in Scopes, InHand(s), changed'[s] = changed[s] PROVE InHand(s)'
  <2>1. PICK d \in Clients : Carries(req[d], s)
    BY <1>6 DEF InHand
  <2>2. req'[d] = req[d]
    BY <1>2, <2>1 DEF Carries
  <2> QED
    BY <1>6, <2>1, <2>2 DEF InHand, Carries
<1>7. CopyAhead'
  BY <1>5, <1>6 DEF RuleInv, CopyAhead, Current
<1> QED
  BY <1>3, <1>4, <1>7 DEF RuleInv

(* One that ends although something failed.                                 *)
LEMMA ReloadFails ==
    ASSUME RuleInv, NEW c \in Clients, PE!Errs(c)
    PROVE  RuleInv'
<1>1. /\ req' = [req EXCEPT ![c] = PE!Idle] /\ faults' = faults + 1
      /\ UNCHANGED <<rules, loaded, boot, changed, placed, older>>
  BY DEF PE!Errs, PE!Ends, PE!history
<1>2. faults \in Nat
  BY DEF RuleInv, RuleTypes
<1>3. faults' \in Nat /\ faults' # 0
  BY <1>1, <1>2, OneMore
<1>4. req' \in [Clients -> RuleReq] /\ req'[c] = PE!Idle /\ \A d \in Clients \ {c} : req'[d] = req[d]
  BY <1>1, NoReload DEF RuleInv, RuleTypes
<1>5. Reading' /\ PE!Busy' \subseteq PE!Busy
  BY <1>1, <1>4, NoReload DEF RuleInv, Reading, ReadingOf, PE!Busy
<1> QED
  BY <1>1, <1>3, <1>4, <1>5 DEF RuleInv, RuleTypes, CopyAhead

LEMMA ReadsRules ==
    ASSUME RuleInv, NEW c \in Clients, PE!ReadRules(c)
    PROVE  RuleInv'
<1>1. /\ UNCHANGED <<rules, loaded, boot, faults, changed, placed, older>>
      /\ req[c].pc = "read" /\ req[c] \in RuleReq
  BY DEF PE!ReadRules, PE!history, RuleInv, RuleTypes
<1>2. PICK s \in req[c].todo :
         req' = [req EXCEPT ![c] = [req[c] EXCEPT !.pc = "swap", !.at = s, !.seen = rules[s], !.nth = changed[s],
                                                  !.todo = @ \ {s}]]
  BY DEF PE!ReadRules, RuleInv, RuleTypes
<1>3. s \in Scopes /\ rules[s] \in AnyRules /\ changed[s] \in Nat
  BY <1>1, <1>2 DEF RuleReq, RuleInv, RuleTypes
<1> DEFINE q == [req[c] EXCEPT !.pc = "swap", !.at = s, !.seen = rules[s], !.nth = changed[s], !.todo = @ \ {s}]
<1>4. /\ q \in RuleReq /\ q.pc = "swap" /\ q.at = s /\ q.seen = rules[s] /\ q.nth = changed[s]
      /\ q.todo = req[c].todo \ {s}
  BY <1>1, <1>3 DEF RuleReq
<1>5. req' \in [Clients -> RuleReq] /\ req'[c] = q /\ \A d \in Clients \ {c} : req'[d] = req[d]
  <2>1. req \in [Clients -> RuleReq]
    BY DEF RuleInv, RuleTypes
  <2>2. req' = [req EXCEPT ![c] = q]
    BY <1>2
  <2> HIDE DEF q
  <2> QED
    BY <1>4, <2>1, <2>2
<1> HIDE DEF q
<1>6. RuleTypes' /\ Reading'
  BY <1>1, <1>3, <1>4, <1>5 DEF RuleInv, RuleTypes, Reading, ReadingOf
<1>7. PE!Busy' \subseteq PE!Busy
  BY <1>1, <1>5 DEF PE!Busy
<1>8. \A t \in Scopes : InHand(t) => InHand(t)'
  BY <1>1, <1>4, <1>5 DEF InHand, Carries
<1> QED
  BY <1>1, <1>6, <1>7, <1>8 DEF RuleInv, CopyAhead, Current

LEMMA SwapsRules ==
    ASSUME RuleInv, NEW c \in Clients, PE!Swap(c)
    PROVE  RuleInv'
<1> DEFINE here == req[c].at
           q == PE!Reloads(req[c].todo)
<1>1. /\ UNCHANGED <<rules, boot, faults, changed>> /\ req[c].pc = "swap" /\ req[c] \in RuleReq
      /\ loaded' = [loaded EXCEPT ![here] = req[c].seen] /\ placed' = [placed EXCEPT ![here] = req[c].nth]
      /\ older' = IF req[c].nth = changed[here] THEN older \ {here}
                  ELSE IF req[c].nth < placed[here] THEN older \cup {here} ELSE older
      /\ req' = [req EXCEPT ![c] = q]
  BY DEF PE!Swap, PE!Place, RuleInv, RuleTypes
<1>2. /\ here \in Scopes /\ req[c].nth \in Nat /\ req[c].nth <= changed[here] /\ req[c].todo \in SUBSET Scopes
      /\ req[c].nth = changed[here] => req[c].seen = rules[here]
      /\ req[c].seen \in AnyRules
  BY <1>1 DEF RuleInv, Reading, ReadingOf, RuleReq
<1>3. /\ loaded' \in [Scopes -> AnyRules \cup {PE!NotLoaded}] /\ placed' \in [Scopes -> Nat]
      /\ loaded'[here] = req[c].seen /\ placed'[here] = req[c].nth
      /\ \A t \in Scopes \ {here} : loaded'[t] = loaded[t] /\ placed'[t] = placed[t]
  BY <1>1, <1>2 DEF RuleInv, RuleTypes
<1>4. q \in RuleReq /\ q.pc \in {"idle", "read"} /\ (req[c].todo # {} => q.pc = "read" /\ q.todo = req[c].todo)
  BY <1>2, ReloadsOf
<1>5. req' \in [Clients -> RuleReq] /\ req'[c] = q /\ \A d \in Clients \ {c} : req'[d] = req[d]
  BY <1>1, <1>4 DEF RuleInv, RuleTypes
<1> HIDE DEF q
<1>6. RuleTypes' /\ Reading'
  BY <1>1, <1>3, <1>4, <1>5 DEF RuleInv, RuleTypes, Reading, ReadingOf
<1>7. PE!Busy' \subseteq PE!Busy
  BY <1>1, <1>5 DEF PE!Busy
<1>8. ASSUME NEW t \in Scopes, InHand(t), t # here \/ req[c].nth # changed[here]
      PROVE  InHand(t)'
  <2>1. PICK d \in Clients : Carries(req[d], t)
    BY <1>8 DEF InHand
  <2>2. CASE d = c
    BY <1>1, <1>4, <1>5, <1>8, <2>1, <2>2 DEF InHand, Carries
  <2>3. CASE d # c
    BY <1>1, <1>5, <2>1, <2>3 DEF InHand, Carries
  <2> QED
    BY <2>2, <2>3
<1>9. ASSUME NEW t \in Scopes \ older', t \notin older => Current(t) \/ InHand(t)
      PROVE  Current(t)' \/ InHand(t)'
  <2>1. CASE t = here /\ req[c].nth = changed[here]
    BY <1>1, <1>2, <1>3, <2>1 DEF Current
  <2>2. CASE t = here /\ req[c].nth # changed[here]
    <3>1. t \notin older /\ ~(req[c].nth < placed[here])
      BY <1>1, <1>9, <2>2
    <3>2. placed[here] \in Nat /\ changed[here] \in Nat
      BY <1>2 DEF RuleInv, RuleTypes
    <3>3. ~Current(t)
      BY <1>2, <2>2, <3>1, <3>2 DEF Current
    <3> QED
      BY <1>8, <1>9, <2>2, <3>1, <3>3
  <2>3. CASE t # here
    <3>1. t \notin older
      BY <1>1, <1>9, <2>3
    <3>2. Current(t) => Current(t)'
      BY <1>1, <1>3, <2>3 DEF Current
    <3> QED
      BY <1>8, <1>9, <2>3, <3>1, <3>2
  <2> QED
    BY <2>1, <2>2, <2>3
<1>10. CopyAhead'
  BY <1>1, <1>9 DEF RuleInv, CopyAhead
<1> QED
  BY <1>1, <1>6, <1>7, <1>10 DEF RuleInv

LEMMA ChangesRules ==
    ASSUME RuleInv, NEW c \in Clients, PE!Change(c)
    PROVE  RuleInv'
<1>1. boot = "up" /\ req[c].pc = "idle" /\ UNCHANGED <<loaded, boot, placed, older>>
  BY DEF PE!Change
<1>2. PICK s \in Scopes, more \in SUBSET Scopes :
         /\ req' = [req EXCEPT ![c] = PE!Reloads(more)]
         /\ changed' = [changed EXCEPT ![s] = @ + 1]
         /\ \/ more = {s} /\ UNCHANGED faults
            \/ faults' = faults + 1
         /\ \/ \E r \in Rules : rules' = [rules EXCEPT ![s] = @ \cup {r}]
            \/ \E r \in rules[s] : rules' = [rules EXCEPT ![s] = @ \ {r}]
  <2>1. PICK s \in Scopes :
           /\ changed' = [changed EXCEPT ![s] = @ + 1]
           /\ \/ /\ \E r \in Rules \ rules[s] : rules' = [rules EXCEPT ![s] = @ \cup {r}]
                 /\ req' = [req EXCEPT ![c] = PE!Reloads({s})] /\ UNCHANGED faults
              \/ /\ \E r \in rules[s] : rules' = [rules EXCEPT ![s] = @ \ {r}]
                 /\ \/ req' = [req EXCEPT ![c] = PE!Reloads({s})] /\ UNCHANGED faults
                    \/ /\ faults' = faults + 1
                       /\ \E t \in SUBSET (Scopes \ {s}) : req' = [req EXCEPT ![c] = PE!Reloads(t)]
    BY DEF PE!Change
  <2>2. \E more \in SUBSET Scopes : /\ req' = [req EXCEPT ![c] = PE!Reloads(more)]
                                    /\ \/ more = {s} /\ UNCHANGED faults
                                       \/ faults' = faults + 1
    <3>1. {s} \in SUBSET Scopes /\ \A t \in SUBSET (Scopes \ {s}) : t \in SUBSET Scopes
      OBVIOUS
    <3> QED
      BY <2>1, <3>1
  <2>3. \/ \E r \in Rules : rules' = [rules EXCEPT ![s] = @ \cup {r}]
        \/ \E r \in rules[s] : rules' = [rules EXCEPT ![s] = @ \ {r}]
    BY <2>1
  <2> QED
    BY <2>1, <2>2, <2>3
<1>3. rules' \in [Scopes -> AnyRules] /\ \A t \in Scopes \ {s} : rules'[t] = rules[t]
  BY <1>2 DEF RuleInv, RuleTypes, AnyRules
<1>4. changed' \in [Scopes -> Nat] /\ changed'[s] = changed[s] + 1 /\ \A t \in Scopes \ {s} : changed'[t] = changed[t]
  BY <1>2 DEF RuleInv, RuleTypes
<1>5. faults \in Nat
  BY DEF RuleInv, RuleTypes
<1>6. faults' \in Nat /\ (faults' = 0 => faults = 0 /\ more = {s})
  BY <1>2, <1>5, OneMore
<1> QED
  BY <1>1, <1>2, <1>3, <1>4, <1>6, ReloadBegins

LEMMA AsksReload ==
    ASSUME RuleInv, NEW c \in Clients, PE!AskReload(c)
    PROVE  RuleInv'
<1>1. boot = "up" /\ req[c].pc = "idle" /\ UNCHANGED <<rules, loaded, boot, faults, changed, placed, older>>
  BY DEF PE!AskReload, PE!history
<1>2. PICK more \in SUBSET Scopes : req' = [req EXCEPT ![c] = PE!Reloads(more)]
  <2>1. \A t \in {Scopes} \cup {{s} : s \in Scopes} : t \in SUBSET Scopes
    OBVIOUS
  <2> QED
    BY <2>1 DEF PE!AskReload
<1>3. /\ rules' \in [Scopes -> AnyRules] /\ changed' \in [Scopes -> Nat] /\ faults' \in Nat
      /\ \A s \in Scopes : rules'[s] = rules[s] /\ changed'[s] = changed[s]
  BY <1>1 DEF RuleInv, RuleTypes
<1> QED
  BY <1>1, <1>2, <1>3, ReloadBegins

LEMMA SeedsRules ==
    ASSUME RuleInv, PE!Seed
    PROVE  RuleInv'
<1>1. PE!Busy = {} /\ boot' = "reload" /\ UNCHANGED <<loaded, faults, changed, placed, older>>
  BY DEF PE!Seed, PE!history, RuleInv
<1>2. PE!Startup \in Clients /\ req[PE!Startup].pc = "idle"
  BY <1>1, PartsAssumption DEF PE!Startup, PE!Busy
<1>3. rules' \in [Scopes -> AnyRules] /\ changed' \in [Scopes -> Nat] /\ faults' \in Nat
  BY <1>1 DEF PE!Seed, RuleInv, RuleTypes, AnyRules
<1>4. req' = [req EXCEPT ![PE!Startup] = PE!Reloads(Scopes)] /\ Scopes \in SUBSET Scopes
  BY DEF PE!Seed
<1> QED
  BY <1>1, <1>2, <1>3, <1>4, ReloadBegins

LEMMA RestartsRules ==
    ASSUME RuleInv, PE!Restart
    PROVE  RuleInv'
<1>1. /\ faults' = faults + 1 /\ boot' = "seed" /\ req' = [c \in Clients |-> PE!Idle]
      /\ loaded' = [s \in Scopes |-> PE!NotLoaded] /\ UNCHANGED <<rules, changed, placed, older>>
  BY DEF PE!Restart, PE!history
<1>2. faults' \in Nat /\ faults' # 0
  <2>1. faults \in Nat
    BY DEF RuleInv, RuleTypes
  <2> QED
    BY <1>1, <2>1, OneMore
<1>3. RuleTypes' /\ PE!Busy' = {} /\ Reading'
  BY <1>1, <1>2, NoReload DEF RuleInv, RuleTypes, PE!Busy, Reading, ReadingOf
<1> QED
  BY <1>1, <1>2, <1>3 DEF RuleInv, CopyAhead

(* Whenever no request is under way -- the addition or removal of a rule, a *)
(* reload, the reload at startup -- the webhooks ask exactly the stored     *)
(* rules, however the requests overlapped: if nothing has failed, and       *)
(* unless a copy that had seen more was replaced (casbin_enforcer.go:47).   *)
THEOREM AlwaysSettled == FairSpec => []Settled
<1> DEFINE Copied == IF Is("policies") THEN RuleInv ELSE boot = "seed"
<1>1. Init => Copied
  <2>1. Init => PE!Init
    BY DEF Init
  <2> QED
    BY <2>1, RulesAtFirst DEF PE!Init
<1>2. Copied /\ [Next]_allVars => Copied'
  <2> SUFFICES ASSUME Copied, [Next]_allVars PROVE Copied'
    OBVIOUS
  <2>1. Is("policies")' <=> Is("policies")
    BY DEF Next, allVars, Is
  <2>2. CASE Is("policies")
    <3>1. PE!Next \/ UNCHANGED <<peVars, faults>>
      BY <2>2 DEF Next, allVars, Is
    <3>2. ASSUME UNCHANGED <<peVars, faults>> PROVE RuleInv'
      BY <2>2, <3>2 DEF peVars, RuleInv, RuleTypes, Reading, ReadingOf, CopyAhead, Current, InHand, Carries, PE!Busy
    <3>3. ASSUME PE!Serve PROVE RuleInv'
      BY <2>2, <3>3 DEF PE!Serve, PE!history, RuleInv, RuleTypes, Reading, ReadingOf, CopyAhead, Current, InHand, Carries, PE!Busy
    <3> QED
      BY <2>1, <2>2, <3>1, <3>2, <3>3, SeedsRules, RestartsRules, ChangesRules, AsksReload, ReadsRules,
         SwapsRules, ReloadFails DEF PE!Next, PE!Reload
  <2>3. CASE ~Is("policies")
    <3>1. UNCHANGED peVars
      BY <2>3 DEF Next, allVars
    <3> QED
      BY <2>1, <2>3, <3>1 DEF peVars
  <2> QED
    BY <2>2, <2>3
<1>3. Copied => Settled
  <2>1. ASSUME RuleInv PROVE PE!Settled
    <3> SUFFICES ASSUME boot = "up", faults = 0, PE!Busy = {}, NEW s \in Scopes \ older
                 PROVE  loaded[s] = rules[s]
      BY DEF PE!Settled, PE!Agreed
    <3>1. ~InHand(s)
      BY DEF InHand, Carries, PE!Busy
    <3> QED
      BY <2>1, <3>1 DEF RuleInv, CopyAhead, Current
  <2>2. ASSUME boot = "seed" PROVE PE!Settled
    BY <2>2 DEF PE!Settled
  <2> QED
    BY <2>1, <2>2 DEF Settled
<1> QED
  BY <1>1, <1>2, <1>3, PTL DEF FairSpec

----------------------------------------------------------------------------
(* The certificates of the control plane, of whatever directory a start     *)
(* finds: the argument is about the directory as it will be once the stage  *)
(* has done what it has planned.                                            *)

(* What a directory d will hold of a file once the operations t are done:   *)
(* what the last of them writes there, or what it holds now.                *)
Will(d, t, f, v) ==
    \/ \E i \in DOMAIN t : /\ t[i].file = f /\ t[i].to = v
                           /\ \A k \in DOMAIN t : k > i => t[k].file # f
    \/ (\A i \in DOMAIN t : t[i].file # f) /\ d[f] = v
Then(d, t, f) == CHOOSE v : Will(d, t, f, v)
AheadOf(d, t) == [f \in CC!Files |-> Then(d, t, f)]

LEMMA AheadIs ==
    ASSUME NEW S, NEW t \in Seq(S), NEW d, NEW f \in CC!Files, NEW v, Will(d, t, f, v)
    PROVE  AheadOf(d, t)[f] = v
<1>1. \A w : Will(d, t, f, w) => w = v
  <2> SUFFICES ASSUME NEW w, Will(d, t, f, w) PROVE w = v
    OBVIOUS
  <2>1. DOMAIN t \subseteq Nat
    OBVIOUS
  <2>2. CASE \A i \in DOMAIN t : t[i].file # f
    BY <2>2 DEF Will
  <2>3. CASE \E i \in DOMAIN t : t[i].file = f
    <3>1. PICK i \in DOMAIN t : /\ t[i].file = f /\ t[i].to = v
                                /\ \A k \in DOMAIN t : k > i => t[k].file # f
      BY <2>3 DEF Will
    <3>2. PICK j \in DOMAIN t : /\ t[j].file = f /\ t[j].to = w
                                /\ \A k \in DOMAIN t : k > j => t[k].file # f
      BY <2>3 DEF Will
    <3>3. ~(i > j) /\ ~(j > i)
      BY <3>1, <3>2
    <3>4. i = j
      BY <2>1, <3>3
    <3> QED
      BY <3>1, <3>2, <3>4
  <2> QED
    BY <2>2, <2>3
<1> QED
  BY <1>1 DEF AheadOf, Then

LEMMA AheadNow == ASSUME NEW d, NEW f \in CC!Files PROVE AheadOf(d, <<>>)[f] = d[f]
<1>1. <<>> \in Seq({}) /\ DOMAIN <<>> = {}
  OBVIOUS
<1>2. Will(d, <<>>, f, d[f])
  BY <1>1 DEF Will
<1> QED
  BY <1>1, <1>2, AheadIs

(* An operation that is done was to be done.                                *)
LEMMA AheadStays ==
    ASSUME NEW S, NEW t \in Seq(S), t # <<>>, NEW d, DOMAIN d = CC!Files
    PROVE  AheadOf([d EXCEPT ![Head(t).file] = Head(t).to], Tail(t)) = AheadOf(d, t)
<1> DEFINE e == [d EXCEPT ![Head(t).file] = Head(t).to]
           u == Tail(t)
<1>1. \A f \in CC!Files : \A v : Will(e, u, f, v) <=> Will(d, t, f, v)
  <2> SUFFICES ASSUME NEW f \in CC!Files, NEW v PROVE Will(e, u, f, v) <=> Will(d, t, f, v)
    OBVIOUS
  <2>1. /\ Len(t) \in Nat /\ Len(t) > 0 /\ DOMAIN t = 1..Len(t) /\ DOMAIN u = 1..(Len(t) - 1)
        /\ \A i \in DOMAIN u : u[i] = t[i + 1]
        /\ Head(t) = t[1]
    OBVIOUS
  <2>2. e[f] = IF t[1].file = f THEN t[1].to ELSE d[f]
    BY <2>1
  <2>3. CASE \E i \in DOMAIN u : u[i].file = f
    <3>1. ASSUME Will(e, u, f, v) PROVE Will(d, t, f, v)
      <4>1. PICK i \in DOMAIN u : /\ u[i].file = f /\ u[i].to = v
                                  /\ \A k \in DOMAIN u : k > i => u[k].file # f
        BY <2>3, <3>1 DEF Will
      <4>2. i + 1 \in DOMAIN t /\ t[i + 1].file = f /\ t[i + 1].to = v
        BY <2>1, <4>1
      <4>3. ASSUME NEW k \in DOMAIN t, k > i + 1 PROVE t[k].file # f
        <5>1. k - 1 \in DOMAIN u /\ k - 1 > i /\ u[k - 1] = t[k]
          BY <2>1, <4>3
        <5> QED
          BY <4>1, <5>1
      <4> QED
        BY <4>2, <4>3 DEF Will
    <3>2. ASSUME Will(d, t, f, v) PROVE Will(e, u, f, v)
      <4>1. PICK i \in DOMAIN t : /\ t[i].file = f /\ t[i].to = v
                                  /\ \A k \in DOMAIN t : k > i => t[k].file # f
        BY <2>1, <2>3, <3>2 DEF Will
      <4>2. PICK j \in DOMAIN u : u[j].file = f
        BY <2>3
      <4>3. j + 1 \in DOMAIN t /\ t[j + 1].file = f
        BY <2>1, <4>2
      <4>4. i >= j + 1
        BY <2>1, <4>1, <4>3
      <4>5. i - 1 \in DOMAIN u /\ u[i - 1] = t[i]
        BY <2>1, <4>4
      <4>6. ASSUME NEW k \in DOMAIN u, k > i - 1 PROVE u[k].file # f
        <5>1. k + 1 \in DOMAIN t /\ k + 1 > i /\ u[k] = t[k + 1]
          BY <2>1, <4>6
        <5> QED
          BY <4>1, <5>1
      <4> QED
        BY <4>1, <4>5, <4>6 DEF Will
    <3> QED
      BY <3>1, <3>2
  <2>4. CASE \A i \in DOMAIN u : u[i].file # f
    <3>1. \A k \in DOMAIN t : k > 1 => t[k].file # f
      <4> SUFFICES ASSUME NEW k \in DOMAIN t, k > 1 PROVE t[k].file # f
        OBVIOUS
      <4>1. k - 1 \in DOMAIN u /\ u[k - 1] = t[k]
        BY <2>1
      <4> QED
        BY <2>4, <4>1
    <3>2. Will(e, u, f, v) <=> e[f] = v
      BY <2>4 DEF Will
    <3>3. CASE t[1].file = f
      <4>1. Will(d, t, f, v) <=> t[1].to = v
        BY <2>1, <3>1, <3>3 DEF Will
      <4> QED
        BY <2>2, <3>2, <3>3, <4>1
    <3>4. CASE t[1].file # f
      <4>1. \A k \in DOMAIN t : t[k].file # f
        BY <2>1, <3>1, <3>4
      <4> QED
        BY <2>2, <3>2, <3>4, <4>1 DEF Will
    <3> QED
      BY <3>3, <3>4
  <2> QED
    BY <2>3, <2>4
<1>2. ASSUME NEW f \in CC!Files PROVE Then(e, u, f) = Then(d, t, f)
  BY <1>1 DEF Then
<1> HIDE DEF e, u
<1>3. AheadOf(e, u) = AheadOf(d, t)
  BY <1>2 DEF AheadOf
<1> QED
  BY <1>3 DEF e, u

(* What the operations of each kind make of a directory.                    *)
LEMMA AheadOfOne ==
    ASSUME NEW d, NEW a, NEW v, NEW f \in CC!Files
    PROVE  AheadOf(d, <<CC!Write(a, v)>>)[f] = IF f = a THEN v ELSE d[f]
<1> DEFINE t == <<CC!Write(a, v)>>
<1>1. t \in Seq({CC!Write(a, v)}) /\ DOMAIN t = 1..1 /\ t[1].file = a /\ t[1].to = v
  BY DEF CC!Write
<1>2. Will(d, t, f, IF f = a THEN v ELSE d[f])
  BY <1>1 DEF Will
<1> QED
  BY <1>1, <1>2, AheadIs

LEMMA FourInARow ==
    ASSUME NEW x, NEW y, NEW z, NEW w
    PROVE  <<x, y>> \o <<z, w>> = <<x, y, z, w>>
<1> DEFINE S == {x, y, z, w}
           p == <<x, y>>
           q == <<z, w>>
           r == <<x, y, z, w>>
<1>1. p \in Seq(S) /\ q \in Seq(S) /\ Len(p) = 2 /\ Len(q) = 2 /\ r \in Seq(S) /\ Len(r) = 4
  OBVIOUS
<1>2. p[1] = x /\ p[2] = y /\ q[1] = z /\ q[2] = w /\ r[1] = x /\ r[2] = y /\ r[3] = z /\ r[4] = w
  OBVIOUS
<1> HIDE DEF p, q, r, S
<1>3. p \o q \in Seq(S) /\ Len(p \o q) = Len(p) + Len(q)
      /\ \A i \in 1..(Len(p) + Len(q)) : (p \o q)[i] = IF i <= Len(p) THEN p[i] ELSE q[i - Len(p)]
  BY <1>1, ConcatProperties
<1>4. (p \o q)[1] = p[1] /\ (p \o q)[2] = p[2] /\ (p \o q)[3] = q[1] /\ (p \o q)[4] = q[2]
  BY <1>1, <1>3
<1>5. \A i \in 1..4 : i = 1 \/ i = 2 \/ i = 3 \/ i = 4
  OBVIOUS
<1>6. p \o q = r
  BY <1>1, <1>2, <1>3, <1>4, <1>5
<1> QED
  BY <1>6 DEF p, q, r

LEMMA RemovesAll ==
    /\ CC!RemoveAll \in Seq([file : CC!Files, to : {CC!Absent}]) /\ DOMAIN CC!RemoveAll = 1..13
    /\ \A i \in 1..13 : CC!RemoveAll[i].file = CC!Dependents[i] /\ CC!RemoveAll[i].to = CC!Absent
<1>1. DOMAIN CC!Dependents = 1..13 /\ Len(CC!Dependents) = 13
  BY DEF CC!Dependents
<1>2. \A i \in 1..13 : CC!Dependents[i] \in CC!Files
  BY <1>1 DEF CC!Files, CC!ToSet
<1>3. CC!RemoveAll = [i \in 1..13 |-> CC!Write(CC!Dependents[i], CC!Absent)]
  BY <1>1 DEF CC!RemoveAll
<1>4. \A i \in 1..13 : CC!Write(CC!Dependents[i], CC!Absent) \in [file : CC!Files, to : {CC!Absent}]
  BY <1>2 DEF CC!Write
<1>5. CC!RemoveAll \in [1..13 -> [file : CC!Files, to : {CC!Absent}]]
  BY <1>3, <1>4
<1> QED
  BY <1>3, <1>5 DEF CC!Write

LEMMA AheadOfNone ==
    ASSUME NEW d, NEW f \in CC!Files
    PROVE  AheadOf(d, CC!RemoveAll)[f] = IF f \in CC!ToSet(CC!Dependents) THEN CC!Absent ELSE d[f]
<1>1. /\ CC!ToSet(CC!Dependents) = {CC!Dependents[i] : i \in 1..13}
      /\ \A i, k \in 1..13 : CC!Dependents[i] = CC!Dependents[k] => i = k
  BY DEF CC!ToSet, CC!Dependents
<1>2. CASE f \in CC!ToSet(CC!Dependents)
  <2>1. PICK i \in 1..13 : CC!Dependents[i] = f
    BY <1>1, <1>2
  <2>2. Will(d, CC!RemoveAll, f, CC!Absent)
    BY RemovesAll, <1>1, <2>1 DEF Will
  <2> QED
    BY RemovesAll, <1>2, <2>2, AheadIs
<1>3. CASE f \notin CC!ToSet(CC!Dependents)
  <2>1. Will(d, CC!RemoveAll, f, d[f])
    BY RemovesAll, <1>1, <1>3 DEF Will
  <2> QED
    BY RemovesAll, <1>3, <2>1, AheadIs
<1> QED
  BY <1>2, <1>3

(* A new key is a number, and not the legacy one.                           *)
LEMMA NumbersFinite == ASSUME NEW v PROVE IsFiniteSet(CC!NumbersOf(v))
<1>1. CC!NumbersOf(v) \subseteq {v.key} \cup {v.ca}
  BY DEF CC!NumbersOf
<1>2. IsFiniteSet({v.key} \cup {v.ca})
  BY FS_Singleton, FS_AddElement
<1> QED
  BY <1>1, <1>2, FS_Subset

LEMMA UsedFinite == IsFiniteSet(CC!Used)
<1>1. IsFiniteSet(CC!Files) /\ IsFiniteSet({g \in CC!Kubeconfigs : disk[g].is = "config"})
  <2>1. DOMAIN CC!Dependents = 1..13 /\ CC!ToSet(CC!Dependents) = {CC!Dependents[i] : i \in 1..13}
    BY DEF CC!Dependents, CC!ToSet
  <2> DEFINE nth == [i \in 1..13 |-> CC!Dependents[i]]
  <2>2. nth \in Surjection(1..13, CC!ToSet(CC!Dependents))
    BY <2>1 DEF Surjection
  <2>3. IsFiniteSet(1..13)
    <3>1. 1 \in Int /\ 13 \in Int
      OBVIOUS
    <3> QED
      BY <3>1, FS_Interval
  <2>4. IsFiniteSet(CC!ToSet(CC!Dependents))
    BY <2>2, <2>3, FS_Surjection
  <2>5. IsFiniteSet({"sa.key"} \cup {"sa.pub"})
    BY FS_Singleton, FS_AddElement
  <2>6. {"sa.key", "sa.pub"} = {"sa.key"} \cup {"sa.pub"}
    OBVIOUS
  <2>7. IsFiniteSet(CC!Files)
    BY <2>4, <2>5, <2>6, FS_Union DEF CC!Files
  <2>8. CC!Kubeconfigs \subseteq CC!Files
    BY DEF CC!Kubeconfigs, CC!Files, CC!Dependents, CC!ToSet
  <2> QED
    BY <2>7, <2>8, FS_Subset
<1> DEFINE F == {g \in CC!Kubeconfigs : disk[g].is = "config"}
           A == {CC!NumbersOf(disk[f]) : f \in CC!Files}
           B == {CC!NumbersOf(disk[f].ca) \cup CC!NumbersOf(disk[f].key) : f \in F}
           a == [f \in CC!Files |-> CC!NumbersOf(disk[f])]
           b == [f \in F |-> CC!NumbersOf(disk[f].ca) \cup CC!NumbersOf(disk[f].key)]
<1>2. IsFiniteSet(A)
  <2>1. a \in Surjection(CC!Files, A)
    BY DEF Surjection
  <2> QED
    BY <1>1, <2>1, FS_Surjection
<1>3. IsFiniteSet(B)
  <2>1. b \in Surjection(F, B)
    BY DEF Surjection
  <2> QED
    BY <1>1, <2>1, FS_Surjection
<1>4. \A T \in A : IsFiniteSet(T)
  BY NumbersFinite
<1>5. \A T \in B : IsFiniteSet(T)
  BY NumbersFinite, FS_Union
<1>6. IsFiniteSet(UNION A) /\ IsFiniteSet(UNION B)
  BY <1>2, <1>3, <1>4, <1>5, FS_UNION
<1> DEFINE C == UNION A
           D == UNION B
<1>7. CC!Used = C \cup D
  BY DEF CC!Used
<1>8. IsFiniteSet(C) /\ IsFiniteSet(D)
  BY <1>6
<1> HIDE DEF C, D
<1>9. IsFiniteSet(C \cup D)
  BY <1>8, FS_Union
<1> QED
  BY <1>7, <1>9

LEMMA NewKeyIsOurs == CC!NewKey # CC!Legacy
<1> DEFINE n == Cardinality(CC!Used) + 1
<1>1. IsFiniteSet(CC!Used) /\ Cardinality(CC!Used) \in Nat
  BY UsedFinite, FS_CardinalityType
<1>2. \E k \in 1..n : k \notin CC!Used
  <2> SUFFICES ASSUME 1..n \subseteq CC!Used PROVE FALSE
    OBVIOUS
  <2>1. Cardinality(1..n) = n
    BY <1>1, FS_Interval
  <2>2. Cardinality(1..n) <= Cardinality(CC!Used)
    BY <1>1, FS_Subset
  <2> QED
    BY <1>1, <2>1, <2>2
<1>3. CC!Cardinality(CC!Used) = Cardinality(CC!Used)
  BY DEF CC!Cardinality, Cardinality
<1>4. CC!NewKey \in 1..n
  BY <1>2, <1>3 DEF CC!NewKey
<1> QED
  BY <1>1, <1>4 DEF CC!Legacy

----------------------------------------------------------------------------
(* What a directory d is found to hold.                                     *)
Foundation == {"ca.crt", "ca.key", "apiserver.crt", "apiserver.key"}
Hung == {"admin.key", "admin.crt", "kubelet.key", "kubelet.crt", "webhook.crt", "webhook.key",
         "authz", "controller-manager", "scheduler"}
Account == {"sa.key", "sa.pub"}

LEMMA AllFiles ==
    /\ CC!Files = Foundation \cup Hung \cup Account
    /\ CC!ToSet(CC!Dependents) = Foundation \cup Hung
    /\ CC!Kubeconfigs = {"authz", "controller-manager", "scheduler"}
<1>1. CC!ToSet(CC!Dependents) = Foundation \cup Hung
  BY DEF CC!ToSet, CC!Dependents, Foundation, Hung
<1> QED
  BY <1>1 DEF CC!Files, Account, CC!Kubeconfigs

Rooted(d) == CC!Matches(d["ca.crt"], d["ca.key"])
NotLegacy(d) == d["ca.key"] # CC!Key(CC!Legacy)
Empty(d) == d["ca.crt"] = CC!Absent /\ d["ca.key"] = CC!Absent
Founded(d) == /\ CC!Matches(d["apiserver.crt"], d["apiserver.key"])
              /\ CC!SignedBy(d["apiserver.crt"], d["ca.crt"]) /\ d["apiserver.crt"].ip = conf.ip
Of(d, crt, private) == CC!Matches(d[crt], d[private]) /\ CC!SignedBy(d[crt], d["ca.crt"])
Accounts(d) == d["sa.key"] = d["sa.pub"] /\ d["sa.key"].is = "key"
Configured(d, f) == d[f] = CC!Config(d["ca.crt"], d["admin.crt"], d["admin.key"], conf.port)

(* What hangs from the authority is its own, as long as no start was cut    *)
(* short; without an authority nothing hangs from it.                       *)
NoAccounts(d) == d["sa.key"] = CC!Absent /\ d["sa.pub"] = CC!Absent
Coherent(d) ==
    /\ Empty(d) => \A f \in Hung : d[f] = CC!Absent
    /\ d["admin.crt"] = CC!Absent \/ Of(d, "admin.crt", "admin.key")
    /\ d["kubelet.crt"] = CC!Absent \/ Of(d, "kubelet.crt", "kubelet.key")
    /\ \/ d["webhook.crt"] = CC!Absent \/ d["webhook.key"] = CC!Absent
       \/ Of(d, "webhook.crt", "webhook.key")
    /\ \A f \in CC!Kubeconfigs :
          \/ d[f] = CC!Absent
          \/ /\ Of(d, "admin.crt", "admin.key") /\ d[f].is = "config"
             /\ d[f] = CC!Config(d["ca.crt"], d["admin.crt"], d["admin.key"], d[f].port)

(* The stages from each one on.                                             *)
SinceManager == {"controller-manager", "serving"}
SinceScheduler == {"scheduler"} \cup SinceManager
SinceWebhook == {"webhook"} \cup SinceScheduler
SinceAuthz == {"authz"} \cup SinceWebhook
SinceSa == {"sa"} \cup SinceAuthz
SinceKubelet == {"kubelet"} \cup SinceSa
SinceAdmin == {"admin"} \cup SinceKubelet
SinceApiserver == {"apiserver"} \cup SinceAdmin
SinceCa == {"ca"} \cup SinceApiserver
SinceUsable == {"usable"} \cup SinceCa

LEMMA Since ==
    /\ SinceManager = {"controller-manager", "serving"}
    /\ SinceScheduler = {"scheduler", "controller-manager", "serving"}
    /\ SinceWebhook = {"webhook", "scheduler", "controller-manager", "serving"}
    /\ SinceAuthz = {"authz", "webhook", "scheduler", "controller-manager", "serving"}
    /\ SinceSa = {"sa", "authz", "webhook", "scheduler", "controller-manager", "serving"}
    /\ SinceKubelet = {"kubelet", "sa", "authz", "webhook", "scheduler", "controller-manager", "serving"}
    /\ SinceAdmin = {"admin"} \cup SinceKubelet
    /\ SinceApiserver = {"apiserver", "admin"} \cup SinceKubelet
    /\ SinceCa = {"ca", "apiserver", "admin"} \cup SinceKubelet
    /\ SinceUsable = {"usable", "ca", "apiserver", "admin"} \cup SinceKubelet
BY DEF SinceManager, SinceScheduler, SinceWebhook, SinceAuthz, SinceSa, SinceKubelet, SinceAdmin,
       SinceApiserver, SinceCa, SinceUsable

(* What the stage s leaves, however earlier starts ended.                   *)
Heals(s, d) ==
    /\ s # "down" => NotLegacy(d)
    /\ s = "usable" => Empty(d) \/ Rooted(d)
    /\ s \in SinceCa => Rooted(d)
    /\ s \in SinceApiserver => Founded(d)
(* And if no start was cut short.                                           *)
Hangs(s, d) ==
    /\ NoAccounts(d) \/ Accounts(d)
    /\ s \in SinceUsable \/ Empty(d) \/ Rooted(d) => Coherent(d)
    /\ s \in SinceAdmin => Of(d, "admin.crt", "admin.key")
    /\ s \in SinceKubelet => Of(d, "kubelet.crt", "kubelet.key")
    /\ s \in SinceSa => Accounts(d)
    /\ s \in SinceAuthz => Configured(d, "authz")
    /\ s \in SinceWebhook => Of(d, "webhook.crt", "webhook.key")
    /\ s \in SinceScheduler => Configured(d, "scheduler")
    /\ s \in SinceManager => Configured(d, "controller-manager")
Ahead == AheadOf(disk, todo)
Writes(t, F) == (\E S : t \in Seq(S)) /\ \A i \in DOMAIN t : t[i].file \in F
Plan == /\ DOMAIN disk = CC!Files
        /\ Writes(todo, IF stage \in SinceAdmin THEN CC!Files \ Foundation ELSE CC!Files)
        /\ stage \in {"serving", "down"} => todo = <<>>
        /\ stage \in SinceUsable \cup {"legacy", "down"}
        /\ faults \in Nat
Healing == Plan /\ Heals(stage, Ahead) /\ (faults = 0 => Hangs(stage, Ahead))

LEMMA StagesInARow ==
    /\ CC!ToSet(CC!Stages) = {"legacy", "usable", "ca", "apiserver", "admin", "kubelet", "sa", "authz", "webhook",
                        "scheduler", "controller-manager"}
    /\ CC!NextStage("legacy") = "usable" /\ CC!NextStage("usable") = "ca" /\ CC!NextStage("ca") = "apiserver"
    /\ CC!NextStage("apiserver") = "admin" /\ CC!NextStage("admin") = "kubelet" /\ CC!NextStage("kubelet") = "sa"
    /\ CC!NextStage("sa") = "authz" /\ CC!NextStage("authz") = "webhook" /\ CC!NextStage("webhook") = "scheduler"
    /\ CC!NextStage("scheduler") = "controller-manager" /\ CC!NextStage("controller-manager") = "serving"
<1>1. Len(CC!Stages) = 11 /\ DOMAIN CC!Stages = 1..11 /\ CC!Last(CC!Stages) = "controller-manager"
  BY DEF CC!Stages, CC!Last
<1>2. \A i \in 2..11 : CC!NextStage(CC!Stages[i - 1]) = CC!Stages[i]
  <2> SUFFICES ASSUME NEW i \in 2..11 PROVE CC!NextStage(CC!Stages[i - 1]) = CC!Stages[i]
    OBVIOUS
  <2>1. CC!Stages[i - 1] # "controller-manager" /\ \A k \in 2..11 : CC!Stages[k - 1] = CC!Stages[i - 1] => k = i
    BY DEF CC!Stages
  <2>2. (CHOOSE k \in 2..Len(CC!Stages) : CC!Stages[k - 1] = CC!Stages[i - 1]) = i
    BY <1>1, <2>1
  <2> QED
    BY <1>1, <2>1, <2>2 DEF CC!NextStage
<1>3. /\ CC!Stages[1] = "legacy" /\ CC!Stages[2] = "usable" /\ CC!Stages[3] = "ca" /\ CC!Stages[4] = "apiserver"
      /\ CC!Stages[5] = "admin" /\ CC!Stages[6] = "kubelet" /\ CC!Stages[7] = "sa" /\ CC!Stages[8] = "authz"
      /\ CC!Stages[9] = "webhook" /\ CC!Stages[10] = "scheduler" /\ CC!Stages[11] = "controller-manager"
  BY DEF CC!Stages
<1>4. CC!NextStage("controller-manager") = "serving"
  BY <1>1 DEF CC!NextStage
<1>5. CC!ToSet(CC!Stages) = {CC!Stages[i] : i \in 1..11}
  BY <1>1 DEF CC!ToSet
<1>6. /\ CC!NextStage(CC!Stages[1]) = CC!Stages[2] /\ CC!NextStage(CC!Stages[2]) = CC!Stages[3] /\ CC!NextStage(CC!Stages[3]) = CC!Stages[4]
      /\ CC!NextStage(CC!Stages[4]) = CC!Stages[5] /\ CC!NextStage(CC!Stages[5]) = CC!Stages[6] /\ CC!NextStage(CC!Stages[6]) = CC!Stages[7]
      /\ CC!NextStage(CC!Stages[7]) = CC!Stages[8] /\ CC!NextStage(CC!Stages[8]) = CC!Stages[9] /\ CC!NextStage(CC!Stages[9]) = CC!Stages[10]
      /\ CC!NextStage(CC!Stages[10]) = CC!Stages[11]
  <2>1. \A i \in 1..10 : CC!NextStage(CC!Stages[i]) = CC!Stages[i + 1]
    <3> SUFFICES ASSUME NEW i \in 1..10 PROVE CC!NextStage(CC!Stages[i]) = CC!Stages[i + 1]
      OBVIOUS
    <3>1. i + 1 \in 2..11 /\ (i + 1) - 1 = i
      OBVIOUS
    <3> QED
      BY <1>2, <3>1
  <2> QED
    BY <2>1
<1>7. \A i \in 1..11 : \/ i = 1 \/ i = 2 \/ i = 3 \/ i = 4 \/ i = 5 \/ i = 6 \/ i = 7 \/ i = 8 \/ i = 9
                       \/ i = 10 \/ i = 11
  OBVIOUS
<1>8. {CC!Stages[i] : i \in 1..11}
         = {"legacy", "usable", "ca", "apiserver", "admin", "kubelet", "sa", "authz", "webhook",
            "scheduler", "controller-manager"}
  BY <1>3, <1>7
<1> QED
  BY <1>3, <1>4, <1>5, <1>6, <1>8

(* What a stage leaves depends on the files only.                           *)
LEMMA SameFiles ==
    ASSUME NEW d, NEW e, \A f \in CC!Files : e[f] = d[f], NEW s
    PROVE  (Heals(s, d) => Heals(s, e)) /\ (Hangs(s, d) => Hangs(s, e))
<1>1. /\ e["ca.crt"] = d["ca.crt"] /\ e["ca.key"] = d["ca.key"]
      /\ e["apiserver.crt"] = d["apiserver.crt"] /\ e["apiserver.key"] = d["apiserver.key"]
      /\ e["admin.crt"] = d["admin.crt"] /\ e["admin.key"] = d["admin.key"]
      /\ e["kubelet.crt"] = d["kubelet.crt"] /\ e["kubelet.key"] = d["kubelet.key"]
      /\ e["webhook.crt"] = d["webhook.crt"] /\ e["webhook.key"] = d["webhook.key"]
      /\ e["sa.key"] = d["sa.key"] /\ e["sa.pub"] = d["sa.pub"]
      /\ e["authz"] = d["authz"] /\ e["scheduler"] = d["scheduler"]
      /\ e["controller-manager"] = d["controller-manager"]
      /\ \A f \in Hung \cup CC!Kubeconfigs : e[f] = d[f]
  BY AllFiles DEF Foundation, Hung, Account
<1>2. Heals(s, d) => Heals(s, e)
  BY <1>1 DEF Heals, NotLegacy, Empty, Rooted, Founded
<1>3. Hangs(s, d) => Hangs(s, e)
  <2>1. Coherent(d) => Coherent(e)
    BY <1>1 DEF Coherent, Empty, Of
  <2> QED
    BY <1>1, <2>1 DEF Hangs, NoAccounts, Accounts, Empty, Rooted, Of, Configured
<1> QED
  BY <1>2, <1>3

(* The directory as the stage s will leave it, if it now finds it.          *)
After(s) == AheadOf(disk, CC!Work(s))

LEMMA Works ==
    /\ CC!Work("legacy") = IF CC!caKeyIsECDSA THEN CC!RemoveAll ELSE <<>>
    /\ CC!Work("usable") = IF CC!existingCACertKeyUsable THEN <<>> ELSE CC!RemoveAll
    /\ CC!Work("ca") = IF CC!Exists("ca.crt") /\ CC!Exists("ca.key") THEN <<>>
                    ELSE <<CC!Write("ca.crt", CC!Cert(CC!NewKey, CC!NewKey, 0)), CC!Write("ca.key", CC!Key(CC!NewKey))>>
    /\ CC!Work("apiserver") = IF CC!apiServerServingCertUsable THEN <<>>
                           ELSE <<CC!Write("apiserver.key", CC!Absent), CC!Write("apiserver.crt", CC!Absent),
                                  CC!Write("apiserver.crt", CC!Cert(CC!NewKey, CC!CA, conf.ip)),
                                  CC!Write("apiserver.key", CC!Key(CC!NewKey))>>
    /\ CC!Work("admin") = IF CC!Exists("admin.crt") THEN <<>>
                       ELSE <<CC!Write("admin.crt", CC!Cert(CC!NewKey, CC!CA, 0)), CC!Write("admin.key", CC!Key(CC!NewKey))>>
    /\ CC!Work("kubelet") = IF CC!Exists("kubelet.crt") THEN <<>>
                         ELSE <<CC!Write("kubelet.crt", CC!Cert(CC!NewKey, CC!CA, 0)), CC!Write("kubelet.key", CC!Key(CC!NewKey))>>
    /\ CC!Work("sa") = IF CC!Exists("sa.key") /\ CC!Exists("sa.pub") THEN <<>>
                    ELSE <<CC!Write("sa.key", CC!Key(CC!NewKey)), CC!Write("sa.pub", CC!Key(CC!NewKey))>>
    /\ CC!Work("webhook") = IF CC!Exists("webhook.crt") /\ CC!Exists("webhook.key")
                         THEN IF CC!webhookCertValidUnderCA THEN <<>>
                              ELSE <<CC!Write("webhook.crt", CC!Absent), CC!Write("webhook.key", CC!Absent),
                                     CC!Write("webhook.crt", CC!Cert(CC!NewKey, CC!CA, 0)), CC!Write("webhook.key", CC!Key(CC!NewKey))>>
                         ELSE <<CC!Write("webhook.crt", CC!Cert(CC!NewKey, CC!CA, 0)), CC!Write("webhook.key", CC!Key(CC!NewKey))>>
    /\ \A f \in CC!Kubeconfigs : CC!Work(f) = CC!Kubeconfig(f)
<1>1. CC!Work("apiserver") = IF CC!apiServerServingCertUsable THEN <<>>
                          ELSE <<CC!Write("apiserver.key", CC!Absent), CC!Write("apiserver.crt", CC!Absent)>>
                               \o <<CC!Write("apiserver.crt", CC!Cert(CC!NewKey, CC!CA, conf.ip)),
                                    CC!Write("apiserver.key", CC!Key(CC!NewKey))>>
  BY DEF CC!Work, CC!Pair
<1>2. CASE CC!Exists("webhook.crt") /\ CC!Exists("webhook.key") /\ ~CC!webhookCertValidUnderCA
  <2>1. CC!Work("webhook") = <<CC!Write("webhook.crt", CC!Absent), CC!Write("webhook.key", CC!Absent)>>
                          \o <<CC!Write("webhook.crt", CC!Cert(CC!NewKey, CC!CA, 0)), CC!Write("webhook.key", CC!Key(CC!NewKey))>>
    BY <1>2 DEF CC!Work, CC!EnsureWebhookCert, CC!Pair
  <2> QED
    BY <1>1, <1>2, <2>1, FourInARow DEF CC!Work, CC!Pair, CC!Kubeconfigs
<1>3. CASE CC!Exists("webhook.crt") /\ CC!Exists("webhook.key") /\ CC!webhookCertValidUnderCA
  <2>1. CC!Work("webhook") = <<>>
    BY <1>3 DEF CC!Work, CC!EnsureWebhookCert
  <2> QED
    BY <1>1, <1>3, <2>1, FourInARow DEF CC!Work, CC!Pair, CC!Kubeconfigs
<1>4. CASE ~(CC!Exists("webhook.crt") /\ CC!Exists("webhook.key"))
  <2>1. CC!Work("webhook") = <<>> \o <<CC!Write("webhook.crt", CC!Cert(CC!NewKey, CC!CA, 0)), CC!Write("webhook.key", CC!Key(CC!NewKey))>>
    BY <1>4 DEF CC!Work, CC!EnsureWebhookCert, CC!Pair
  <2>2. CC!Work("webhook") = <<CC!Write("webhook.crt", CC!Cert(CC!NewKey, CC!CA, 0)), CC!Write("webhook.key", CC!Key(CC!NewKey))>>
    BY <2>1, ConcatEmptySeq
  <2> QED
    BY <1>1, <1>4, <2>2, FourInARow DEF CC!Work, CC!Pair, CC!Kubeconfigs
<1> QED
  BY <1>2, <1>3, <1>4

LEMMA NothingToDo ==
    ASSUME NEW s, NEW t, CC!Work(t) = <<>>
    PROVE  /\ Heals(s, disk) => Heals(s, After(t))
           /\ Hangs(s, disk) => Hangs(s, After(t))
<1>1. \A f \in CC!Files : After(t)[f] = disk[f]
  BY AheadNow DEF After
<1> QED
  BY <1>1, SameFiles

(* Throwing all of it away is fine with everybody before the authority.     *)
LEMMA AllRemoved ==
    ASSUME NEW t, CC!Work(t) = CC!RemoveAll, t \in {"legacy", "usable"}
    PROVE  Heals(t, After(t)) /\ (NoAccounts(disk) \/ Accounts(disk) => Hangs(t, After(t)))
<1>1. /\ \A f \in Foundation \cup Hung : After(t)[f] = CC!Absent
      /\ \A f \in Account : After(t)[f] = disk[f]
  <2>1. Foundation \cup Hung \subseteq CC!Files /\ Account \subseteq CC!Files
    BY AllFiles
  <2>2. \A f \in Account : f \notin CC!ToSet(CC!Dependents)
    BY AllFiles DEF Foundation, Hung, Account
  <2> QED
    BY AheadOfNone, AllFiles, <2>1, <2>2 DEF After
<1>2. CC!Absent # CC!Key(CC!Legacy) /\ "down" # t /\ t \notin SinceCa
  BY Since DEF CC!Absent, CC!Key
<1>3. Empty(After(t))
  BY <1>1 DEF Empty, Foundation
<1>4. Heals(t, After(t))
  BY <1>1, <1>2, <1>3, Since DEF Heals, NotLegacy, Foundation
<1>5. Coherent(After(t))
  BY <1>1 DEF Coherent, Hung, CC!Kubeconfigs
<1>6. NoAccounts(disk) \/ Accounts(disk) => NoAccounts(After(t)) \/ Accounts(After(t))
  BY <1>1 DEF NoAccounts, Accounts, Account
<1> QED
  BY <1>2, <1>4, <1>5, <1>6, Since DEF Hangs

(* The stages one by one: what each finds and leaves.                       *)
LEMMA ToLegacy == Heals("legacy", After("legacy")) /\ (Hangs("down", disk) => Hangs("legacy", After("legacy")))
<1>1. CASE CC!caKeyIsECDSA
  BY <1>1, Works, AllRemoved DEF Hangs
<1>2. CASE ~CC!caKeyIsECDSA
  <2>1. Heals("legacy", disk)
    BY <1>2, Since DEF Heals, NotLegacy, CC!caKeyIsECDSA
  <2>2. Hangs("down", disk) => Hangs("legacy", disk)
    BY Since DEF Hangs
  <2> QED
    BY <1>2, <2>1, <2>2, Works, NothingToDo
<1> QED
  BY <1>1, <1>2

LEMMA ToUsable ==
    ASSUME Heals("legacy", disk)
    PROVE  Heals("usable", After("usable")) /\ (Hangs("legacy", disk) => Hangs("usable", After("usable")))
<1>1. CASE CC!existingCACertKeyUsable
  <2>1. Empty(disk) \/ Rooted(disk)
    BY <1>1 DEF CC!existingCACertKeyUsable, Empty, Rooted, CC!Exists
  <2>2. Heals("usable", disk)
    BY <2>1, Since DEF Heals
  <2>3. Hangs("legacy", disk) => Hangs("usable", disk)
    BY <2>1, Since DEF Hangs
  <2> QED
    BY <1>1, <2>2, <2>3, Works, NothingToDo
<1>2. CASE ~CC!existingCACertKeyUsable
  BY <1>2, Works, AllRemoved DEF Hangs
<1> QED
  BY <1>1, <1>2

(* A stage that makes two files leaves the others as they are.              *)
OtherFiles(a, b, e) == \A f \in CC!Files \ {a, b} : e[f] = disk[f]
LEMMA TwoMade ==
    ASSUME NEW t, NEW a \in CC!Files, NEW b \in CC!Files, a # b, NEW v, NEW w,
           CC!Work(t) = <<CC!Write(a, v), CC!Write(b, w)>>
    PROVE  After(t)[a] = v /\ After(t)[b] = w /\ OtherFiles(a, b, After(t))
<1> DEFINE u == <<CC!Write(a, v), CC!Write(b, w)>>
           S == {CC!Write(a, v), CC!Write(b, w)}
<1>1. u \in Seq(S) /\ DOMAIN u = 1..2 /\ u[1].file = a /\ u[1].to = v /\ u[2].file = b /\ u[2].to = w
  BY DEF CC!Write
<1>2. ASSUME NEW f \in CC!Files
      PROVE  Will(disk, u, f, IF f = a THEN v ELSE IF f = b THEN w ELSE disk[f])
  BY <1>1 DEF Will
<1>3. CC!Work(t) = u
  OBVIOUS
<1> HIDE DEF u, S
<1>4. \A f \in CC!Files : After(t)[f] = IF f = a THEN v ELSE IF f = b THEN w ELSE disk[f]
  BY <1>1, <1>2, <1>3, AheadIs DEF After
<1> QED
  BY <1>4 DEF OtherFiles

LEMMA FourMade ==
    ASSUME NEW t, NEW a \in CC!Files, NEW b \in CC!Files, a # b, NEW v, NEW w,
           NEW x, x \in {a, b}, NEW y, y \in {a, b},
           CC!Work(t) = <<CC!Write(x, CC!Absent), CC!Write(y, CC!Absent), CC!Write(a, v), CC!Write(b, w)>>
    PROVE  After(t)[a] = v /\ After(t)[b] = w /\ OtherFiles(a, b, After(t))
<1> DEFINE u == <<CC!Write(x, CC!Absent), CC!Write(y, CC!Absent), CC!Write(a, v), CC!Write(b, w)>>
           S == {CC!Write(x, CC!Absent), CC!Write(y, CC!Absent), CC!Write(a, v), CC!Write(b, w)}
<1>1. /\ u \in Seq(S) /\ DOMAIN u = 1..4
      /\ u[3].file = a /\ u[3].to = v /\ u[4].file = b /\ u[4].to = w
      /\ u[1].file \in {a, b} /\ u[2].file \in {a, b}
  BY DEF CC!Write
<1>2. ASSUME NEW f \in CC!Files
      PROVE  Will(disk, u, f, IF f = a THEN v ELSE IF f = b THEN w ELSE disk[f])
  BY <1>1 DEF Will
<1>3. CC!Work(t) = u
  OBVIOUS
<1> HIDE DEF u, S
<1>4. \A f \in CC!Files : After(t)[f] = IF f = a THEN v ELSE IF f = b THEN w ELSE disk[f]
  BY <1>1, <1>2, <1>3, AheadIs DEF After
<1> QED
  BY <1>4 DEF OtherFiles

LEMMA ToCa ==
    ASSUME Heals("usable", disk)
    PROVE  Heals("ca", After("ca")) /\ (Hangs("usable", disk) => Hangs("ca", After("ca")))
<1>1. CASE CC!Exists("ca.crt") /\ CC!Exists("ca.key")
  <2>1. Rooted(disk)
    BY <1>1, Since DEF Heals, Empty, CC!Exists
  <2>2. Heals("ca", disk) /\ (Hangs("usable", disk) => Hangs("ca", disk))
    BY <2>1, Since DEF Heals, Hangs
  <2> QED
    BY <1>1, <2>2, Works, NothingToDo
<1>2. CASE ~(CC!Exists("ca.crt") /\ CC!Exists("ca.key"))
  <2>1. Empty(disk)
    BY <1>2, Since DEF Heals, Rooted, CC!Matches, CC!Exists, CC!Absent
  <2> DEFINE e == After("ca")
  <2>2. e["ca.crt"] = CC!Cert(CC!NewKey, CC!NewKey, 0) /\ e["ca.key"] = CC!Key(CC!NewKey) /\ OtherFiles("ca.crt", "ca.key", e)
    <3>1. CC!Work("ca") = <<CC!Write("ca.crt", CC!Cert(CC!NewKey, CC!NewKey, 0)), CC!Write("ca.key", CC!Key(CC!NewKey))>>
      BY <1>2, Works
    <3>2. "ca.crt" \in CC!Files /\ "ca.key" \in CC!Files
      BY AllFiles DEF Foundation
    <3> QED
      BY <3>1, <3>2, TwoMade
  <2>3. Rooted(e) /\ NotLegacy(e) /\ ~Empty(e)
    BY <2>2, NewKeyIsOurs DEF Rooted, NotLegacy, Empty, CC!Matches, CC!Cert, CC!Key, CC!Absent
  <2>4. Heals("ca", e)
    BY <2>3, Since DEF Heals
  <2>5. ASSUME Hangs("usable", disk) PROVE Hangs("ca", e)
    <3>1. \A f \in Hung : e[f] = CC!Absent
      <4>1. \A f \in Hung : disk[f] = CC!Absent
        BY <2>1, <2>5, Since DEF Hangs, Coherent
      <4> QED
        BY <2>2, <4>1, AllFiles DEF OtherFiles, Hung
    <3>2. Coherent(e)
      BY <3>1 DEF Coherent, Hung, CC!Kubeconfigs
    <3>3. NoAccounts(e) \/ Accounts(e)
      BY <2>2, <2>5, AllFiles DEF OtherFiles, Hangs, NoAccounts, Accounts, Account
    <3> QED
      BY <3>2, <3>3, Since DEF Hangs
  <2> QED
    BY <2>4, <2>5
<1> QED
  BY <1>1, <1>2

LEMMA ToApiserver ==
    ASSUME Heals("ca", disk)
    PROVE  /\ Heals("apiserver", After("apiserver"))
           /\ Hangs("ca", disk) => Hangs("apiserver", After("apiserver"))
<1>1. CASE CC!apiServerServingCertUsable
  <2>1. Heals("apiserver", disk) /\ (Hangs("ca", disk) => Hangs("apiserver", disk))
    BY <1>1, Since DEF Heals, Hangs, Founded, CC!apiServerServingCertUsable
  <2> QED
    BY <1>1, <2>1, Works, NothingToDo
<1>2. CASE ~CC!apiServerServingCertUsable
  <2> DEFINE e == After("apiserver")
  <2>1. /\ e["apiserver.crt"] = CC!Cert(CC!NewKey, CC!CA, conf.ip) /\ e["apiserver.key"] = CC!Key(CC!NewKey)
        /\ OtherFiles("apiserver.crt", "apiserver.key", e)
    <3>1. CC!Work("apiserver") = <<CC!Write("apiserver.key", CC!Absent), CC!Write("apiserver.crt", CC!Absent),
                               CC!Write("apiserver.crt", CC!Cert(CC!NewKey, CC!CA, conf.ip)), CC!Write("apiserver.key", CC!Key(CC!NewKey))>>
      BY <1>2, Works
    <3>2. "apiserver.crt" \in CC!Files /\ "apiserver.key" \in CC!Files
      BY AllFiles DEF Foundation
    <3> QED
      BY <3>1, <3>2, FourMade
  <2>2. \A f \in CC!Files \ {"apiserver.crt", "apiserver.key"} : e[f] = disk[f]
    BY <2>1 DEF OtherFiles
  <2>3. /\ e["ca.crt"] = disk["ca.crt"] /\ e["ca.key"] = disk["ca.key"]
        /\ \A f \in Hung \cup Account : e[f] = disk[f]
    BY <2>2, AllFiles DEF Foundation, Hung, Account
  <2>4. Rooted(e) /\ NotLegacy(e) /\ Founded(e)
    BY <2>1, <2>3, Since DEF Heals, Rooted, NotLegacy, Founded, CC!Matches, CC!SignedBy, CC!Cert, CC!Key, CC!CA
  <2>5. Heals("apiserver", e)
    BY <2>4, Since DEF Heals
  <2>6. ASSUME Hangs("ca", disk) PROVE Hangs("apiserver", e)
    <3>1. Coherent(disk)
      BY <2>6, Since DEF Hangs
    <3>2. Coherent(e)
      <4>1. (Empty(e) <=> Empty(disk)) /\ \A f \in CC!Kubeconfigs : e[f] = disk[f]
        BY <2>3 DEF Empty, CC!Kubeconfigs, Hung
      <4>2. /\ e["admin.crt"] = disk["admin.crt"] /\ e["admin.key"] = disk["admin.key"]
            /\ e["kubelet.crt"] = disk["kubelet.crt"] /\ e["kubelet.key"] = disk["kubelet.key"]
            /\ e["webhook.crt"] = disk["webhook.crt"] /\ e["webhook.key"] = disk["webhook.key"]
        BY <2>3 DEF Hung
      <4> QED
        BY <2>3, <3>1, <4>1, <4>2 DEF Coherent, Of
    <3>3. NoAccounts(e) \/ Accounts(e)
      BY <2>3, <2>6 DEF Hangs, NoAccounts, Accounts, Account
    <3> QED
      BY <3>2, <3>3, Since DEF Hangs
  <2> QED
    BY <2>5, <2>6
<1> QED
  BY <1>1, <1>2

(* From here on the authority stays.                                        *)
LEMMA FoundationStays ==
    ASSUME NEW s, s \in SinceApiserver, NEW t, t \in SinceAdmin, Heals(s, disk),
           NEW e, \A f \in Foundation : e[f] = disk[f]
    PROVE  Heals(t, e)
<1>1. /\ e["ca.crt"] = disk["ca.crt"] /\ e["ca.key"] = disk["ca.key"]
      /\ e["apiserver.crt"] = disk["apiserver.crt"] /\ e["apiserver.key"] = disk["apiserver.key"]
  BY DEF Foundation
<1>2. NotLegacy(disk) /\ Rooted(disk) /\ Founded(disk)
  BY Since DEF Heals
<1>3. NotLegacy(e) /\ Rooted(e) /\ Founded(e)
  BY <1>1, <1>2 DEF NotLegacy, Rooted, Founded
<1> QED
  BY <1>3, Since DEF Heals

LEMMA ToAdmin ==
    ASSUME Heals("apiserver", disk)
    PROVE  Heals("admin", After("admin")) /\ (Hangs("apiserver", disk) => Hangs("admin", After("admin")))
<1>0. Rooted(disk) /\ ~Empty(disk)
  BY Since DEF Heals, Rooted, Empty, CC!Matches, CC!Absent
<1>1. CASE CC!Exists("admin.crt")
  <2>1. Heals("admin", disk)
    BY FoundationStays, Since
  <2>2. Hangs("apiserver", disk) => Hangs("admin", disk)
    BY <1>1, Since DEF Hangs, Coherent, CC!Exists
  <2> QED
    BY <1>1, <2>1, <2>2, Works, NothingToDo
<1>2. CASE ~CC!Exists("admin.crt")
  <2> DEFINE e == After("admin")
  <2>1. e["admin.crt"] = CC!Cert(CC!NewKey, CC!CA, 0) /\ e["admin.key"] = CC!Key(CC!NewKey) /\ OtherFiles("admin.crt", "admin.key", e)
    <3>1. CC!Work("admin") = <<CC!Write("admin.crt", CC!Cert(CC!NewKey, CC!CA, 0)), CC!Write("admin.key", CC!Key(CC!NewKey))>>
      BY <1>2, Works
    <3>2. "admin.crt" \in CC!Files /\ "admin.key" \in CC!Files
      BY AllFiles DEF Hung
    <3> QED
      BY <3>1, <3>2, TwoMade
  <2>2. /\ \A f \in Foundation \cup Account : e[f] = disk[f]
        /\ \A f \in Hung \ {"admin.crt", "admin.key"} : e[f] = disk[f]
    BY <2>1, AllFiles DEF OtherFiles, Foundation, Hung, Account
  <2>3. Heals("admin", e)
    BY <2>2, FoundationStays, Since
  <2>4. Of(e, "admin.crt", "admin.key")
    BY <1>0, <2>1, <2>2 DEF Of, CC!Matches, CC!SignedBy, CC!Cert, CC!Key, CC!CA, Rooted, Foundation
  <2>5. ASSUME Hangs("apiserver", disk) PROVE Hangs("admin", e)
    <3>1. Coherent(disk)
      BY <2>5, Since DEF Hangs
    <3>2. \A f \in CC!Kubeconfigs : disk[f] = CC!Absent
      BY <1>2, <3>1 DEF Coherent, CC!Exists, Of, CC!Matches, CC!Absent
    <3>3. Coherent(e)
      <4>1. ~Empty(e) /\ \A f \in CC!Kubeconfigs : e[f] = CC!Absent
        BY <1>0, <2>2, <3>2 DEF Empty, CC!Kubeconfigs, Hung, Foundation
      <4>2. /\ e["ca.crt"] = disk["ca.crt"]
            /\ e["kubelet.crt"] = disk["kubelet.crt"] /\ e["kubelet.key"] = disk["kubelet.key"]
            /\ e["webhook.crt"] = disk["webhook.crt"] /\ e["webhook.key"] = disk["webhook.key"]
        BY <2>2 DEF Hung, Foundation
      <4> QED
        BY <2>4, <3>1, <4>1, <4>2 DEF Coherent, Of
    <3>4. NoAccounts(e) \/ Accounts(e)
      BY <2>2, <2>5 DEF Hangs, NoAccounts, Accounts, Account
    <3> QED
      BY <2>4, <3>3, <3>4, Since DEF Hangs
  <2> QED
    BY <2>3, <2>5
<1> QED
  BY <1>1, <1>2

LEMMA ToKubelet ==
    ASSUME Heals("admin", disk)
    PROVE  Heals("kubelet", After("kubelet")) /\ (Hangs("admin", disk) => Hangs("kubelet", After("kubelet")))
<1>0. Rooted(disk) /\ ~Empty(disk)
  BY Since DEF Heals, Rooted, Empty, CC!Matches, CC!Absent
<1>1. CASE CC!Exists("kubelet.crt")
  <2>1. Heals("kubelet", disk)
    BY FoundationStays, Since
  <2>2. Hangs("admin", disk) => Hangs("kubelet", disk)
    BY <1>1, Since DEF Hangs, Coherent, CC!Exists
  <2> QED
    BY <1>1, <2>1, <2>2, Works, NothingToDo
<1>2. CASE ~CC!Exists("kubelet.crt")
  <2> DEFINE e == After("kubelet")
  <2>1. /\ e["kubelet.crt"] = CC!Cert(CC!NewKey, CC!CA, 0) /\ e["kubelet.key"] = CC!Key(CC!NewKey)
        /\ OtherFiles("kubelet.crt", "kubelet.key", e)
    <3>1. CC!Work("kubelet") = <<CC!Write("kubelet.crt", CC!Cert(CC!NewKey, CC!CA, 0)), CC!Write("kubelet.key", CC!Key(CC!NewKey))>>
      BY <1>2, Works
    <3>2. "kubelet.crt" \in CC!Files /\ "kubelet.key" \in CC!Files
      BY AllFiles DEF Hung
    <3> QED
      BY <3>1, <3>2, TwoMade
  <2>2. /\ \A f \in Foundation \cup Account : e[f] = disk[f]
        /\ \A f \in Hung \ {"kubelet.crt", "kubelet.key"} : e[f] = disk[f]
    BY <2>1, AllFiles DEF OtherFiles, Foundation, Hung, Account
  <2>3. Heals("kubelet", e)
    BY <2>2, FoundationStays, Since
  <2>4. Of(e, "kubelet.crt", "kubelet.key")
    BY <1>0, <2>1, <2>2 DEF Of, CC!Matches, CC!SignedBy, CC!Cert, CC!Key, CC!CA, Rooted, Foundation
  <2>5. ASSUME Hangs("admin", disk) PROVE Hangs("kubelet", e)
    <3>1. Coherent(disk) /\ Of(disk, "admin.crt", "admin.key")
      BY <2>5, Since DEF Hangs
    <3>2. /\ ~Empty(e) /\ \A f \in CC!Kubeconfigs : e[f] = disk[f]
          /\ e["ca.crt"] = disk["ca.crt"]
          /\ e["admin.crt"] = disk["admin.crt"] /\ e["admin.key"] = disk["admin.key"]
          /\ e["webhook.crt"] = disk["webhook.crt"] /\ e["webhook.key"] = disk["webhook.key"]
      BY <1>0, <2>2 DEF Empty, CC!Kubeconfigs, Hung, Foundation
    <3>3. Coherent(e) /\ Of(e, "admin.crt", "admin.key")
      BY <2>4, <3>1, <3>2 DEF Coherent, Of
    <3>4. NoAccounts(e) \/ Accounts(e)
      BY <2>2, <2>5 DEF Hangs, NoAccounts, Accounts, Account
    <3> QED
      BY <2>4, <3>3, <3>4, Since DEF Hangs
  <2> QED
    BY <2>3, <2>5
<1> QED
  BY <1>1, <1>2

LEMMA ToSa ==
    ASSUME Heals("kubelet", disk)
    PROVE  Heals("sa", After("sa")) /\ (Hangs("kubelet", disk) => Hangs("sa", After("sa")))
<1>1. CASE CC!Exists("sa.key") /\ CC!Exists("sa.pub")
  <2>1. Heals("sa", disk)
    BY FoundationStays, Since
  <2>2. Hangs("kubelet", disk) => Hangs("sa", disk)
    BY <1>1, Since DEF Hangs, NoAccounts, CC!Exists
  <2> QED
    BY <1>1, <2>1, <2>2, Works, NothingToDo
<1>2. CASE ~(CC!Exists("sa.key") /\ CC!Exists("sa.pub"))
  <2> DEFINE e == After("sa")
  <2>1. e["sa.key"] = CC!Key(CC!NewKey) /\ e["sa.pub"] = CC!Key(CC!NewKey) /\ OtherFiles("sa.key", "sa.pub", e)
    <3>1. CC!Work("sa") = <<CC!Write("sa.key", CC!Key(CC!NewKey)), CC!Write("sa.pub", CC!Key(CC!NewKey))>>
      BY <1>2, Works
    <3>2. "sa.key" \in CC!Files /\ "sa.pub" \in CC!Files
      BY AllFiles DEF Account
    <3> QED
      BY <3>1, <3>2, TwoMade
  <2>2. \A f \in Foundation \cup Hung : e[f] = disk[f]
    BY <2>1, AllFiles DEF OtherFiles, Foundation, Hung, Account
  <2>3. Heals("sa", e)
    BY <2>2, FoundationStays, Since
  <2>4. ASSUME Hangs("kubelet", disk) PROVE Hangs("sa", e)
    <3>1. Coherent(disk) /\ Of(disk, "admin.crt", "admin.key") /\ Of(disk, "kubelet.crt", "kubelet.key")
      BY <2>4, Since DEF Hangs
    <3>2. /\ (Empty(e) <=> Empty(disk)) /\ \A f \in Hung \cup CC!Kubeconfigs : e[f] = disk[f]
          /\ e["ca.crt"] = disk["ca.crt"]
          /\ e["admin.crt"] = disk["admin.crt"] /\ e["admin.key"] = disk["admin.key"]
          /\ e["kubelet.crt"] = disk["kubelet.crt"] /\ e["kubelet.key"] = disk["kubelet.key"]
          /\ e["webhook.crt"] = disk["webhook.crt"] /\ e["webhook.key"] = disk["webhook.key"]
      BY <2>2 DEF Empty, CC!Kubeconfigs, Hung, Foundation
    <3>3. Coherent(e) /\ Of(e, "admin.crt", "admin.key") /\ Of(e, "kubelet.crt", "kubelet.key")
      BY <3>1, <3>2 DEF Coherent, Of
    <3>4. Accounts(e)
      BY <2>1 DEF Accounts, CC!Key
    <3> QED
      BY <3>3, <3>4, Since DEF Hangs
  <2> QED
    BY <2>3, <2>4
<1> QED
  BY <1>1, <1>2

(* A kubeconfig is one of this port and of the admin's files.               *)
LEMMA KubeconfigMade ==
    ASSUME NEW f \in CC!Kubeconfigs
    PROVE  /\ \A g \in CC!Files \ {f} : After(f)[g] = disk[g]
           /\ Coherent(disk) /\ Of(disk, "admin.crt", "admin.key") => Configured(After(f), f)
<1>1. f \in CC!Files /\ f \notin {"ca.crt", "admin.crt", "admin.key"}
      /\ "ca.crt" \in CC!Files /\ "admin.crt" \in CC!Files /\ "admin.key" \in CC!Files
  BY AllFiles DEF Hung, Foundation
<1>2. CASE CC!Work(f) = <<>>
  <2>1. \A g \in CC!Files : After(f)[g] = disk[g]
    BY <1>2, AheadNow DEF After
  <2>2. ASSUME Coherent(disk), Of(disk, "admin.crt", "admin.key") PROVE Configured(After(f), f)
    <3>1. CC!Exists("admin.crt") /\ CC!Exists("admin.key")
      BY <2>2 DEF Of, CC!Matches, CC!Exists, CC!Absent
    <3>2. <<CC!Write(f, CC!Config(disk["ca.crt"], disk["admin.crt"], disk["admin.key"], conf.port))>> # <<>>
      OBVIOUS
    <3>3. CC!kubeconfigPointsAt(f)
      BY <1>2, <3>1, <3>2, Works DEF CC!Kubeconfig
    <3>4. disk[f] # CC!Absent
      BY <3>3 DEF CC!kubeconfigPointsAt, CC!Absent
    <3>5. disk[f] = CC!Config(disk["ca.crt"], disk["admin.crt"], disk["admin.key"], disk[f].port)
      BY <2>2, <3>4 DEF Coherent
    <3> QED
      BY <1>1, <2>1, <3>3, <3>5 DEF Configured, CC!kubeconfigPointsAt
  <2> QED
    BY <2>1, <2>2
<1>3. CASE CC!Work(f) # <<>>
  <2>1. CC!Work(f) = <<CC!Write(f, CC!Config(disk["ca.crt"], disk["admin.crt"], disk["admin.key"], conf.port))>>
    BY <1>3, Works DEF CC!Kubeconfig
  <2>2. \A g \in CC!Files :
           After(f)[g] = IF g = f THEN CC!Config(disk["ca.crt"], disk["admin.crt"], disk["admin.key"], conf.port)
                         ELSE disk[g]
    BY <2>1, AheadOfOne DEF After
  <2> QED
    BY <1>1, <2>2 DEF Configured
<1> QED
  BY <1>2, <1>3

LEMMA ToKubeconfig ==
    ASSUME NEW f \in CC!Kubeconfigs, NEW s, s \in SinceSa, Heals(s, disk)
    PROVE  /\ Heals(f, After(f))
           /\ Hangs(s, disk) =>
                /\ Coherent(After(f)) /\ Accounts(After(f)) /\ Configured(After(f), f)
                /\ Of(After(f), "admin.crt", "admin.key") /\ Of(After(f), "kubelet.crt", "kubelet.key")
                /\ Of(disk, "webhook.crt", "webhook.key") => Of(After(f), "webhook.crt", "webhook.key")
                /\ \A g \in CC!Kubeconfigs \ {f} : Configured(disk, g) => Configured(After(f), g)
<1> DEFINE e == After(f)
<1>1. /\ \A g \in Foundation : e[g] = disk[g]
      /\ e["admin.crt"] = disk["admin.crt"] /\ e["admin.key"] = disk["admin.key"]
      /\ e["kubelet.crt"] = disk["kubelet.crt"] /\ e["kubelet.key"] = disk["kubelet.key"]
      /\ e["webhook.crt"] = disk["webhook.crt"] /\ e["webhook.key"] = disk["webhook.key"]
      /\ e["sa.key"] = disk["sa.key"] /\ e["sa.pub"] = disk["sa.pub"]
      /\ \A g \in CC!Kubeconfigs \ {f} : e[g] = disk[g]
  <2>1. \A g \in CC!Files \ {f} : e[g] = disk[g]
    BY KubeconfigMade
  <2> HIDE DEF e
  <2> QED
    BY <2>1, AllFiles DEF Foundation, Hung, Account
<1>2. f \in SinceAdmin
  BY AllFiles, Since
<1>3. Heals(f, e)
  BY <1>1, <1>2, FoundationStays, Since
<1>4. e["ca.crt"] = disk["ca.crt"] /\ (Empty(e) <=> Empty(disk))
  BY <1>1 DEF Foundation, Empty
<1>5. ASSUME Hangs(s, disk)
      PROVE  Coherent(disk) /\ Accounts(disk) /\ ~Empty(disk)
             /\ Of(disk, "admin.crt", "admin.key") /\ Of(disk, "kubelet.crt", "kubelet.key")
  <2>1. Rooted(disk)
    BY Since DEF Heals
  <2> QED
    BY <1>5, <2>1, Since DEF Hangs, Rooted, Empty, CC!Matches, CC!Absent
<1>6. ASSUME Hangs(s, disk)
      PROVE  Configured(e, f)
  BY <1>5, <1>6, KubeconfigMade
<1> HIDE DEF e
<1>7. ASSUME Hangs(s, disk)
      PROVE  /\ Coherent(e) /\ Accounts(e)
             /\ Of(e, "admin.crt", "admin.key") /\ Of(e, "kubelet.crt", "kubelet.key")
             /\ Of(disk, "webhook.crt", "webhook.key") => Of(e, "webhook.crt", "webhook.key")
             /\ \A g \in CC!Kubeconfigs \ {f} : Configured(disk, g) => Configured(e, g)
  <2>1. /\ Of(e, "admin.crt", "admin.key") /\ Of(e, "kubelet.crt", "kubelet.key")
        /\ Of(disk, "webhook.crt", "webhook.key") => Of(e, "webhook.crt", "webhook.key")
        /\ Accounts(e)
    BY <1>1, <1>4, <1>5, <1>7 DEF Of, Accounts
  <2>2. \A g \in CC!Kubeconfigs \ {f} : Configured(disk, g) => Configured(e, g)
    BY <1>1, <1>4 DEF Configured
  <2>3. ASSUME NEW g \in CC!Kubeconfigs
        PROVE  \/ e[g] = CC!Absent
               \/ /\ Of(e, "admin.crt", "admin.key") /\ e[g].is = "config"
                  /\ e[g] = CC!Config(e["ca.crt"], e["admin.crt"], e["admin.key"], e[g].port)
    <3>1. CASE g = f
      BY <1>6, <1>7, <2>1, <3>1 DEF Configured, CC!Config
    <3>2. CASE g # f
      BY <1>1, <1>4, <1>5, <1>7, <2>1, <3>2 DEF Coherent
    <3> QED
      BY <3>1, <3>2
  <2>4. /\ e["admin.crt"] = CC!Absent \/ Of(e, "admin.crt", "admin.key")
        /\ e["kubelet.crt"] = CC!Absent \/ Of(e, "kubelet.crt", "kubelet.key")
        /\ \/ e["webhook.crt"] = CC!Absent \/ e["webhook.key"] = CC!Absent
           \/ Of(e, "webhook.crt", "webhook.key")
        /\ ~Empty(e)
    BY <1>1, <1>4, <1>5, <1>7, <2>1 DEF Coherent
  <2> QED
    BY <2>1, <2>2, <2>3, <2>4 DEF Coherent
<1> QED
  BY <1>3, <1>6, <1>7 DEF e

LEMMA ToKubeconfigs ==
    /\ Heals("sa", disk) => Heals("authz", After("authz"))
    /\ Heals("sa", disk) /\ Hangs("sa", disk) => Hangs("authz", After("authz"))
    /\ Heals("webhook", disk) => Heals("scheduler", After("scheduler"))
    /\ Heals("webhook", disk) /\ Hangs("webhook", disk) => Hangs("scheduler", After("scheduler"))
    /\ Heals("scheduler", disk) => Heals("controller-manager", After("controller-manager"))
    /\ Heals("scheduler", disk) /\ Hangs("scheduler", disk)
          => Hangs("controller-manager", After("controller-manager"))
<1>1. /\ "authz" \in CC!Kubeconfigs /\ "scheduler" \in CC!Kubeconfigs /\ "controller-manager" \in CC!Kubeconfigs
      /\ "sa" \in SinceSa /\ "webhook" \in SinceSa /\ "scheduler" \in SinceSa
  BY AllFiles, Since
<1>2. ASSUME Heals("sa", disk)
      PROVE  Heals("authz", After("authz")) /\ (Hangs("sa", disk) => Hangs("authz", After("authz")))
  <2>1. Hangs("sa", disk) =>
          /\ Coherent(After("authz")) /\ Accounts(After("authz")) /\ Configured(After("authz"), "authz")
          /\ Of(After("authz"), "admin.crt", "admin.key") /\ Of(After("authz"), "kubelet.crt", "kubelet.key")
    BY <1>1, <1>2, ToKubeconfig
  <2> QED
    BY <1>1, <1>2, <2>1, ToKubeconfig, Since DEF Hangs
<1>3. ASSUME Heals("webhook", disk)
      PROVE  /\ Heals("scheduler", After("scheduler"))
             /\ Hangs("webhook", disk) => Hangs("scheduler", After("scheduler"))
  <2> DEFINE e == After("scheduler")
  <2>1. Hangs("webhook", disk) =>
          /\ Coherent(e) /\ Accounts(e) /\ Configured(e, "scheduler")
          /\ Of(e, "admin.crt", "admin.key") /\ Of(e, "kubelet.crt", "kubelet.key")
          /\ Of(disk, "webhook.crt", "webhook.key") => Of(e, "webhook.crt", "webhook.key")
          /\ Configured(disk, "authz") => Configured(e, "authz")
    BY <1>1, <1>3, ToKubeconfig
  <2>2. Heals("scheduler", e)
    BY <1>1, <1>3, ToKubeconfig
  <2>3. Hangs("webhook", disk) => Of(disk, "webhook.crt", "webhook.key") /\ Configured(disk, "authz")
    BY Since DEF Hangs
  <2> HIDE DEF e
  <2>4. Hangs("webhook", disk) => Hangs("scheduler", e)
    BY <2>1, <2>3, Since DEF Hangs
  <2> QED
    BY <2>2, <2>4 DEF e
<1>4. ASSUME Heals("scheduler", disk)
      PROVE  /\ Heals("controller-manager", After("controller-manager"))
             /\ Hangs("scheduler", disk) => Hangs("controller-manager", After("controller-manager"))
  <2> DEFINE e == After("controller-manager")
  <2>1. Hangs("scheduler", disk) =>
          /\ Coherent(e) /\ Accounts(e) /\ Configured(e, "controller-manager")
          /\ Of(e, "admin.crt", "admin.key") /\ Of(e, "kubelet.crt", "kubelet.key")
          /\ Of(disk, "webhook.crt", "webhook.key") => Of(e, "webhook.crt", "webhook.key")
          /\ Configured(disk, "authz") => Configured(e, "authz")
          /\ Configured(disk, "scheduler") => Configured(e, "scheduler")
    BY <1>1, <1>4, ToKubeconfig
  <2>2. Heals("controller-manager", e)
    BY <1>1, <1>4, ToKubeconfig
  <2>3. Hangs("scheduler", disk) => /\ Of(disk, "webhook.crt", "webhook.key")
                                    /\ Configured(disk, "authz") /\ Configured(disk, "scheduler")
    BY Since DEF Hangs
  <2> HIDE DEF e
  <2>4. Hangs("scheduler", disk) => Hangs("controller-manager", e)
    BY <2>1, <2>3, Since DEF Hangs
  <2> QED
    BY <2>2, <2>4 DEF e
<1> QED
  BY <1>2, <1>3, <1>4

LEMMA ToWebhook ==
    ASSUME Heals("authz", disk)
    PROVE  Heals("webhook", After("webhook")) /\ (Hangs("authz", disk) => Hangs("webhook", After("webhook")))
<1>0. Rooted(disk) /\ ~Empty(disk)
  BY Since DEF Heals, Rooted, Empty, CC!Matches, CC!Absent
<1>1. CASE CC!Exists("webhook.crt") /\ CC!Exists("webhook.key") /\ CC!webhookCertValidUnderCA
  <2>1. Heals("webhook", disk)
    BY FoundationStays, Since
  <2>2. ASSUME Hangs("authz", disk) PROVE Hangs("webhook", disk)
    <3>1. Coherent(disk)
      BY <2>2, Since DEF Hangs
    <3>2. Of(disk, "webhook.crt", "webhook.key")
      BY <1>1, <3>1 DEF Coherent, CC!Exists
    <3> QED
      BY <2>2, <3>2, Since DEF Hangs
  <2> QED
    BY <1>1, <2>1, <2>2, Works, NothingToDo
<1>2. CASE ~(CC!Exists("webhook.crt") /\ CC!Exists("webhook.key") /\ CC!webhookCertValidUnderCA)
  <2> DEFINE e == After("webhook")
  <2>1. /\ e["webhook.crt"] = CC!Cert(CC!NewKey, CC!CA, 0) /\ e["webhook.key"] = CC!Key(CC!NewKey)
        /\ OtherFiles("webhook.crt", "webhook.key", e)
    <3>1. \/ CC!Work("webhook") = <<CC!Write("webhook.crt", CC!Cert(CC!NewKey, CC!CA, 0)), CC!Write("webhook.key", CC!Key(CC!NewKey))>>
          \/ CC!Work("webhook") = <<CC!Write("webhook.crt", CC!Absent), CC!Write("webhook.key", CC!Absent),
                                 CC!Write("webhook.crt", CC!Cert(CC!NewKey, CC!CA, 0)), CC!Write("webhook.key", CC!Key(CC!NewKey))>>
      BY <1>2, Works
    <3>2. "webhook.crt" \in CC!Files /\ "webhook.key" \in CC!Files
      BY AllFiles DEF Hung
    <3>3. CASE CC!Work("webhook") = <<CC!Write("webhook.crt", CC!Cert(CC!NewKey, CC!CA, 0)), CC!Write("webhook.key", CC!Key(CC!NewKey))>>
      BY <3>2, <3>3, TwoMade
    <3>4. CASE CC!Work("webhook") = <<CC!Write("webhook.crt", CC!Absent), CC!Write("webhook.key", CC!Absent),
                                   CC!Write("webhook.crt", CC!Cert(CC!NewKey, CC!CA, 0)), CC!Write("webhook.key", CC!Key(CC!NewKey))>>
      BY <3>2, <3>4, FourMade
    <3> QED
      BY <3>1, <3>3, <3>4
  <2>2. /\ \A f \in Foundation \cup Account : e[f] = disk[f]
        /\ \A f \in Hung \ {"webhook.crt", "webhook.key"} : e[f] = disk[f]
    BY <2>1, AllFiles DEF OtherFiles, Foundation, Hung, Account
  <2>3. Heals("webhook", e)
    BY <2>2, FoundationStays, Since
  <2>4. Of(e, "webhook.crt", "webhook.key")
    BY <1>0, <2>1, <2>2 DEF Of, CC!Matches, CC!SignedBy, CC!Cert, CC!Key, CC!CA, Rooted, Foundation
  <2>5. ASSUME Hangs("authz", disk) PROVE Hangs("webhook", e)
    <3>1. /\ Coherent(disk) /\ Accounts(disk) /\ Configured(disk, "authz")
          /\ Of(disk, "admin.crt", "admin.key") /\ Of(disk, "kubelet.crt", "kubelet.key")
      BY <2>5, Since DEF Hangs
    <3>2. /\ ~Empty(e) /\ \A f \in CC!Kubeconfigs : e[f] = disk[f]
          /\ e["ca.crt"] = disk["ca.crt"] /\ e["authz"] = disk["authz"]
          /\ e["admin.crt"] = disk["admin.crt"] /\ e["admin.key"] = disk["admin.key"]
          /\ e["kubelet.crt"] = disk["kubelet.crt"] /\ e["kubelet.key"] = disk["kubelet.key"]
          /\ e["sa.key"] = disk["sa.key"] /\ e["sa.pub"] = disk["sa.pub"]
      BY <1>0, <2>2 DEF Empty, CC!Kubeconfigs, Hung, Foundation, Account
    <3>3. /\ Coherent(e) /\ Of(e, "admin.crt", "admin.key") /\ Of(e, "kubelet.crt", "kubelet.key")
          /\ Accounts(e) /\ Configured(e, "authz")
      BY <2>4, <3>1, <3>2 DEF Coherent, Of, Accounts, Configured
    <3> QED
      BY <2>4, <3>3, Since DEF Hangs
  <2> QED
    BY <2>3, <2>5
<1> QED
  BY <1>1, <1>2

----------------------------------------------------------------------------
(* What a stage has to do is to its files.                                  *)
LEMMA WorkPlanned ==
    ASSUME NEW s \in CC!ToSet(CC!Stages)
    PROVE  Writes(CC!Work(s), IF s \in SinceAdmin THEN CC!Files \ Foundation ELSE CC!Files)
<1>1. \A F : Writes(<<>>, F)
  <2>1. <<>> \in Seq({}) /\ DOMAIN <<>> = {}
    OBVIOUS
  <2> QED
    BY <2>1 DEF Writes
<1>2. ASSUME NEW F, NEW a \in F, NEW v PROVE Writes(<<CC!Write(a, v)>>, F)
  <2> DEFINE t == <<CC!Write(a, v)>>
  <2>1. t \in Seq({CC!Write(a, v)}) /\ DOMAIN t = 1..1 /\ t[1].file = a
    BY DEF CC!Write
  <2> HIDE DEF t
  <2>2. Writes(t, F)
    BY <2>1 DEF Writes
  <2> QED
    BY <2>2 DEF t
<1>3. ASSUME NEW F, NEW a \in F, NEW b \in F, NEW v, NEW w PROVE Writes(<<CC!Write(a, v), CC!Write(b, w)>>, F)
  <2> DEFINE t == <<CC!Write(a, v), CC!Write(b, w)>>
  <2>1. t \in Seq({CC!Write(a, v), CC!Write(b, w)}) /\ DOMAIN t = 1..2 /\ t[1].file = a /\ t[2].file = b
    BY DEF CC!Write
  <2> HIDE DEF t
  <2>2. Writes(t, F)
    BY <2>1 DEF Writes
  <2> QED
    BY <2>2 DEF t
<1>4. ASSUME NEW F, NEW a \in F, NEW b \in F, NEW v, NEW w, NEW x, x \in {a, b}, NEW y, y \in {a, b}
      PROVE  Writes(<<CC!Write(x, CC!Absent), CC!Write(y, CC!Absent), CC!Write(a, v), CC!Write(b, w)>>, F)
  <2> DEFINE t == <<CC!Write(x, CC!Absent), CC!Write(y, CC!Absent), CC!Write(a, v), CC!Write(b, w)>>
             S == {CC!Write(x, CC!Absent), CC!Write(y, CC!Absent), CC!Write(a, v), CC!Write(b, w)}
  <2>1. /\ t \in Seq(S) /\ DOMAIN t = 1..4
        /\ t[1].file = x /\ t[2].file = y /\ t[3].file = a /\ t[4].file = b
    BY DEF CC!Write
  <2> HIDE DEF t, S
  <2>2. \A i \in 1..4 : i = 1 \/ i = 2 \/ i = 3 \/ i = 4
    OBVIOUS
  <2>3. \A i \in 1..4 : t[i].file \in F
    BY <1>4, <2>1, <2>2
  <2>4. Writes(t, F)
    BY <2>1, <2>3 DEF Writes
  <2> QED
    BY <2>4 DEF t
<1>5. Writes(CC!RemoveAll, CC!Files)
  <2>1. \A i \in 1..13 : CC!RemoveAll[i].file \in CC!Files
    <3>1. \A i \in 1..13 : CC!Dependents[i] \in CC!ToSet(CC!Dependents)
      BY DEF CC!ToSet, CC!Dependents
    <3> QED
      BY <3>1, RemovesAll, AllFiles
  <2> QED
    BY <2>1, RemovesAll DEF Writes
<1>6. /\ "ca.crt" \in CC!Files /\ "ca.key" \in CC!Files /\ "apiserver.crt" \in CC!Files /\ "apiserver.key" \in CC!Files
      /\ \A f \in Hung \cup Account : f \in CC!Files \ Foundation
  BY AllFiles DEF Foundation, Hung, Account
<1>7. /\ "legacy" \notin SinceAdmin /\ "usable" \notin SinceAdmin /\ "ca" \notin SinceAdmin
      /\ "apiserver" \notin SinceAdmin
      /\ {"admin", "kubelet", "sa", "webhook"} \cup CC!Kubeconfigs \subseteq SinceAdmin
  BY Since DEF CC!Kubeconfigs
<1>8. CASE s = "legacy"
  BY <1>1, <1>5, <1>7, <1>8, Works
<1>9. CASE s = "usable"
  BY <1>1, <1>5, <1>7, <1>9, Works
<1>10. CASE s = "ca"
  <2>1. Writes(<<CC!Write("ca.crt", CC!Cert(CC!NewKey, CC!NewKey, 0)), CC!Write("ca.key", CC!Key(CC!NewKey))>>, CC!Files)
    BY <1>3, <1>6
  <2>2. Writes(CC!Work("ca"), CC!Files)
    BY <1>1, <2>1, Works
  <2> QED
    BY <1>7, <1>10, <2>2
<1>11. CASE s = "apiserver"
  <2>1. Writes(<<CC!Write("apiserver.key", CC!Absent), CC!Write("apiserver.crt", CC!Absent),
                 CC!Write("apiserver.crt", CC!Cert(CC!NewKey, CC!CA, conf.ip)), CC!Write("apiserver.key", CC!Key(CC!NewKey))>>, CC!Files)
    BY <1>4, <1>6
  <2>2. Writes(CC!Work("apiserver"), CC!Files)
    BY <1>1, <2>1, Works
  <2> QED
    BY <1>7, <1>11, <2>2
<1> DEFINE F == CC!Files \ Foundation
<1>12. CASE s \in {"admin", "kubelet", "sa"}
  <2>1. /\ "admin.crt" \in F /\ "admin.key" \in F /\ "kubelet.crt" \in F /\ "kubelet.key" \in F
        /\ "sa.key" \in F /\ "sa.pub" \in F
    BY <1>6 DEF Hung, Account
  <2> HIDE DEF F
  <2>2. /\ Writes(<<CC!Write("admin.crt", CC!Cert(CC!NewKey, CC!CA, 0)), CC!Write("admin.key", CC!Key(CC!NewKey))>>, F)
        /\ Writes(<<CC!Write("kubelet.crt", CC!Cert(CC!NewKey, CC!CA, 0)), CC!Write("kubelet.key", CC!Key(CC!NewKey))>>, F)
        /\ Writes(<<CC!Write("sa.key", CC!Key(CC!NewKey)), CC!Write("sa.pub", CC!Key(CC!NewKey))>>, F)
    BY <1>3, <2>1
  <2>3. Writes(CC!Work("admin"), F) /\ Writes(CC!Work("kubelet"), F) /\ Writes(CC!Work("sa"), F)
    BY <1>1, <2>2, Works
  <2>4. Writes(CC!Work(s), F) /\ s \in SinceAdmin
    BY <1>7, <1>12, <2>3
  <2> QED
    BY <2>4 DEF F
<1>13. CASE s = "webhook"
  <2>1. "webhook.crt" \in F /\ "webhook.key" \in F
    BY <1>6 DEF Hung
  <2> HIDE DEF F
  <2>2. /\ Writes(<<CC!Write("webhook.crt", CC!Cert(CC!NewKey, CC!CA, 0)), CC!Write("webhook.key", CC!Key(CC!NewKey))>>, F)
        /\ Writes(<<CC!Write("webhook.crt", CC!Absent), CC!Write("webhook.key", CC!Absent),
                    CC!Write("webhook.crt", CC!Cert(CC!NewKey, CC!CA, 0)), CC!Write("webhook.key", CC!Key(CC!NewKey))>>, F)
    BY <1>3, <1>4, <2>1
  <2>3. Writes(CC!Work("webhook"), F)
    BY <1>1, <2>2, Works
  <2>4. Writes(CC!Work(s), F) /\ s \in SinceAdmin
    BY <1>7, <1>13, <2>3
  <2> QED
    BY <2>4 DEF F
<1>14. CASE s \in CC!Kubeconfigs
  <2>1. s \in F /\ s \in SinceAdmin
    BY <1>6, <1>7, <1>14 DEF Hung, CC!Kubeconfigs
  <2> HIDE DEF F
  <2>2. Writes(<<CC!Write(s, CC!Config(disk["ca.crt"], disk["admin.crt"], disk["admin.key"], conf.port))>>, F)
    BY <1>2, <2>1
  <2>3. Writes(CC!Work(s), F)
    BY <1>1, <1>14, <2>2, Works DEF CC!Kubeconfig
  <2> QED
    BY <2>1, <2>3 DEF F
<1> QED
  BY <1>8, <1>9, <1>10, <1>11, <1>12, <1>13, <1>14, StagesInARow DEF CC!Kubeconfigs

(* The same settings mean the same of a directory.                          *)
LEMMA SameSettings ==
    ASSUME conf' = conf
    PROVE  /\ Heals(stage, Ahead)' <=> Heals(stage', Ahead')
           /\ Hangs(stage, Ahead)' <=> Hangs(stage', Ahead')
<1>1. Heals(stage, Ahead)' <=> Heals(stage', Ahead')
  BY DEF Heals, NotLegacy, Empty, Rooted, Founded
<1>2. Hangs(stage, Ahead)' <=> Hangs(stage', Ahead')
  BY DEF Hangs, NoAccounts, Accounts, Empty, Rooted, Coherent, Of, Configured
<1> QED
  BY <1>1, <1>2

LEMMA HealingAtFirst == CC!Init /\ faults \in Nat => Healing
<1> SUFFICES ASSUME CC!Init PROVE Healing
  BY DEF CC!Init
<1>1. DOMAIN disk = CC!Files
  <2>1. DOMAIN [f \in CC!Files |-> CC!Absent] = CC!Files
    OBVIOUS
  <2>2. \A ca, k : DOMAIN CC!Made(ca, k) = CC!Files
    BY DEF CC!Made
  <2> QED
    BY <2>1, <2>2 DEF CC!Init
<1>2. Hangs("down", disk)
  <2>1. CASE disk = [f \in CC!Files |-> CC!Absent]
    <3>1. \A f \in CC!Files : disk[f] = CC!Absent
      BY <2>1
    <3>2. Coherent(disk) /\ NoAccounts(disk)
      BY <3>1, AllFiles DEF Coherent, NoAccounts, Hung, Account, Foundation
    <3> QED
      BY <3>2, Since DEF Hangs
  <2>2. ASSUME NEW ca, NEW k, disk = CC!Made(ca, k) PROVE Hangs("down", disk)
    <3>1. /\ disk["ca.crt"] = CC!Cert(ca, ca, 0) /\ disk["ca.key"] = CC!Key(k)
          /\ disk["admin.crt"] = CC!Cert(3, ca, 0) /\ disk["admin.key"] = CC!Key(3)
          /\ disk["kubelet.crt"] = CC!Cert(4, ca, 0) /\ disk["kubelet.key"] = CC!Key(4)
          /\ disk["webhook.crt"] = CC!Cert(5, ca, 0) /\ disk["webhook.key"] = CC!Key(5)
          /\ disk["sa.key"] = CC!Key(6) /\ disk["sa.pub"] = CC!Key(6)
          /\ \A f \in CC!Kubeconfigs : disk[f] = CC!Config(CC!Cert(ca, ca, 0), CC!Cert(3, ca, 0), CC!Key(3), 1)
      BY <2>2, AllFiles DEF CC!Made, Hung, Account, Foundation
    <3>2. ~Empty(disk) /\ Accounts(disk) /\ Of(disk, "admin.crt", "admin.key")
          /\ Of(disk, "kubelet.crt", "kubelet.key") /\ Of(disk, "webhook.crt", "webhook.key")
      BY <3>1 DEF Empty, Accounts, Of, CC!Matches, CC!SignedBy, CC!Cert, CC!Key, CC!Absent
    <3>3. \A f \in CC!Kubeconfigs : /\ disk[f].is = "config"
                                 /\ disk[f] = CC!Config(disk["ca.crt"], disk["admin.crt"], disk["admin.key"], disk[f].port)
      BY <3>1 DEF CC!Config
    <3> QED
      BY <3>2, <3>3, Since DEF Hangs, Coherent
  <2> QED
    BY <2>1, <2>2 DEF CC!Init
<1>3. Ahead = After("legacy") /\ stage = "legacy"
  BY DEF CC!Init, Ahead, After
<1>4. Heals(stage, Ahead) /\ Hangs(stage, Ahead)
  BY <1>2, <1>3, ToLegacy
<1>5. Plan
  <2>1. Writes(CC!Work("legacy"), CC!Files)
    BY WorkPlanned, StagesInARow, Since
  <2> QED
    BY <1>1, <2>1, Since DEF CC!Init, Plan
<1> QED
  BY <1>4, <1>5 DEF Healing

(* A stage that looks at the directory finds what the one before left.      *)
LEMMA EnterHeals == Healing /\ CC!Enter => Healing'
<1> SUFFICES ASSUME Healing, CC!Enter PROVE Healing'
  OBVIOUS
<1>1. /\ Heals(stage, disk) /\ (faults = 0 => Hangs(stage, disk))
      /\ DOMAIN disk = CC!Files /\ stage \in CC!ToSet(CC!Stages)
  <2>1. \A f \in CC!Files : Ahead[f] = disk[f]
    BY AheadNow DEF CC!Enter, Ahead
  <2> QED
    BY <2>1, SameFiles DEF Healing, Plan, CC!Enter
<1>2. UNCHANGED <<disk, conf, faults>> /\ stage' = CC!NextStage(stage)
  BY DEF CC!Enter
<1>3. CASE stage = "controller-manager"
  <2>1. stage' = "serving" /\ todo' = <<>>
    BY <1>2, <1>3, StagesInARow DEF CC!Enter
  <2>2. \A f \in CC!Files : Ahead'[f] = disk[f]
    BY <1>2, <2>1, AheadNow DEF Ahead
  <2>3. Heals("serving", disk) /\ (faults = 0 => Hangs("serving", disk))
    BY <1>1, <1>3, Since DEF Heals, Hangs
  <2>4. Heals(stage', Ahead') /\ (faults = 0 => Hangs(stage', Ahead'))
    BY <2>1, <2>2, <2>3, SameFiles
  <2>5. Writes(todo', CC!Files \ Foundation)
    <3>1. <<>> \in Seq({}) /\ DOMAIN <<>> = {}
      OBVIOUS
    <3> QED
      BY <2>1, <3>1 DEF Writes
  <2>6. Plan'
    BY <1>1, <1>2, <2>1, <2>5, Since DEF Plan, Healing
  <2> QED
    BY <1>2, <2>4, <2>6, SameSettings DEF Healing
<1>4. CASE stage # "controller-manager"
  <2>1. /\ stage' \in CC!ToSet(CC!Stages) /\ stage' # "serving" /\ todo' = CC!Work(stage')
        /\ stage' \in SinceUsable
    BY <1>1, <1>2, <1>4, StagesInARow, Since DEF CC!Enter
  <2>2. Ahead' = After(stage')
    BY <1>2, <2>1 DEF Ahead, After
  <2>3. Heals(stage', After(stage')) /\ (faults = 0 => Hangs(stage', After(stage')))
    <3>1. CASE stage \in {"legacy", "usable", "ca", "apiserver"}
      BY <1>1, <1>2, <3>1, StagesInARow, ToUsable, ToCa, ToApiserver, ToAdmin
    <3>2. CASE stage \in {"admin", "kubelet", "sa"}
      BY <1>1, <1>2, <3>2, StagesInARow, ToKubelet, ToSa, ToKubeconfigs
    <3>3. CASE stage \in {"authz", "webhook", "scheduler"}
      BY <1>1, <1>2, <3>3, StagesInARow, ToWebhook, ToKubeconfigs
    <3> QED
      BY <1>1, <1>4, <3>1, <3>2, <3>3, StagesInARow
  <2>4. Plan'
    <3>1. Writes(CC!Work(stage'), IF stage' \in SinceAdmin THEN CC!Files \ Foundation ELSE CC!Files)
      BY <2>1, WorkPlanned
    <3>2. stage' \notin {"serving", "down"}
      BY <2>1, StagesInARow
    <3> QED
      BY <1>1, <1>2, <2>1, <3>1, <3>2 DEF Plan, Healing
  <2> QED
    BY <1>2, <2>2, <2>3, <2>4, SameSettings DEF Healing
<1> QED
  BY <1>3, <1>4

LEMMA DoHeals == Healing /\ CC!Do => Healing'
<1> SUFFICES ASSUME Healing, CC!Do PROVE Healing'
  OBVIOUS
<1>1. PICK S : todo \in Seq(S)
  BY DEF Healing, Plan, Writes
<1>2. todo # <<>> /\ DOMAIN disk = CC!Files
  BY DEF CC!Do, Healing, Plan
<1>3. Ahead' = Ahead
  BY <1>1, <1>2, AheadStays DEF CC!Do, Ahead
<1>4. DOMAIN disk' = CC!Files
  BY <1>2 DEF CC!Do
<1>5. \A F : Writes(todo, F) => Writes(todo', F)
  <2>1. todo' = Tail(todo)
    BY DEF CC!Do
  <2>2. Tail(todo) \in Seq(S) /\ \A i \in DOMAIN Tail(todo) : i + 1 \in DOMAIN todo /\ Tail(todo)[i] = todo[i + 1]
    BY <1>1, <1>2
  <2> QED
    BY <2>1, <2>2 DEF Writes
<1>6. Plan'
  BY <1>2, <1>4, <1>5 DEF Healing, Plan, CC!Do
<1> QED
  BY <1>3, <1>6, SameSettings DEF Healing, CC!Do

LEMMA LeaveHeals == Healing /\ (CC!End \/ CC!Stop) => Healing'
<1> SUFFICES ASSUME Healing, CC!End \/ CC!Stop PROVE Healing'
  OBVIOUS
<1>1. DOMAIN disk' = CC!Files /\ stage' = "down" /\ todo' = <<>> /\ conf' = conf /\ faults' \in Nat
  BY DEF Healing, Plan, CC!End, CC!Stop
<1>2. Plan'
  <2>1. <<>> \in Seq({}) /\ DOMAIN <<>> = {}
    OBVIOUS
  <2>2. Writes(todo', CC!Files)
    BY <1>1, <2>1 DEF Writes
  <2> QED
    BY <1>1, <2>2, Since DEF Plan
<1>3. Heals("down", Ahead')
  BY Since DEF Heals
<1>4. faults' = 0 => Hangs("down", Ahead')
  <2> SUFFICES ASSUME faults' = 0 PROVE Hangs("down", Ahead')
    OBVIOUS
  <2>1. CC!Stop
    BY DEF CC!End, Healing, Plan
  <2>2. \A f \in CC!Files : Ahead[f] = disk[f] /\ Ahead'[f] = disk[f]
    BY <1>1, <2>1, AheadNow DEF Ahead, CC!Stop, Healing, Plan
  <2>3. Hangs("serving", Ahead)
    BY <2>1 DEF CC!Stop, Healing
  <2>4. Hangs("serving", disk)
    BY <2>2, <2>3, SameFiles
  <2>5. Hangs("down", disk)
    BY <2>4, Since DEF Hangs
  <2> QED
    BY <2>2, <2>5, SameFiles
<1> QED
  BY <1>1, <1>2, <1>3, <1>4, SameSettings DEF Healing

LEMMA StartHeals == Healing /\ CC!Start => Healing'
<1> SUFFICES ASSUME Healing, CC!Start PROVE Healing'
  OBVIOUS
<1>1. stage' = "legacy" /\ todo' = CC!Work("legacy") /\ UNCHANGED <<disk, faults>> /\ stage = "down" /\ todo = <<>>
  BY DEF CC!Start, Healing, Plan
<1>2. Plan'
  <2>1. Writes(CC!Work("legacy"), CC!Files)
    BY WorkPlanned, StagesInARow, Since
  <2> QED
    BY <1>1, <2>1, Since DEF Plan, Healing
<1>3. faults = 0 => Hangs("down", disk)
  <2>1. \A f \in CC!Files : Ahead[f] = disk[f]
    BY <1>1, AheadNow DEF Ahead
  <2> QED
    BY <1>1, <2>1, SameFiles DEF Healing
<1>4. Ahead' = After("legacy")
  BY <1>1 DEF Ahead, After
<1>5. Heals("legacy", After("legacy")) /\ (faults = 0 => Hangs("legacy", After("legacy")))
  BY <1>3, ToLegacy
<1>6. Heals(stage, Ahead)' /\ (faults' = 0 => Hangs(stage, Ahead)')
  BY <1>1, <1>4, <1>5, Since DEF Heals, Hangs, NotLegacy, NoAccounts, Accounts, Empty, Rooted, Coherent, Of
<1> QED
  BY <1>2, <1>6 DEF Healing

LEMMA HealingSuffices == Healing => CC!CertsHeal
<1> SUFFICES ASSUME Healing PROVE CC!CertsHeal
  OBVIOUS
<1>1. ASSUME stage \in SinceAdmin PROVE CC!FoundationMade
  <2>1. PICK S : todo \in Seq(S)
    BY DEF Healing, Plan, Writes
  <2>2. \A f \in Foundation : Ahead[f] = disk[f]
    <3> SUFFICES ASSUME NEW f \in Foundation PROVE Ahead[f] = disk[f]
      OBVIOUS
    <3>1. \A i \in DOMAIN todo : todo[i].file # f
      BY <1>1 DEF Healing, Plan, Writes
    <3>2. Will(disk, todo, f, disk[f]) /\ f \in CC!Files
      BY <3>1, AllFiles DEF Will
    <3> QED
      BY <2>1, <3>2, AheadIs DEF Ahead
  <2>3. NotLegacy(Ahead) /\ Rooted(Ahead) /\ Founded(Ahead)
    BY <1>1, Since DEF Healing, Heals
  <2>4. NotLegacy(disk) /\ Rooted(disk) /\ Founded(disk)
    BY <2>2, <2>3 DEF NotLegacy, Rooted, Founded, Foundation
  <2> QED
    BY <2>4 DEF CC!FoundationMade, NotLegacy, Rooted, Founded, CC!caKeyIsECDSA, CC!apiServerServingCertUsable
<1>2. ASSUME stage = "serving", faults = 0 PROVE CC!ChainMade
  <2>1. \A f \in CC!Files : Ahead[f] = disk[f]
    BY <1>2, AheadNow DEF Healing, Plan, Ahead
  <2>2. Hangs("serving", disk)
    BY <1>2, <2>1, SameFiles DEF Healing
  <2>3. CC!FoundationMade
    BY <1>1, <1>2, Since
  <2>4. /\ Of(disk, "admin.crt", "admin.key") /\ Of(disk, "kubelet.crt", "kubelet.key")
        /\ Of(disk, "webhook.crt", "webhook.key") /\ Accounts(disk)
        /\ Configured(disk, "authz") /\ Configured(disk, "scheduler") /\ Configured(disk, "controller-manager")
    BY <2>2, Since DEF Hangs
  <2> QED
    BY <2>3, <2>4, AllFiles DEF CC!ChainMade, CC!Signed, Of, Accounts, Configured
<1> QED
  BY <1>1, <1>2, Since DEF CC!CertsHeal

(* However earlier starts ended, a start past the serving certificate has   *)
(* its authority and a certificate for its addresses under it; and without  *)
(* a start that was cut short, a server that serves has one chain, whatever *)
(* directory it found.                                                      *)
THEOREM CertsAlwaysHeal == FairSpec => []CertsHeal
<1> DEFINE Healed == IF Is("authority") THEN Healing ELSE stage = "legacy"
<1>1. Init => Healed
  <2>1. Init => CC!Init /\ faults = 0
    BY DEF Init, CC!Init
  <2>2. CC!Init => stage = "legacy"
    BY DEF CC!Init
  <2> QED
    BY <2>1, <2>2, HealingAtFirst
<1>2. Healed /\ [Next]_allVars => Healed'
  <2> SUFFICES ASSUME Healed, [Next]_allVars PROVE Healed'
    OBVIOUS
  <2>1. Is("authority")' <=> Is("authority")
    BY DEF Next, allVars, Is
  <2>2. CASE Is("authority")
    <3>1. CC!Next \/ UNCHANGED <<ccVars, faults>>
      BY <2>2 DEF Next, allVars, Is
    <3>2. ASSUME UNCHANGED <<ccVars, faults>> PROVE Healing'
      <4>1. Ahead' = Ahead /\ UNCHANGED <<disk, stage, todo, conf, faults>>
        BY <3>2 DEF Ahead, ccVars
      <4>2. Plan'
        BY <2>2, <4>1 DEF Healing, Plan
      <4> QED
        BY <2>2, <4>1, <4>2, SameSettings DEF Healing
    <3> QED
      BY <2>1, <2>2, <3>1, <3>2, EnterHeals, DoHeals, LeaveHeals, StartHeals DEF CC!Next
  <2>3. CASE ~Is("authority")
    <3>1. UNCHANGED ccVars
      BY <2>3 DEF Next, allVars
    <3> QED
      BY <2>1, <2>3, <3>1 DEF ccVars
  <2> QED
    BY <2>2, <2>3
<1>3. Healed => CertsHeal
  <2>1. Healing => CertsHeal
    BY HealingSuffices DEF CertsHeal
  <2>2. stage = "legacy" => CertsHeal
    BY DEF CertsHeal, CC!CertsHeal
  <2> QED
    BY <2>1, <2>2
<1> QED
  BY <1>1, <1>2, <1>3, PTL DEF FairSpec

----------------------------------------------------------------------------
(* The load balancer: until a cycle has dealt with its list, it knows or    *)
(* wants every DaemonSet of casos, and what it neither wants nor has still  *)
(* to deal with publishes no node.                                          *)
Served == {s1}
Shows(s) == lbStatus[s] \cap {n1} # {}
AtWork == pc \in {"next", "pods", "publish"}
Mine(s) == sets[s] = "casos"
Bounds == /\ faults \in Nat /\ lbNow \in Served
          /\ DOMAIN svc = Served /\ DOMAIN sets = Served /\ DOMAIN lbStatus = Served
GoneShowNone == \A s \in Served : svc[s] = "gone" => lbStatus[s] = {}
AtProxied == pc \in {"pods", "publish"} => lbNow \in want /\ Mine(lbNow)
Known == AtWork => \A s \in Served : Mine(s) => s \in want \cup had
Cleared == AtWork => \A s \in Served : Shows(s) => s \in want \cup left
ProxyInv == /\ Bounds /\ GoneShowNone /\ AtProxied
            /\ faults = 0 => Proxied /\ Known /\ Cleared

LEMMA ProxyStep == ASSUME ProxyInv, LB!Next PROVE ProxyInv'
<1> USE DEF Bounds, GoneShowNone, AtProxied, Known, Cleared, AtWork, Mine, Shows, Proxied, LB!Proxied, Served
<1>1. CASE LB!List
  BY <1>1 DEF ProxyInv, LB!List, LB!things, LB!spent
<1>2. CASE LB!ReadPods
  BY <1>2 DEF ProxyInv, LB!ReadPods, LB!things, LB!spent, LB!listed
<1>3. CASE LB!Publish
  BY <1>3 DEF ProxyInv, LB!Publish, LB!Next1, LB!Manages, LB!listed, LB!spent
<1>4. CASE LB!Sweep
  BY <1>4 DEF ProxyInv, LB!Sweep, LB!Ended, LB!listed, LB!spent
<1>5. ASSUME NEW s \in Served, LB!Skip(s)
      PROVE  ProxyInv'
  BY <1>5 DEF ProxyInv, LB!Skip, LB!Cleaned, LB!Next1, LB!things, LB!listed, LB!spent
<1>6. ASSUME NEW s \in Served, LB!Clean(s)
      PROVE  ProxyInv'
  BY <1>6 DEF ProxyInv, LB!Clean, LB!Cleaned, LB!Next1, LB!listed, LB!spent
<1>7. ASSUME NEW s \in Served, LB!SetProxy(s)
      PROVE  ProxyInv'
  BY <1>7 DEF ProxyInv, LB!SetProxy, LB!Treated, LB!Next1, LB!listed, LB!spent
<1>8. CASE LB!Errs
  BY <1>8 DEF ProxyInv, LB!Errs, LB!Next1, LB!Ended, LB!things, LB!listed
<1>9. CASE LB!Restart
  BY <1>9 DEF ProxyInv, LB!Restart, LB!things, LB!listed
<1>10. ASSUME NEW s \in Served, LB!Edit(s)
       PROVE  ProxyInv'
  BY <1>10 DEF ProxyInv, LB!Edit, LB!cycle, LB!listed
<1>11. ASSUME NEW s \in Served, LB!OthersPublish(s)
       PROVE  ProxyInv'
  BY <1>11, PartsAssumption DEF ProxyInv, LB!OthersPublish, LB!Others, LB!cycle, LB!listed, LB!spent
<1>12. CASE LB!Move
  BY <1>12 DEF ProxyInv, LB!Move, LB!cycle, LB!listed
<1> QED
  BY <1>1, <1>2, <1>3, <1>4, <1>5, <1>6, <1>7, <1>8, <1>9, <1>10, <1>11, <1>12
     DEF LB!Next, LB!Loop

(* As long as no call fails, a Service publishes no node without having its  *)
(* proxies, whatever is edited, moves and restarts.                          *)
THEOREM AlwaysProxied == FairSpec => []Proxied
<1> DEFINE Rest == ~Is("load balancer") => \A s \in Served : lbStatus[s] = {}
           Inv == (Is("load balancer") => ProxyInv) /\ Rest
<1>1. Init => Inv
  <2> SUFFICES ASSUME LB!Init PROVE Inv
    BY DEF Init
  <2> QED
    BY DEF LB!Init, ProxyInv, Bounds, GoneShowNone, AtProxied, Known, Cleared, AtWork, Shows, Proxied,
           LB!Proxied, Served
<1>2. Inv /\ [Next]_allVars => Inv'
  <2> SUFFICES ASSUME Inv, [Next]_allVars PROVE Inv'
    OBVIOUS
  <2>1. UNCHANGED part
    BY DEF Next, allVars
  <2>2. CASE Is("load balancer")
    <3>1. LB!Next \/ UNCHANGED <<lbVars, faults>>
      BY <2>2 DEF Next, Is, allVars
    <3>2. CASE UNCHANGED <<lbVars, faults>>
      BY <2>1, <2>2, <3>2 DEF lbVars, Is, ProxyInv, Bounds, GoneShowNone, AtProxied, Known, Cleared, AtWork,
                              Mine, Shows, Proxied, LB!Proxied
    <3> QED
      BY <2>1, <2>2, <3>1, <3>2, ProxyStep DEF Is
  <2>3. CASE ~Is("load balancer")
    BY <2>1, <2>3 DEF Next, Is, allVars, lbVars
  <2> QED
    BY <2>2, <2>3
<1>3. Inv => Proxied
  BY DEF ProxyInv, Proxied, LB!Proxied, Served
<1> QED
  BY <1>1, <1>2, <1>3, PTL DEF FairSpec

----------------------------------------------------------------------------
(* The domains of an app.  What an editor has seen of the Ingress is what is *)
(* there as long as the version is the same one; and an agent's tool is      *)
(* going to write what it saw first, and one host more.                      *)
Looked == [hosts : SUBSET Rules, secured : SUBSET Rules, revision : Nat]
Change == [kind : {"none", "agent", "form", "page", "certificate"},
           at : {"idle", "asked", "write", "attach", "delete"}, want : SUBSET Rules, first : Nat, saw : Looked]
DomainTypes == /\ hosts \in SUBSET Rules /\ secured \in SUBSET Rules /\ revision \in Nat
               /\ edit \in [Clients -> Change]
Bare == hosts = {} => secured = {}
SawOf(e) ==
    /\ edit[e].at = "write" => edit[e].want # {}
    /\ edit[e].saw.hosts = {} => edit[e].saw.secured = {}
    /\ edit[e].saw.revision \leq revision
    /\ edit[e].kind \in {"agent", "form"} /\ edit[e].at = "write" /\ edit[e].saw.revision = revision =>
           edit[e].saw.secured = secured
    /\ edit[e].first \leq revision
    /\ edit[e].kind = "agent" => edit[e].want # {} /\ edit[e].at # "delete"
    /\ edit[e].kind = "agent" /\ edit[e].first = revision => hosts \subseteq edit[e].want
IngressInv == DomainTypes /\ Bare /\ \A e \in Clients : SawOf(e)

LEMMA NoChange == AD!Idle \in Change /\ AD!Idle.at = "idle" /\ AD!Idle.kind = "none"
                  /\ AD!Idle.want = {} /\ AD!Idle.first = 0 /\ AD!Idle.saw.revision = 0 /\ AD!Idle.saw.secured = {}
                  /\ AD!Nothing \in Looked /\ AD!Nothing.revision = 0 /\ AD!Nothing.secured = {}
BY DEF AD!Idle, AD!Nothing, Change, Looked

LEMMA DomainsAtFirst == ASSUME AD!Init PROVE IngressInv
BY NoChange DEF AD!Init, IngressInv, DomainTypes, Bare, SawOf

(* One editor moves, the others stay as they are.                            *)
LEMMA EditMoves ==
    ASSUME DomainTypes, NEW e \in Clients, NEW q \in Change, edit' = [edit EXCEPT ![e] = q]
    PROVE  edit' \in [Clients -> Change] /\ edit'[e] = q /\ \A x \in Clients \ {e} : edit'[x] = edit[x]
BY DEF DomainTypes

LEMMA StartsAs ==
    ASSUME DomainTypes, NEW e \in Clients, NEW kind \in {"agent", "form", "page", "certificate"},
           NEW place \in {"asked", "write", "attach"}, NEW aim \in SUBSET Rules, NEW look \in Looked,
           AD!Starts(e, kind, place, aim, look)
    PROVE  /\ edit' \in [Clients -> Change] /\ \A x \in Clients \ {e} : edit'[x] = edit[x]
           /\ edit'[e].kind = kind /\ edit'[e].at = place /\ edit'[e].want = aim /\ edit'[e].saw = look
           /\ edit'[e].first = revision \/ (kind # "agent" /\ edit'[e].first = 0)
           /\ UNCHANGED <<hosts, secured, revision>>
<1> DEFINE q == [kind |-> kind, at |-> place, want |-> aim, saw |-> look,
                 first |-> IF kind = "agent" THEN revision ELSE 0]
<1>1. /\ q \in Change /\ q.kind = kind /\ q.at = place /\ q.want = aim /\ q.saw = look
      /\ q.first = revision \/ (kind # "agent" /\ q.first = 0)
  BY DEF DomainTypes, Change
<1>2. edit' = [edit EXCEPT ![e] = q]
  BY DEF AD!Starts
<1> HIDE DEF q
<1> QED
  BY <1>1, <1>2, EditMoves DEF AD!Starts, AD!ingress

LEMMA LooksAs ==
    ASSUME DomainTypes, NEW e \in Clients, AD!Looks(e)
    PROVE  /\ edit' \in [Clients -> Change] /\ \A x \in Clients \ {e} : edit'[x] = edit[x]
           /\ edit[e].at = "asked" /\ edit'[e].kind = edit[e].kind /\ edit'[e].want = edit[e].want
           /\ edit'[e].first = edit[e].first
           /\ edit'[e].at = (IF edit[e].want = {} THEN "delete" ELSE "write")
           /\ edit'[e].saw = AD!Stored
           /\ UNCHANGED <<hosts, secured, revision>>
<1> DEFINE q == [edit[e] EXCEPT !.saw = AD!Stored, !.at = IF edit[e].want = {} THEN "delete" ELSE "write"]
<1>1. edit[e] \in Change
  BY DEF DomainTypes
<1>2. AD!Stored \in Looked
  BY DEF DomainTypes, Looked, AD!Stored
<1>3. /\ q \in Change /\ q.kind = edit[e].kind /\ q.want = edit[e].want /\ q.first = edit[e].first /\ q.saw = AD!Stored
      /\ q.at = (IF edit[e].want = {} THEN "delete" ELSE "write")
  BY <1>1, <1>2 DEF Change
<1>4. edit' = [edit EXCEPT ![e] = q]
  BY <1>1 DEF AD!Looks, DomainTypes
<1> QED
  BY <1>3, <1>4, EditMoves DEF AD!Looks, AD!ingress

LEMMA EndsAs ==
    ASSUME DomainTypes, NEW e \in Clients, AD!Ends(e)
    PROVE  /\ edit' \in [Clients -> Change] /\ \A x \in Clients \ {e} : edit'[x] = edit[x]
           /\ edit'[e] = AD!Idle
BY NoChange, EditMoves DEF AD!Ends

(* What stores the domains leaves the look of the others behind.             *)
LEMMA StoresSeen ==
    ASSUME IngressInv, NEW e \in Clients, NEW h \in SUBSET Rules, NEW s \in SUBSET Rules,
           AD!Ends(e), AD!Stores(h, s), h = {} => s = {}
    PROVE  IngressInv'
<1>1. DomainTypes /\ \A x \in Clients : edit[x].saw.revision \in Nat /\ edit[x].first \in Nat
  BY DEF IngressInv, DomainTypes, Change, Looked
<1>2. DomainTypes'
  BY <1>1, EndsAs DEF DomainTypes, AD!Stores
<1>3. ASSUME NEW x \in Clients \ {e}
      PROVE  SawOf(x)'
  <2>1. edit'[x] = edit[x] /\ SawOf(x)
    BY <1>1, EndsAs DEF IngressInv
  <2>2. \A n, m \in Nat : n \leq m => n \leq m + 1 /\ n # m + 1
    OBVIOUS
  <2>3. /\ edit[x].saw.revision \leq revision' /\ edit[x].saw.revision # revision'
        /\ edit[x].first \leq revision' /\ edit[x].first # revision'
    BY <1>1, <2>1, <2>2 DEF SawOf, DomainTypes, AD!Stores
  <2> QED
    BY <2>1, <2>3 DEF SawOf
<1>4. SawOf(e)'
  BY <1>1, <1>2, EndsAs, NoChange DEF SawOf, DomainTypes
<1> QED
  BY <1>2, <1>3, <1>4 DEF IngressInv, Bare, AD!Stores

LEMMA SameSeen ==
    ASSUME IngressInv, NEW e \in Clients, AD!Ends(e), UNCHANGED <<hosts, secured, revision>>
    PROVE  IngressInv'
<1>1. DomainTypes
  BY DEF IngressInv
<1>2. DomainTypes'
  BY <1>1, EndsAs DEF DomainTypes
<1>3. SawOf(e)'
  BY <1>1, <1>2, EndsAs, NoChange DEF SawOf, DomainTypes
<1> QED
  BY <1>1, <1>2, <1>3, EndsAs DEF IngressInv, Bare, SawOf

(* The steps that begin a change.                                            *)
AskDomains(e) == \/ \E h \in Rules : AD!AgentReads(e, h)
                 \/ \E S \in SUBSET Rules : AD!FormSends(e, S) \/ AD!PageReads(e, S)
                 \/ AD!CertificateReads(e)

LEMMA AsksSeen ==
    ASSUME IngressInv, NEW e \in Clients, AskDomains(e)
    PROVE  IngressInv'
<1>1. AD!Stored \in Looked /\ [AD!Stored EXCEPT !.secured = {}] \in Looked
      /\ AD!Stored.hosts = hosts /\ AD!Stored.secured = secured /\ AD!Stored.revision = revision
      /\ [AD!Stored EXCEPT !.secured = {}].revision = revision
      /\ [AD!Stored EXCEPT !.secured = {}].secured = {}
  BY DEF IngressInv, DomainTypes, Looked, AD!Stored
<1>2. ASSUME NEW kind \in {"agent", "form", "page", "certificate"}, NEW place \in {"asked", "write", "attach"},
             NEW aim \in SUBSET Rules, NEW look \in Looked, AD!Starts(e, kind, place, aim, look),
             look.hosts = {} => look.secured = {}, look.revision \leq revision,
             place = "write" => kind = "page" /\ aim # {},
             kind = "agent" => hosts \subseteq aim /\ aim # {}
      PROVE  IngressInv'
  <2>1. DomainTypes /\ revision \in Nat /\ AD!Starts(e, kind, place, aim, look)
    BY <1>2 DEF IngressInv, DomainTypes
  <2>2. /\ edit' \in [Clients -> Change] /\ \A x \in Clients \ {e} : edit'[x] = edit[x]
        /\ edit'[e].kind = kind /\ edit'[e].at = place /\ edit'[e].want = aim /\ edit'[e].saw = look
        /\ edit'[e].first = revision \/ (kind # "agent" /\ edit'[e].first = 0)
        /\ UNCHANGED <<hosts, secured, revision>>
    BY <2>1, StartsAs
  <2>3. SawOf(e)'
    <3>1. edit'[e].first \leq revision'
      BY <2>1, <2>2
    <3>2. ~(edit'[e].kind \in {"agent", "form"} /\ edit'[e].at = "write") /\ edit'[e].at # "delete"
      BY <1>2, <2>2
    <3> QED
      BY <1>2, <2>2, <3>1, <3>2 DEF SawOf
  <2>4. \A x \in Clients \ {e} : SawOf(x)'
    BY <2>2 DEF SawOf, IngressInv
  <2> QED
    BY <2>1, <2>2, <2>3, <2>4 DEF IngressInv, DomainTypes, Bare
<1>3. ASSUME NEW h \in Rules, AD!AgentReads(e, h)
      PROVE  IngressInv'
  <2>1. hosts \cup {h} \in SUBSET Rules /\ hosts \cup {h} # {} /\ hosts \subseteq hosts \cup {h} /\ revision \in Nat
    BY DEF IngressInv, DomainTypes
  <2> QED
    BY <1>2, <1>3, <2>1, NoChange DEF AD!AgentReads
<1>4. ASSUME NEW S \in SUBSET Rules, AD!FormSends(e, S)
      PROVE  IngressInv'
  <2>1. revision \in Nat
    BY DEF IngressInv, DomainTypes
  <2> QED
    BY <1>2, <1>4, <2>1, NoChange DEF AD!FormSends
<1>5. ASSUME NEW S \in SUBSET Rules, AD!PageReads(e, S)
      PROVE  IngressInv'
  <2> DEFINE look == [AD!Stored EXCEPT !.secured = {}]
  <2>1. look \in Looked /\ look.secured = {} /\ look.revision \leq revision
    BY <1>1 DEF IngressInv, DomainTypes
  <2>2. S # {} /\ AD!Starts(e, "page", "write", S, look)
    BY <1>5 DEF AD!PageReads
  <2> HIDE DEF look
  <2> QED
    BY <1>2, <2>1, <2>2
<1>6. CASE AD!CertificateReads(e)
  <2>1. revision \in Nat /\ Bare
    BY DEF IngressInv, DomainTypes
  <2>2. AD!Starts(e, "certificate", "attach", {}, AD!Stored) /\ {} \in SUBSET Rules
    BY <1>6 DEF AD!CertificateReads
  <2>3. /\ AD!Stored \in Looked /\ AD!Stored.revision \leq revision
        /\ AD!Stored.hosts = {} => AD!Stored.secured = {}
    BY <1>1, <2>1 DEF Bare
  <2> QED
    BY <1>2, <2>2, <2>3
<1> QED
  BY <1>3, <1>4, <1>5, <1>6 DEF AskDomains

LEMMA LooksSeen ==
    ASSUME IngressInv, NEW e \in Clients, AD!Looks(e)
    PROVE  IngressInv'
<1>1. DomainTypes
  BY DEF IngressInv
<1>2. DomainTypes'
  BY <1>1, LooksAs DEF DomainTypes
<1>3. AD!Stored.hosts = hosts /\ AD!Stored.secured = secured /\ AD!Stored.revision = revision
  BY DEF AD!Stored
<1>4. SawOf(e)'
  BY <1>1, <1>3, LooksAs DEF SawOf, IngressInv, DomainTypes, Bare
<1> QED
  BY <1>1, <1>2, <1>4, LooksAs DEF IngressInv, SawOf, Bare

(* Whoever writes an agent's or a form's domains has seen the certificate    *)
(* that is there.                                                            *)
LEMMA FreshSees ==
    ASSUME IngressInv, NEW e \in Clients, edit[e].kind \in {"agent", "form"}, edit[e].at = "write", AD!Fresh(e)
    PROVE  edit[e].saw.secured = secured
BY DEF IngressInv, Bare, SawOf, AD!Fresh

(* Steps of a change under way other than its look at the Ingress.           *)
GoOn(e) == AD!Writes(e) \/ AD!Deletes(e) \/ AD!Attaches(e) \/ AD!Refused(e) \/ AD!Fails(e)

LEMMA GoesOn ==
    ASSUME IngressInv, NEW e \in Clients, GoOn(e)
    PROVE  IngressInv' /\ AD!Ends(e)
<1>1. /\ edit[e].want \in SUBSET Rules /\ edit[e].saw.secured \in SUBSET Rules
      /\ edit[e].at = "write" => edit[e].want # {}
      /\ hosts \in SUBSET Rules /\ {} \in SUBSET Rules
  BY DEF IngressInv, DomainTypes, Change, Looked, SawOf
<1>2. CASE AD!Writes(e)
  BY <1>1, <1>2, StoresSeen DEF AD!Writes
<1>3. CASE AD!Deletes(e)
  BY <1>1, <1>3, StoresSeen, SameSeen DEF AD!Deletes, AD!ingress
<1>4. CASE AD!Attaches(e)
  BY <1>1, <1>4, StoresSeen DEF AD!Attaches
<1>5. CASE AD!Refused(e) \/ AD!Fails(e)
  BY <1>5, SameSeen DEF AD!Refused, AD!Fails, AD!ingress
<1> QED
  BY <1>2, <1>3, <1>4, <1>5 DEF GoOn

LEMMA RemovedSeen ==
    ASSUME IngressInv, AD!Removed
    PROVE  IngressInv' /\ UNCHANGED edit
<1>1. /\ UNCHANGED edit /\ hosts' = {} /\ secured' = {} /\ revision' = revision + 1
      /\ DomainTypes /\ \A x \in Clients : edit[x].saw.revision \in Nat /\ edit[x].first \in Nat
  BY DEF IngressInv, DomainTypes, Change, Looked, AD!Removed, AD!Stores
<1>2. \A n, m \in Nat : n \leq m => n \leq m + 1 /\ n # m + 1
  OBVIOUS
<1>3. ASSUME NEW x \in Clients
      PROVE  SawOf(x)'
  <2>1. /\ edit[x].saw.revision \leq revision' /\ edit[x].saw.revision # revision'
        /\ edit[x].first \leq revision' /\ edit[x].first # revision'
    BY <1>1, <1>2 DEF SawOf, IngressInv, DomainTypes
  <2> QED
    BY <1>1, <2>1 DEF SawOf, IngressInv
<1>4. DomainTypes'
  BY <1>1 DEF DomainTypes
<1> QED
  BY <1>1, <1>3, <1>4 DEF IngressInv, Bare

LEMMA IngressStep ==
    ASSUME IngressInv, AD!Next
    PROVE  IngressInv'
BY AsksSeen, LooksSeen, GoesOn, RemovedSeen DEF AD!Next, AskDomains, GoOn

Keeps(e) == edit[e].kind \in {"agent", "form"} /\ edit[e].at = "write" /\ edit'[e] # edit[e] =>
                UNCHANGED secured

LEMMA KeepsCertificate ==
    ASSUME IngressInv, AD!Next, NEW e \in Clients
    PROVE  Keeps(e)
<1>1. DomainTypes
  BY DEF IngressInv
<1>2. ASSUME NEW x \in Clients, AskDomains(x) \/ AD!Looks(x)
      PROVE  Keeps(e)
  BY <1>2 DEF AskDomains, AD!AgentReads, AD!FormSends, AD!PageReads, AD!CertificateReads, AD!Looks,
              AD!Starts, AD!ingress, Keeps
<1>3. ASSUME NEW x \in Clients, GoOn(x)
      PROVE  Keeps(e)
  <2>1. CASE x # e
    BY <1>1, <1>3, <2>1, GoesOn, EndsAs DEF Keeps
  <2>2. CASE x = e /\ edit[e].kind \in {"agent", "form"} /\ edit[e].at = "write"
    BY <1>3, <2>2, FreshSees
       DEF GoOn, AD!Writes, AD!Deletes, AD!Attaches, AD!Refused, AD!Fails, AD!Stores, AD!ingress, Keeps
  <2> QED
    BY <2>1, <2>2 DEF Keeps
<1>4. CASE AD!Removed
  BY <1>4, RemovedSeen DEF Keeps
<1> QED
  BY <1>2, <1>3, <1>4 DEF AD!Next, AskDomains, GoOn

(* However many change the domains and the certificate of an app at once,   *)
(* and whatever fails, no change that an agent or the form writes takes     *)
(* away or replaces the certificate that is attached by then.               *)
THEOREM CertificateAlwaysStays == FairSpec => CertificateStays
<1>1. Init => IngressInv
  BY DomainsAtFirst DEF Init
<1>2. IngressInv /\ [Next]_allVars =>
          IngressInv' /\ [\A e \in Clients : edit[e].kind \in {"agent", "form"} /\ edit[e].at = "write"
                                             /\ edit'[e] # edit[e] => UNCHANGED secured]_AD!vars
  <2> SUFFICES ASSUME IngressInv, [Next]_allVars
               PROVE  IngressInv' /\ \A e \in Clients : Keeps(e)
    BY DEF Keeps
  <2>1. AD!Next \/ UNCHANGED adVars
    BY DEF Next, allVars
  <2>2. CASE UNCHANGED adVars
    BY <2>2 DEF adVars, IngressInv, DomainTypes, Bare, SawOf, Keeps
  <2> QED
    BY <2>1, <2>2, IngressStep, KeepsCertificate
<1> QED
  BY <1>1, <1>2, PTL DEF FairSpec, CertificateStays, AD!CertificateKept

(* An agent's tool that goes on from its two looks.                          *)
KeepsHosts(e) == edit[e].kind = "agent" /\ edit'[e] # edit[e] => hosts \subseteq hosts' \/ AD!Overtaken(edit[e])

LEMMA KeepsDomains ==
    ASSUME IngressInv, AD!Next, NEW e \in Clients
    PROVE  KeepsHosts(e)
<1>1. DomainTypes
  BY DEF IngressInv
<1>2. ASSUME NEW x \in Clients, AskDomains(x) \/ AD!Looks(x)
      PROVE  KeepsHosts(e)
  BY <1>2 DEF AskDomains, AD!AgentReads, AD!FormSends, AD!PageReads, AD!CertificateReads, AD!Looks,
              AD!Starts, AD!ingress, KeepsHosts
<1>3. ASSUME NEW x \in Clients, GoOn(x)
      PROVE  KeepsHosts(e)
  <2>1. CASE x # e
    BY <1>1, <1>3, <2>1, GoesOn, EndsAs DEF KeepsHosts
  <2>2. CASE x = e /\ edit[e].kind = "agent" /\ AD!Writes(e)
    <3>1. hosts' = edit[e].want
      BY <2>2 DEF AD!Writes, AD!Stores
    <3>2. CASE hosts = {}
      BY <3>2 DEF KeepsHosts
    <3>3. CASE hosts # {} /\ ~AD!Overtaken(edit[e])
      <4>1. edit[e].saw.revision = revision /\ edit[e].first = revision
        BY <2>2, <3>3 DEF AD!Writes, AD!Fresh, AD!Overtaken
      <4> QED
        BY <2>2, <3>1, <4>1 DEF KeepsHosts, IngressInv, SawOf
    <3> QED
      BY <3>2, <3>3 DEF KeepsHosts
  <2>3. CASE x = e /\ edit[e].kind = "agent" /\ ~AD!Writes(e)
    BY <1>3, <2>3 DEF GoOn, AD!Deletes, AD!Attaches, AD!Refused, AD!Fails, AD!Stores, AD!ingress, KeepsHosts,
                      IngressInv, SawOf
  <2> QED
    BY <2>1, <2>2, <2>3 DEF KeepsHosts
<1>4. CASE AD!Removed
  BY <1>4, RemovedSeen DEF KeepsHosts
<1> QED
  BY <1>2, <1>3, <1>4 DEF AD!Next, AskDomains, GoOn

(* However the tool of an agent, the form, the Ingresses page, certificates *)
(* and removals overlap, and whatever fails, the tool takes no host of the  *)
(* app away, unless another change came between its two looks               *)
(* (mcp_tools.go:803).                                                      *)
THEOREM DomainsAlwaysStay == FairSpec => DomainsStay
<1>1. Init => IngressInv
  BY DomainsAtFirst DEF Init
<1>2. IngressInv /\ [Next]_allVars =>
          IngressInv' /\ [\A e \in Clients : edit[e].kind = "agent" /\ edit'[e] # edit[e] =>
                                hosts \subseteq hosts' \/ AD!Overtaken(edit[e])]_AD!vars
  <2> SUFFICES ASSUME IngressInv, [Next]_allVars
               PROVE  IngressInv' /\ \A e \in Clients : KeepsHosts(e)
    BY DEF KeepsHosts
  <2>1. AD!Next \/ UNCHANGED adVars
    BY DEF Next, allVars
  <2>2. CASE UNCHANGED adVars
    BY <2>2 DEF adVars, IngressInv, DomainTypes, Bare, SawOf, KeepsHosts
  <2> QED
    BY <2>1, <2>2, IngressStep, KeepsDomains
<1> QED
  BY <1>1, <1>2, PTL DEF FairSpec, DomainsStay, AD!HostsKept

----------------------------------------------------------------------------
(* The loops of the local node and of the load balancer, whatever is played. *)
THEOREM LoopsAlwaysCareful == FairSpec => []LoopsCareful
BY OneRunsAlways, AlwaysProxied, PTL DEF LoopsCareful
=============================================================================
