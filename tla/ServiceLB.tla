----------------------------- MODULE ServiceLB -----------------------------
(***************************************************************************)
(* The built-in load balancer.  Every few seconds its leader lists the     *)
(* Services, runs a DaemonSet of proxies for each it manages, publishes    *)
(* the nodes whose proxy is ready in the Service's status, and tidies up   *)
(* after those it no longer manages.  Started without the load balancer,   *)
(* casos tidies up after all of them, once.                                *)
(***************************************************************************)
EXTENDS Naturals

CONSTANTS Services, Nodes,
          MaxEdits,    \* changes to Services
          MaxMoves,    \* changes of what is ready
          MaxFaults,   \* calls that fail
          MaxRestarts  \* of casos, and changes of leader

VARIABLES svc,      \* Service -> what it is
          status,   \* Service -> the addresses it publishes
          sets,     \* Service -> the DaemonSet of its name: "none", "casos" or "foreign"
          ready,    \* Service -> nodes where a proxy of it is, or would be, ready
          up,       \* nodes that are ready
          enabled,  \* casos was started with the load balancer
          pc,       \* where the cycle is
          seen, had, upSeen, \* what it has listed: Services, DaemonSets, nodes
          left,     \* Services of the list it has still to deal with
          want,     \* DaemonSets it wants
          now, ips, \* the Service it is at and its addresses
          edits, moves, faults, restarts
listed == <<seen, had, upSeen>>
cycle  == <<pc, listed, left, want, now, ips>>
things == <<svc, status, sets, ready, up>>
spent  == <<edits, moves, faults, restarts>>
vars   == <<things, enabled, cycle, spent>>

(* A Service: not made or gone; not of type LoadBalancer; of casos' class, *)
(* of none or another's; switched off by annotation.                       *)
Kinds      == {"default", "ours", "off", "ours off", "plain", "theirs", "gone"}
Manages(k) == k \in {"default", "ours"}       \* serviceLBManages
Owned(k)   == k \in {"ours", "ours off"}      \* serviceLBWasExplicitlyOwned
Others     == "others"                        \* an address another load balancer publishes

TypeOK == /\ svc \in [Services -> Kinds] /\ status \in [Services -> SUBSET (Nodes \cup {Others})]
          /\ pc \in {"idle", "next", "pods", "publish", "off"}
          /\ left \subseteq Services /\ want \subseteq Services /\ ips \subseteq Nodes

Init == /\ svc \in [Services -> {"default", "ours", "plain"}]
        /\ status = [s \in Services |-> {}]
        /\ sets \in [Services -> {"none", "foreign"}]
        /\ ready = [s \in Services |-> Nodes] /\ up = Nodes
        /\ enabled = TRUE /\ pc = "idle"
        /\ seen = svc /\ had = {} /\ upSeen = {} /\ left = {} /\ want = {}
        /\ now \in Services /\ ips = {}
        /\ edits = 0 /\ moves = 0 /\ faults = 0 /\ restarts = 0

Pods(s) == IF sets[s] = "casos" THEN ready[s] ELSE {}

----------------------------------------------------------------------------
(* reconcileServiceLBWithImage lists nodes, Services and DaemonSets;       *)
(* cleanupServiceLB does, and takes all Services for unmanaged.            *)
List == /\ pc = "idle" /\ pc' = "next"
        /\ seen' = svc /\ had' = {s \in Services : sets[s] = "casos"} /\ upSeen' = up
        /\ left' = {s \in Services : svc[s] # "gone"} /\ want' = {}
        /\ UNCHANGED <<things, enabled, now, ips, spent>>

Treated(s) == pc = "next" /\ s \in left /\ enabled /\ Manages(seen[s])
Cleaned(s) == pc = "next" /\ s \in left /\ ~(enabled /\ Manages(seen[s]))
Next1(s)   == pc' = "next" /\ left' = left \ {s}

\* Variant: of what is not managed, only what is of casos' class is cleaned up.
SkipUnowned(s) == /\ Cleaned(s) /\ ~Owned(seen[s]) /\ Next1(s)
                  /\ UNCHANGED <<things, enabled, listed, want, now, ips, spent>>

(* Nothing shows that casos ever managed it. *)
Skip(s) == /\ Cleaned(s) /\ s \notin had /\ ~Owned(seen[s]) /\ Next1(s)
           /\ UNCHANGED <<things, enabled, listed, want, now, ips, spent>>

(* cleanupLoadBalancerService: whatever the status is by now, and whatever *)
(* the Service has become.                                                 *)
Clean(s) == /\ Cleaned(s) /\ (s \in had \/ Owned(seen[s])) /\ Next1(s)
            /\ status' = [status EXCEPT ![s] = {}]
            /\ UNCHANGED <<svc, sets, ready, up, enabled, listed, want, now, ips, spent>>

(* createOrUpdateServiceLBDaemonSet refuses what is not its own. *)
SetProxy(s) ==
    /\ Treated(s) /\ want' = want \cup {s}
    /\ IF sets[s] = "foreign" THEN Next1(s) /\ UNCHANGED <<sets, now>>
       ELSE /\ sets' = [sets EXCEPT ![s] = "casos"]
            /\ pc' = "pods" /\ now' = s /\ UNCHANGED left
    /\ UNCHANGED <<svc, status, ready, up, enabled, listed, ips, spent>>

(* serviceLBReadyProxyNodeIPs *)
ReadPods == /\ pc = "pods" /\ pc' = "publish"
            /\ ips' = Pods(now) \cap upSeen
            /\ UNCHANGED <<things, enabled, listed, left, want, now, spent>>

(* reconcileLoadBalancerService reads the Service again, and retries on a conflict. *)
Publish == /\ pc = "publish" /\ Next1(now)
           /\ status' = IF Manages(svc[now]) THEN [status EXCEPT ![now] = ips] ELSE status
           /\ UNCHANGED <<svc, sets, ready, up, enabled, listed, want, now, ips, spent>>

Ended == IF enabled THEN "idle" ELSE "off"

\* Variant: only proxies of Services that are listed are looked at.
SweepListed == /\ pc = "next" /\ left = {} /\ pc' = Ended
               /\ sets' = [s \in Services |-> IF sets[s] = "casos" /\ s \notin want /\ seen[s] # "gone"
                                              THEN "none" ELSE sets[s]]
               /\ UNCHANGED <<svc, status, ready, up, enabled, listed, left, want, now, ips, spent>>

(* cleanupOrphanedServiceLBDaemonSets *)
Sweep == /\ pc = "next" /\ left = {} /\ pc' = Ended
         /\ sets' = [s \in Services |-> IF sets[s] = "casos" /\ s \notin want THEN "none" ELSE sets[s]]
         /\ UNCHANGED <<svc, status, ready, up, enabled, listed, left, want, now, ips, spent>>

(* A call fails: the cycle ends if it was a listing, else it goes on with  *)
(* the next Service, and the rest of it is done all the same.              *)
Errs == /\ faults < MaxFaults /\ faults' = faults + 1
        /\ \/ pc = "idle" /\ ~enabled /\ pc' = "off" /\ UNCHANGED <<left, want>>
           \/ pc = "next" /\ left = {} /\ pc' = Ended /\ UNCHANGED <<left, want>>
           \/ \E s \in left : Cleaned(s) /\ Next1(s) /\ UNCHANGED want
           \/ \E s \in left : Treated(s) /\ Next1(s) /\ want' = want \cup {s}
           \/ pc \in {"pods", "publish"} /\ Next1(now) /\ UNCHANGED want
        /\ UNCHANGED <<things, enabled, listed, now, ips, edits, moves, restarts>>

Loop == \/ List \/ ReadPods \/ Publish \/ Sweep
        \/ \E s \in Services : Skip(s) \/ Clean(s) \/ SetProxy(s)

(* casos is started again, with the load balancer or without; or another   *)
(* instance of it takes over the lease in the middle of a cycle.           *)
Restart == /\ restarts < MaxRestarts /\ restarts' = restarts + 1
           /\ enabled' \in BOOLEAN /\ pc' = "idle"
           /\ UNCHANGED <<things, listed, left, want, now, ips, edits, moves, faults>>

----------------------------------------------------------------------------
(* The cluster.  Whether the status of a Service that is no longer a load  *)
(* balancer's is cleared is the apiserver's affair.                        *)
Edit(s) == /\ edits < MaxEdits /\ edits' = edits + 1
           /\ svc[s] # "gone"
           /\ \E k \in Kinds \ {svc[s]} :
                 /\ svc' = [svc EXCEPT ![s] = k]
                 /\ \/ k # "gone" /\ UNCHANGED status
                    \/ k \in {"gone", "plain"} /\ status' = [status EXCEPT ![s] = {}]
           /\ UNCHANGED <<sets, ready, up, enabled, cycle, moves, faults, restarts>>

OthersPublish(s) == /\ svc[s] = "theirs" /\ status[s] # {Others}
                    /\ status' = [status EXCEPT ![s] = {Others}]
                    /\ UNCHANGED <<svc, sets, ready, up, enabled, cycle, spent>>

Move == /\ moves < MaxMoves /\ moves' = moves + 1
        /\ \E n \in Nodes : \/ up' = (up \cup {n}) \ (up \cap {n}) /\ UNCHANGED ready
                            \/ \E s \in Services :
                                  ready' = [ready EXCEPT ![s] = (@ \cup {n}) \ (@ \cap {n})] /\ UNCHANGED up
        /\ UNCHANGED <<svc, status, sets, enabled, cycle, edits, faults, restarts>>

Next == \/ Loop \/ Errs \/ Restart \/ Move
        \/ \E s \in Services : Edit(s) \/ OthersPublish(s)

(* Someone leads as long as casos runs; and other load balancers do their work. *)
Fairness == WF_vars(Loop) /\ \A s \in Services : WF_vars(OthersPublish(s))
FairSpec == Init /\ [][Next]_vars /\ Fairness

----------------------------------------------------------------------------
(* Once the cluster is quiet, a Service that casos manages publishes the   *)
(* nodes where its proxy is ready, whatever failed before; and of one that *)
(* it does not, no proxy is left, and no address unless a call failed.     *)
Serves(s) == sets[s] = "foreign" \/ (sets[s] = "casos" /\ status[s] = Pods(s) \cap up)
Tidied(s) == sets[s] # "casos" /\ (svc[s] = "theirs" => status[s] = {Others})
Converges ==
    \A s \in Services :
        /\ <>[](enabled /\ Manages(svc[s]) => Serves(s))
        /\ <>[](faults = 0 /\ ~(enabled /\ Manages(svc[s])) => Tidied(s) /\ status[s] \cap Nodes = {})

(* What publishes a node has its proxies, through edits, changes of leader *)
(* and restarts without the balancer, as long as no call fails: the status *)
(* is cleared before the sweep takes away the one thing that shows a later *)
(* cycle whose it was.                                                     *)
Proxied == faults = 0 => \A s \in Services : status[s] \cap Nodes # {} => sets[s] = "casos"

(* Only nodes with a ready proxy are published (servicelb.go:57), in the   *)
(* end at least, and of a Service that still is a load balancer's.         *)
OnlyReadyPublished ==
    \A s \in Services : <>[](enabled /\ svc[s] # "plain" => status[s] \cap Nodes \subseteq Pods(s))
=============================================================================
