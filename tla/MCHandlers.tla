----------------------------- MODULE MCHandlers -----------------------------
(* Handlers on small scenes: every script alone, on the cluster it is made *)
(* for, with calls that fail and others that meddle; alone on a cluster    *)
(* that differs in one object; and with another one, a call at a time.     *)
EXTENDS Handlers
CONSTANTS r1, r2

Apt(s) == [o \in Objects(s) |-> IF o \in Needs(s) THEN "casos" ELSE "none"]
Solo(n, has, f, m) ==
    [who |-> (r1 :> n) @@ (r2 :> "nobody"), script |-> (r1 :> Scripts[n]) @@ (r2 :> Does(<<>>)),
     has |-> has, faults |-> f, meddles |-> m, lasting |-> FALSE]

AptScenes(f, m) == {Solo(n, Apt(Scripts[n]), f, m) : n \in DOMAIN Scripts}
OddScenes(f) ==
    UNION {{Solo(n, [Apt(Scripts[n]) EXCEPT ![o] = k], f, 0) :
              o \in Objects(Scripts[n]), k \in {"none", "casos", "foreign"}} : n \in DOMAIN Scripts}

(* Two handlers at once, on what either of them is made for.               *)
OfApps      == {"UpgradeImageAppBare", "ScaleImageApp", "DeleteDeployment",
                "UpdateDeployment", "RollbackDeployment", "RestartDeployment"}
OfDatabases == {"CreateDatabase", "UpdateDatabase", "ScaleDatabase", "DeleteDatabase"}
Pair(n, m) ==
    [who |-> (r1 :> n) @@ (r2 :> m), script |-> (r1 :> Scripts[n]) @@ (r2 :> Scripts[m]),
     has |-> [o \in Objects(Scripts[n]) \cup Objects(Scripts[m]) |->
                IF o \in Needs(Scripts[n]) \cup Needs(Scripts[m]) THEN "casos" ELSE "none"],
     faults |-> 0, meddles |-> 0, lasting |-> FALSE]
PairScenes == {Pair(n, m) : n, m \in OfApps} \cup {Pair(n, m) : n, m \in OfDatabases}

(* Scripts that remove what they have found to be casos' own.              *)
Wary(n) == \E c \in Every(Scripts[n]) : c.op \in {"shed", "sweep"}

SafetyScenes == AptScenes(1, 1) \cup {sc \in AptScenes(0, 2) : Wary(sc.who[r1])} \cup OddScenes(1) \cup PairScenes
RepeatScenes == {[sc EXCEPT !.lasting = TRUE] : sc \in AptScenes(2, 0)}
AllScenes    == SafetyScenes \cup RepeatScenes
=============================================================================
