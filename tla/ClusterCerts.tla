---------------------------- MODULE ClusterCerts ----------------------------
(***************************************************************************)
(* The certificates and keys of the embedded control plane, as files: what *)
(* a start of the server finds, throws away and makes, in the order it     *)
(* does so (server/certs.go), with the process ending between two file     *)
(* operations or in the middle of a write.  Every start runs the same      *)
(* stages; a stage reads the directory and leaves file operations to do.   *)
(***************************************************************************)
EXTENDS Naturals, Sequences, FiniteSets, SequencesExt

CONSTANTS MaxStarts,      \* clean restarts
          MaxFaults       \* ends of the process in the middle of a start

VARIABLES disk,           \* file -> what it holds
          stage,          \* the stage the start is in, "serving" or "down"
          todo,           \* the file operations the stage has left
          conf,           \* the address and the port the start is configured with
          restarts, faults

vars == <<disk, stage, todo, conf, restarts, faults>>

Kubeconfigs == {"authz", "controller-manager", "scheduler"}
(* dependentFiles, in the order they are removed. *)
Dependents == <<"ca.key", "ca.crt", "apiserver.key", "apiserver.crt", "admin.key", "admin.crt",
                "kubelet.key", "kubelet.crt", "webhook.crt", "webhook.key",
                "authz", "controller-manager", "scheduler">>
Files == ToSet(Dependents) \cup {"sa.key", "sa.pub"}

(* Keys are numbers; Legacy is the one that is ECDSA where RSA is needed. *)
Legacy == 0
Absent == [is |-> "absent"]
Torn == [is |-> "torn"]
Key(k) == [is |-> "key", key |-> k]
Cert(k, ca, ip) == [is |-> "cert", key |-> k, ca |-> ca, ip |-> ip]
Config(ca, crt, key, port) == [is |-> "config", ca |-> ca, crt |-> crt, key |-> key, port |-> port]

Exists(f) == disk[f] # Absent
Matches(crt, key) == crt.is = "cert" /\ key.is = "key" /\ crt.key = key.key
SignedBy(crt, ca) == crt.is = "cert" /\ ca.is = "cert" /\ crt.ca = ca.key

(* A key that no file holds yet. *)
NumbersOf(v) == CASE v.is = "key" -> {v.key}
                  [] v.is = "cert" -> {v.key, v.ca}
                  [] OTHER -> {}
Used == (UNION {NumbersOf(disk[f]) : f \in Files})
        \cup (UNION {NumbersOf(disk[f].ca) \cup NumbersOf(disk[f].key) : f \in {g \in Kubeconfigs : disk[g].is = "config"}})
NewKey == CHOOSE k \in 1..(Cardinality(Used) + 1) : k \notin Used

Write(f, v) == [file |-> f, to |-> v]
RemoveAll == [i \in DOMAIN Dependents |-> Write(Dependents[i], Absent)]
Pair(crt, key, ca, ip) == LET k == NewKey IN <<Write(crt, Cert(k, ca, ip)), Write(key, Key(k))>>
CA == disk["ca.crt"].key

caKeyIsECDSA == disk["ca.key"] = Key(Legacy)
\* Variant: that both files are there is enough.
existingCAPair == Exists("ca.crt") <=> Exists("ca.key")
existingCACertKeyUsable ==
    \/ ~Exists("ca.crt") /\ ~Exists("ca.key")
    \/ Matches(disk["ca.crt"], disk["ca.key"])
apiServerServingCertUsable ==
    /\ Matches(disk["apiserver.crt"], disk["apiserver.key"])
    /\ SignedBy(disk["apiserver.crt"], disk["ca.crt"])
    /\ disk["apiserver.crt"].ip = conf.ip
webhookCertValidUnderCA == SignedBy(disk["webhook.crt"], disk["ca.crt"])
kubeconfigPointsAt(f) == disk[f].is = "config" /\ disk[f].port = conf.port

(* A kubeconfig is kept if it names the port, and holds copies otherwise; *)
(* without the admin's files there is none, which is a warning.           *)
Kubeconfig(f) ==
    IF kubeconfigPointsAt(f) \/ ~Exists("admin.crt") \/ ~Exists("admin.key") THEN <<>>
    ELSE <<Write(f, Config(disk["ca.crt"], disk["admin.crt"], disk["admin.key"], conf.port))>>
(* The webhook's pair is made anew unless both files are there and the    *)
(* certificate is the authority's; whose key it is is not looked at.      *)
EnsureWebhookCert ==
    LET both == Exists("webhook.crt") /\ Exists("webhook.key")
        old == IF both THEN <<Write("webhook.crt", Absent), Write("webhook.key", Absent)>> ELSE <<>>
    IN  IF both /\ webhookCertValidUnderCA THEN <<>>
        ELSE old \o Pair("webhook.crt", "webhook.key", CA, 0)

Stages == <<"legacy", "usable", "ca", "apiserver", "admin", "kubelet", "sa",
            "authz", "webhook", "scheduler", "controller-manager">>
(* What a stage finds to do. *)
Work(s) ==
    CASE s = "legacy" -> IF caKeyIsECDSA THEN RemoveAll ELSE <<>>
      [] s = "usable" -> IF existingCACertKeyUsable THEN <<>> ELSE RemoveAll
      [] s = "ca" -> IF Exists("ca.crt") /\ Exists("ca.key") THEN <<>>
                     ELSE Pair("ca.crt", "ca.key", NewKey, 0)
      [] s = "apiserver" -> IF apiServerServingCertUsable THEN <<>>
                            ELSE <<Write("apiserver.key", Absent), Write("apiserver.crt", Absent)>>
                                 \o Pair("apiserver.crt", "apiserver.key", CA, conf.ip)
      [] s = "admin" -> IF Exists("admin.crt") THEN <<>> ELSE Pair("admin.crt", "admin.key", CA, 0)
      [] s = "kubelet" -> IF Exists("kubelet.crt") THEN <<>> ELSE Pair("kubelet.crt", "kubelet.key", CA, 0)
      [] s = "sa" -> IF Exists("sa.key") /\ Exists("sa.pub") THEN <<>>
                     ELSE <<Write("sa.key", Key(NewKey)), Write("sa.pub", Key(NewKey))>>
      [] s = "webhook" -> EnsureWebhookCert
      [] OTHER -> Kubeconfig(s)

NextStage(s) == IF s = Last(Stages) THEN "serving"
                ELSE Stages[CHOOSE i \in 2..Len(Stages) : Stages[i - 1] = s]

(* The directory of an earlier version, of this one, or with another      *)
(* authority's key put in its place, and none at all.                     *)
Made(ca, caKey) ==
    [f \in Files |->
        CASE f = "ca.crt" -> Cert(ca, ca, 0)
          [] f = "ca.key" -> Key(caKey)
          [] f = "apiserver.crt" -> Cert(2, ca, 1)
          [] f = "apiserver.key" -> Key(2)
          [] f = "admin.crt" -> Cert(3, ca, 0)
          [] f = "admin.key" -> Key(3)
          [] f = "kubelet.crt" -> Cert(4, ca, 0)
          [] f = "kubelet.key" -> Key(4)
          [] f = "webhook.crt" -> Cert(5, ca, 0)
          [] f = "webhook.key" -> Key(5)
          [] f \in {"sa.key", "sa.pub"} -> Key(6)
          [] OTHER -> Config(Cert(ca, ca, 0), Cert(3, ca, 0), Key(3), 1)]
Init == /\ disk \in {[f \in Files |-> Absent], Made(1, 1), Made(Legacy, Legacy), Made(1, 7)}
        /\ stage = "legacy" /\ todo = Work("legacy")
        /\ conf \in [ip : 1..2, port : 1..2]
        /\ restarts = 0 /\ faults = 0

(* The apiserver does not come to be ready without the keys it is given:   *)
(* the components after the webhooks are started when it is.               *)
ApiserverRuns == /\ Matches(disk["kubelet.crt"], disk["kubelet.key"])
                 /\ disk["sa.key"].is = "key" /\ disk["sa.pub"].is = "key"
(* The next stage looks at the directory, or the last is done. *)
Enter == /\ stage \in ToSet(Stages) /\ todo = <<>>
         /\ stage = "webhook" => ApiserverRuns
         /\ stage' = NextStage(stage)
         /\ todo' = IF stage' = "serving" THEN <<>> ELSE Work(stage')
         /\ UNCHANGED <<disk, conf, restarts, faults>>
Do == /\ todo # <<>>
      /\ disk' = [disk EXCEPT ![Head(todo).file] = Head(todo).to]
      /\ todo' = Tail(todo)
      /\ UNCHANGED <<stage, conf, restarts, faults>>
(* The process ends; a write it was in may be torn. *)
End == /\ stage \in ToSet(Stages) /\ faults < MaxFaults
       /\ \/ UNCHANGED disk
          \/ /\ todo # <<>> /\ Head(todo).to # Absent
             /\ disk' = [disk EXCEPT ![Head(todo).file] = Torn]
       /\ stage' = "down" /\ todo' = <<>> /\ faults' = faults + 1
       /\ UNCHANGED <<conf, restarts>>
Stop == /\ stage = "serving" /\ restarts < MaxStarts
        /\ stage' = "down" /\ restarts' = restarts + 1
        /\ UNCHANGED <<disk, todo, conf, faults>>
Start == /\ stage = "down"
         /\ conf' \in [ip : 1..2, port : 1..2]
         /\ stage' = "legacy" /\ todo' = Work("legacy")
         /\ UNCHANGED <<disk, restarts, faults>>
Next == Enter \/ Do \/ End \/ Stop \/ Start
Spec == Init /\ [][Next]_vars

----------------------------------------------------------------------------
Signed(crt, key) == Matches(disk[crt], disk[key]) /\ SignedBy(disk[crt], disk["ca.crt"])
(* The authority and what serves under it. *)
FoundationMade == /\ Matches(disk["ca.crt"], disk["ca.key"]) /\ ~caKeyIsECDSA
                  /\ apiServerServingCertUsable
(* And every certificate, key and configuration that hangs from it. *)
ChainMade ==
    /\ FoundationMade
    /\ Signed("admin.crt", "admin.key") /\ Signed("kubelet.crt", "kubelet.key")
    /\ Signed("webhook.crt", "webhook.key")
    /\ disk["sa.key"] = disk["sa.pub"] /\ disk["sa.key"].is = "key"
    /\ \A f \in Kubeconfigs :
          disk[f] = Config(disk["ca.crt"], disk["admin.crt"], disk["admin.key"], conf.port)

(***************************************************************************)
(* However earlier starts ended, a start that is past the serving          *)
(* certificate has its authority and a certificate for its addresses under *)
(* it (the checks of ensureCerts), and if no start was cut short, whatever *)
(* directory it found, once it serves all its certificates, keys and       *)
(* configurations are of one authority.                                    *)
(***************************************************************************)
CertsHeal ==
    /\ stage \in {"admin", "kubelet", "sa", "authz", "webhook", "scheduler", "controller-manager", "serving"}
          => FoundationMade
    /\ stage = "serving" /\ faults = 0 => ChainMade

(***************************************************************************)
(* As ensureCerts says of itself, it removes the authority and all         *)
(* dependent artifacts so that a start regenerates a consistent chain, and *)
(* makes the admin's certificate and key if absent: a server that serves   *)
(* has the chain.                                                          *)
(***************************************************************************)
ConsistentChain == stage = "serving" => ChainMade
=============================================================================
