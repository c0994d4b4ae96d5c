----------------------------- MODULE MCWatchers -----------------------------
(***************************************************************************)
(* The background loops and the pages beside them, one part at a time:     *)
(* they share nothing but the cluster's API and the database, and each of  *)
(* these modules models what of them it uses.                              *)
(***************************************************************************)
EXTENDS Naturals

CONSTANTS s1, n1, n2,                        \* a Service and two nodes
          Classes, Own,                      \* of storage
          Scopes, Rules,                     \* of the webhooks
          Clients, MaxRequests,              \* who asks for changes of either
          Flows, MaxUploads,                 \* of certificates
          MaxTime, MaxCalls,                 \* of the boxes
          Computers, Joins, Names, Databases, MaxUses, MaxRemovals, \* of the mesh
          MaxIssues, MaxEvents,              \* of the monitor page
          MaxFaults

(* Names of requests, computers and addresses are not the marks for none   *)
(* of them, or for others' ones.                                           *)
ASSUME PartsAssumption ==
    /\ Own \in Classes /\ Clients # {} /\ 0 \notin Flows
    /\ MaxUses \in Nat /\ MaxIssues \in Nat /\ 0 \notin Joins /\ "admin" \notin Computers /\ n1 # "others"

VARIABLES part,
          mode, addr, row, lock, at, seen, attempt, running, session, cached, routes, jobs,
          svc, lbStatus, sets, ready, up, enabled, pc, lbSeen, had, upSeen, left, want, lbNow, ips, edits, moves,
          class, scReq, scBoot, failed,
          status, flow, upload, uploads, account, key, tokens, route, valid, secret, tls,
          rules, loaded, req, boot, changed, placed, older,
          now, box, parts, agent, person, reaper, calls,
          setup, uses, spent, machine, member, join, saved, member_of, removal, lost, removals,
          disk, stage, todo, conf,
          world, probe, snap, db, changes,
          hosts, secured, revision, edit,
          faults, restarts, asked

LN == INSTANCE LocalNode WITH Modes <- {"auto", "manual", "member"}, MaxRestarts <- 2, MaxJobs <- 1
LB == INSTANCE ServiceLB WITH Services <- {s1}, Nodes <- {n1}, MaxEdits <- 2, MaxMoves <- 1, MaxRestarts <- 1,
                              status <- lbStatus, seen <- lbSeen, now <- lbNow
SC == INSTANCE StorageClasses WITH req <- scReq, boot <- scBoot
CE == INSTANCE Certificates
PE == INSTANCE PolicyEnforcer
DL == INSTANCE DevboxLeases
MJ == INSTANCE MeshJoin
CC == INSTANCE ClusterCerts WITH MaxStarts <- 1
MO == INSTANCE MonitorChecks WITH Nodes <- {n1, n2}, MaxChanges <- 2
AD == INSTANCE AppDomains WITH Hosts <- Rules, Editors <- Clients, MaxRevisions <- 2

lnVars == <<mode, addr, row, lock, at, seen, attempt, running, session, cached, routes, jobs>>
lbVars == <<svc, lbStatus, sets, ready, up, enabled, pc, lbSeen, had, upSeen, left, want, lbNow, ips, edits, moves>>
scVars == <<class, scReq, scBoot, failed>>
ceVars == <<status, flow, upload, uploads, account, key, tokens, route, valid, secret, tls>>
peVars == <<rules, loaded, req, boot, changed, placed, older>>
dlVars == <<now, box, parts, agent, person, reaper, calls>>
mjVars == <<setup, uses, spent, machine, member, join, saved, member_of, removal, lost, removals>>
ccVars == <<disk, stage, todo, conf>>
moVars == <<world, probe, snap, db, changes>>
adVars == <<hosts, secured, revision, edit>>

Parts == {"local node", "load balancer", "storage", "certificates", "policies", "devboxes", "mesh",
          "authority", "monitor", "domains"}
Is(p) == part = p

(* All parts but the one that is played are at rest in one state. *)
Init == /\ part \in Parts
        /\ LN!Init /\ (~Is("local node") => mode = "manual" /\ addr = 1)
        /\ LB!Init /\ (~Is("load balancer") => svc[s1] = "plain" /\ sets[s1] = "none")
        /\ SC!Init /\ (~Is("storage") => scBoot = SC!BootAt("off") /\ \A c \in Classes : class[c] = SC!Absent)
        /\ CE!Init /\ (~Is("certificates") => account = 0)
        /\ PE!Init /\ (~Is("policies") => \A s \in Scopes : rules[s] = {})
        /\ DL!Init /\ (~Is("devboxes") => box.lease = DL!Kept)
        /\ MJ!Init /\ (~Is("mesh") => setup = [db |-> "sqlite", uses |-> 1])
        /\ CC!Init /\ (~Is("authority") => conf = [ip |-> 1, port |-> 1] /\ disk["ca.key"] = CC!Absent)
        /\ MO!Init
        /\ AD!Init /\ (~Is("domains") => hosts = {})

Next == /\ UNCHANGED part
        /\ \/ Is("local node") /\ LN!Next /\ UNCHANGED <<lbVars, scVars, ceVars, peVars, dlVars, mjVars, ccVars, moVars, adVars, asked>>
           \/ Is("load balancer") /\ LB!Next /\ UNCHANGED <<lnVars, scVars, ceVars, peVars, dlVars, mjVars, ccVars, moVars, adVars, asked>>
           \/ Is("storage") /\ SC!Next /\ UNCHANGED <<lnVars, lbVars, ceVars, peVars, dlVars, mjVars, ccVars, moVars, adVars, faults, restarts>>
           \/ Is("certificates") /\ CE!Next /\ UNCHANGED <<lnVars, lbVars, scVars, peVars, dlVars, mjVars, ccVars, moVars, adVars, restarts, asked>>
           \/ Is("policies") /\ PE!Next /\ UNCHANGED <<lnVars, lbVars, scVars, ceVars, dlVars, mjVars, ccVars, moVars, adVars, restarts>>
           \/ Is("devboxes") /\ DL!Next /\ UNCHANGED <<lnVars, lbVars, scVars, ceVars, peVars, mjVars, ccVars, moVars, adVars, restarts, asked>>
           \/ Is("mesh") /\ MJ!Next /\ UNCHANGED <<lnVars, lbVars, scVars, ceVars, peVars, dlVars, ccVars, moVars, adVars, restarts, asked>>
           \/ Is("authority") /\ CC!Next /\ UNCHANGED <<lnVars, lbVars, scVars, ceVars, peVars, dlVars, mjVars, moVars, adVars, asked>>
           \/ Is("monitor") /\ MO!Next /\ UNCHANGED <<lnVars, lbVars, scVars, ceVars, peVars, dlVars, mjVars, ccVars, adVars, restarts, asked>>
           \/ Is("domains") /\ AD!Next /\ UNCHANGED <<lnVars, lbVars, scVars, ceVars, peVars, dlVars, mjVars, ccVars, moVars, faults, restarts, asked>>

(* The fairness of the part that is played. *)
Fairness ==
    /\ \A a \in LN!Actors : SF_lnVars(Is("local node") /\ LN!Step(a))
    /\ WF_lnVars(Is("local node") /\ LN!Deployed)
    /\ WF_lnVars(Is("local node") /\ LN!SessionResumes)
    /\ WF_lnVars(Is("local node") /\ LN!MemberStarts)
    /\ WF_lbVars(Is("load balancer") /\ LB!Loop)
    /\ WF_lbVars(Is("load balancer") /\ LB!OthersPublish(s1))
    /\ WF_ceVars(Is("certificates") /\ CE!UploadSteps)
    /\ \A f \in Flows : WF_ceVars(Is("certificates") /\ CE!Flow(f))
    /\ WF_peVars(Is("policies") /\ PE!Seed)
    /\ WF_peVars(Is("policies") /\ PE!Serve)
    /\ \A r \in Clients : WF_peVars(Is("policies") /\ PE!Reload(r))
    /\ WF_dlVars(Is("devboxes") /\ DL!Tick)
    /\ WF_dlVars(Is("devboxes") /\ DL!Reap)
    /\ WF_dlVars(Is("devboxes") /\ DL!ReaperDeletes)
    /\ WF_dlVars(Is("devboxes") /\ DL!AgentDeletes)
    /\ WF_dlVars(Is("devboxes") /\ (DL!AgentReads \/ DL!AgentWrites))
    /\ WF_dlVars(Is("devboxes") /\ (DL!PersonReads \/ DL!PersonWrites))
allVars == <<part, lnVars, lbVars, scVars, ceVars, peVars, dlVars, mjVars, ccVars, moVars, adVars, faults, restarts, asked>>
FairSpec == Init /\ [][Next]_allVars /\ Fairness

----------------------------------------------------------------------------
(* The row of the local host and its routes follow the distribution's address. *)
HostFollows == LN!HostFollows
(* On a host of its own, bootstrap, job and keeper are busy with the       *)
(* distribution one at a time, from preparing it to the deployed node ...  *)
OneAtATime == mode # "member" => LN!OneRun
(* ... and a Service publishes no node without having its proxies, by      *)
(* which a later cycle finds it.                                           *)
Proxied == LB!Proxied
LoopsCareful == OneAtATime /\ Proxied
(* A quiet cluster has the proxies and addresses its Services ask for.     *)
Converges == LB!Converges
(* The last default storage class goes only where requests overlap, and a  *)
(* bootstrap that succeeds leaves one.                                     *)
DefaultStays == SC!DefaultStays
(* What is told of a certificate was so until a page took it away, and     *)
(* requests leave nothing behind.                                          *)
Certified == CE!Certified
(* Every request for a certificate ends.                                   *)
CertificateEnds == CE!Ends
(* The webhooks come to ask the rules that are stored.                     *)
Enforced == PE!Enforced
(* Between two requests, that is so at once.                               *)
Settled == PE!Settled
(* Leases run out ...                                                      *)
Reaped == DL!Reaped
(* ... and kept boxes stay.                                                *)
BoxStays == DL!Stays
(* Once nobody asks for more, each of these parts comes to rest in what    *)
(* was asked for: no certificate under way, the stored rules, no box whose *)
(* lease has run out.                                                      *)
PartsSettle == CertificateEnds /\ Enforced /\ Reaped
(* Invites admit as many as they say; hub and computers agree on who is in. *)
JoinKept == MJ!JoinKept
(* The control plane starts on one authority, whatever it found.           *)
CertsHeal == CC!CertsHeal
(* The checks and the issues of the monitor page agree.                    *)
PageAgrees == MO!PageAgrees
(* An agent's tool takes no domain of an app away ...                      *)
DomainsStay == AD!HostsKept
(* ... and no change of them takes the certificate away.                   *)
CertificateStays == AD!CertificateKept
=============================================================================
