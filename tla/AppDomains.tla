----------------------------- MODULE AppDomains -----------------------------
(***************************************************************************)
(* The domains of one app: the hosts of its Ingress, which an agent's tool *)
(* adds to, the app's form and the Ingresses page replace, and which carry *)
(* the certificate that a request or an upload has attached.  Every update *)
(* sends the version of the Ingress it has read last.                      *)
(***************************************************************************)
EXTENDS Naturals

CONSTANTS Hosts,
          Editors,      \* changes of the domains under way
          MaxRevisions  \* versions of the Ingress

VARIABLES hosts,    \* those the Ingress answers on; without one there is no Ingress
          secured,  \* those its certificate covers (spec.tls)
          revision, \* its version
          edit      \* editor -> what it is doing, the domains it is going to write, what it
                    \* saw of the Ingress last, and the version an agent's tool read first
ingress == <<hosts, secured, revision>>
vars == <<ingress, edit>>

Nothing == [hosts |-> {}, secured |-> {}, revision |-> 0]
Idle == [kind |-> "none", at |-> "idle", want |-> {}, first |-> 0, saw |-> Nothing]
Stored == [hosts |-> hosts, secured |-> secured, revision |-> revision]

Init == /\ hosts \in SUBSET Hosts /\ secured \in {{}, hosts} /\ revision = 0
        /\ edit = [e \in Editors |-> Idle]

----------------------------------------------------------------------------
Starts(e, kind, at, want, saw) ==
    /\ edit[e] = Idle /\ revision < MaxRevisions
    /\ edit' = [edit EXCEPT ![e] = [kind |-> kind, at |-> at, want |-> want, saw |-> saw,
                                   first |-> IF kind = "agent" THEN revision ELSE 0]]
    /\ UNCHANGED ingress

\* Variant: the tool publishes the host it was given, whatever was there.
AgentReplaces(e, h) == Starts(e, "agent", "asked", {h}, Nothing)

(* mcpPublishDomain adds its host to those it reads. *)
AgentReads(e, h) == Starts(e, "agent", "asked", hosts \cup {h}, Nothing)

(* The form of the app was filled in by what it once read. *)
FormSends(e, want) == Starts(e, "form", "asked", want, Nothing)

(* The Ingresses page writes the rules of its form with the version it read, *)
(* and no certificate (UpdateIngress).                                       *)
PageReads(e, want) ==
    hosts # {} /\ want # {} /\ Starts(e, "page", "write", want, [Stored EXCEPT !.secured = {}])

(* AttachTLSToIngress, of an upload or of a request to Let's Encrypt. *)
CertificateReads(e) == hosts # {} /\ Starts(e, "certificate", "attach", {}, Stored)

(* reconcileAppIngress reads the Ingress; without a domain it is to go. *)
Looks(e) ==
    /\ edit[e].at = "asked"
    /\ edit' = [edit EXCEPT ![e].saw = Stored,
                            ![e].at = IF edit[e].want = {} THEN "delete" ELSE "write"]
    /\ UNCHANGED ingress

Ends(e) == edit' = [edit EXCEPT ![e] = Idle]
Stores(h, s) == hosts' = h /\ secured' = s /\ revision' = revision + 1

(* What was not there is created; the certificate that was there is kept. *)
Fresh(e) ==
    IF edit[e].saw.hosts = {} THEN hosts = {} ELSE hosts # {} /\ revision = edit[e].saw.revision
\* Variant: the update is sent without the version.
WritesAnyway(e) ==
    /\ edit[e].at = "write"
    /\ (edit[e].saw.hosts = {}) = (hosts = {})
    /\ Stores(edit[e].want, edit[e].saw.secured) /\ Ends(e)

Writes(e) ==
    /\ edit[e].at = "write" /\ Fresh(e)
    /\ Stores(edit[e].want, edit[e].saw.secured) /\ Ends(e)

Deletes(e) ==
    /\ edit[e].at = "delete"
    /\ IF {} \in {hosts, edit[e].saw.hosts} THEN UNCHANGED ingress ELSE Stores({}, {})
    /\ Ends(e)

Attaches(e) ==
    /\ edit[e].at = "attach" /\ Fresh(e)
    /\ Stores(hosts, hosts) /\ Ends(e)

(* The cluster refuses: another version, one that is there, none. *)
Refused(e) ==
    /\ edit[e].at \in {"write", "attach"} /\ ~Fresh(e)
    /\ Ends(e) /\ UNCHANGED ingress

(* A call fails without effect. *)
Fails(e) ==
    /\ edit[e].at # "idle"
    /\ Ends(e) /\ UNCHANGED ingress

(* DeleteIngress of the page, or the app is uninstalled. *)
Removed ==
    /\ hosts # {} /\ revision < MaxRevisions /\ Stores({}, {})
    /\ UNCHANGED edit

Next == \/ \E e \in Editors : \/ \E h \in Hosts : AgentReads(e, h)
                              \/ \E S \in SUBSET Hosts : FormSends(e, S) \/ PageReads(e, S)
                              \/ CertificateReads(e) \/ Looks(e) \/ Writes(e) \/ Deletes(e)
                              \/ Attaches(e) \/ Refused(e) \/ Fails(e)
        \/ Removed
Spec == Init /\ [][Next]_vars

----------------------------------------------------------------------------
(* However changes overlap, an agent's tool takes no host away that is there  *)
(* when it writes: unless another change came between its own look at them    *)
(* and the one before the write (mcp_tools.go:803), whose version it sends.   *)
Overtaken(q) == q.first # q.saw.revision
HostsKept ==
    [][\A e \in Editors :
         edit[e].kind = "agent" /\ edit'[e] # edit[e] => hosts \subseteq hosts' \/ Overtaken(edit[e])]_vars

(* A change of the app's domains leaves the certificate as it is by then,     *)
(* also one that is attached while the change is under way (launchpad.go:419). *)
CertificateKept ==
    [][\A e \in Editors :
         edit[e].kind \in {"agent", "form"} /\ edit[e].at = "write" /\ edit'[e] # edit[e] =>
             UNCHANGED secured]_vars
=============================================================================
