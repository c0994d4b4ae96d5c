---------------------------- MODULE Certificates ----------------------------
(***************************************************************************)
(* The certificate of one Ingress: requests to Let's Encrypt, each in a    *)
(* goroutine that outlives the HTTP request, uploads from the page, the    *)
(* status kept in memory that both set and that keeps a second request     *)
(* from starting beside the first, and the pages of Ingresses and Secrets, *)
(* which write the same objects and know nothing of the status.            *)
(***************************************************************************)
EXTENDS Naturals, FiniteSets

CONSTANTS Flows,      \* numbers of requests
          MaxUploads, MaxFaults

Nothing == 0
Upload  == 99   \* an uploaded certificate; an account key of an earlier run
Broken  == 98   \* an account key that cannot be parsed
Taken   == 97   \* a Secret that its page has deleted

VARIABLES status,   \* certStatuses[key]
          flow,     \* request -> where its goroutine is
          upload,   \* where UploadCert is
          uploads,  \* how many there were
          account,  \* the Secret of the ACME account's key: who made it
          key,      \* request -> whose key it uses
          tokens,   \* challenges casos answers
          route,    \* the temporary Ingress of the challenge: who made it
          valid,    \* accounts that are authorized for the domain
          secret,   \* the TLS Secret: whose certificate it holds
          tls,      \* whether the Ingress refers to it: "not yet", "used", "dropped" by its page
          faults
vars == <<status, flow, upload, uploads, account, key, tokens, route, valid, secret, tls, faults>>

Init == /\ status = "none" /\ flow = [f \in Flows |-> "new"]
        /\ upload = "idle" /\ uploads = 0
        /\ account \in {Nothing, Upload, Broken} /\ key = [f \in Flows |-> Nothing]
        /\ tokens = {} /\ route = Nothing /\ valid = {}
        /\ secret = Nothing /\ tls = "not yet" /\ faults = 0

Goes(f, pc) == flow' = [flow EXCEPT ![f] = pc]
cert == <<secret, tls>>
acme == <<account, key, tokens, route, valid>>
page == <<upload, uploads>>
Running(f) == flow[f] \notin {"new", "over"}

----------------------------------------------------------------------------
(* startLECertRequest: not while one is pending or verifying. *)
Request(f) ==
    /\ flow[f] = "new" /\ status \notin {"pending", "verifying"}
    /\ status' = "pending" /\ Goes(f, "started")
    /\ UNCHANGED <<page, acme, cert, faults>>
Verify(f) ==
    /\ flow[f] = "started"
    /\ status' = "verifying" /\ Goes(f, "account")
    /\ UNCHANGED <<page, acme, cert, faults>>

(* ensureACMEAccountKey reads the key; whatever keeps it from that, it      *)
(* makes one.                                                               *)
FindAccount(f) ==
    /\ flow[f] = "account"
    /\ \/ /\ account \notin {Nothing, Broken} /\ key' = [key EXCEPT ![f] = account]
          /\ Goes(f, "order") /\ UNCHANGED faults
       \/ account \in {Nothing, Broken} /\ Goes(f, "key") /\ UNCHANGED <<key, faults>>
       \/ faults < MaxFaults /\ faults' = faults + 1 /\ Goes(f, "key") /\ UNCHANGED key
    /\ UNCHANGED <<status, page, account, tokens, route, valid, cert>>

(* The new key is stored, over one that is there by then; the request goes  *)
(* on with it even if it could not be.                                      *)
MakeAccount(f) ==
    /\ flow[f] = "key" /\ key' = [key EXCEPT ![f] = f] /\ Goes(f, "order")
    /\ \/ account' = f /\ UNCHANGED faults
       \/ faults < MaxFaults /\ faults' = faults + 1 /\ UNCHANGED account
    /\ UNCHANGED <<status, page, tokens, route, valid, cert>>

(* The account's authorization may be valid from an earlier order. *)
Order(f) ==
    /\ flow[f] = "order" /\ Goes(f, IF key[f] \in valid THEN "store" ELSE "token")
    /\ UNCHANGED <<status, page, acme, cert, faults>>
SetChallenge(f) ==
    /\ flow[f] = "token" /\ tokens' = tokens \cup {f} /\ Goes(f, "route")
    /\ UNCHANGED <<status, page, account, key, route, valid, cert, faults>>

(* createChallengeIngress; one that is there is an error. *)
Routed(f) ==
    /\ flow[f] = "route"
    /\ IF route = Nothing THEN route' = f /\ Goes(f, "accept")
       ELSE Goes(f, "unrouted failed") /\ UNCHANGED route
    /\ UNCHANGED <<status, page, account, key, tokens, valid, cert, faults>>

(* Let's Encrypt asks for the token, by whatever route there is. *)
Authorize(f) ==
    /\ flow[f] = "accept"
    /\ IF route # Nothing /\ f \in tokens THEN valid' = valid \cup {key[f]} /\ Goes(f, "store")
       ELSE Goes(f, "failed") /\ UNCHANGED valid
    /\ UNCHANGED <<status, page, account, key, tokens, route, cert, faults>>

Store(f) ==
    /\ flow[f] = "store" /\ secret' = f /\ Goes(f, "attach")
    /\ UNCHANGED <<status, page, acme, tls, faults>>
Attach(f) ==
    /\ flow[f] = "attach" /\ tls' = "used" /\ Goes(f, "issued")
    /\ UNCHANGED <<status, page, acme, secret, faults>>

(* ObtainLECert returns: the route, if it made one, and then the token go, *)
(* as it has deferred; an error of the removal is ignored.                 *)
DropRoute(f) ==
    /\ flow[f] \in {"issued", "failed"} /\ f \in tokens
    /\ Goes(f, IF flow[f] = "issued" THEN "unrouted issued" ELSE "unrouted failed")
    /\ \/ route' = Nothing /\ UNCHANGED faults
       \/ faults < MaxFaults /\ faults' = faults + 1 /\ UNCHANGED route
    /\ UNCHANGED <<status, page, account, key, tokens, valid, cert>>
\* Variant: the token stays.
FinishAnswering(f) ==
    /\ \/ flow[f] \in {"issued", "failed"} /\ f \notin tokens
       \/ flow[f] \in {"unrouted issued", "unrouted failed"}
    /\ Goes(f, "over")
    /\ status' = IF flow[f] \in {"issued", "unrouted issued"} THEN "issued" ELSE "failed"
    /\ UNCHANGED <<page, acme, cert, faults>>

Finish(f) ==
    /\ \/ flow[f] \in {"issued", "failed"} /\ f \notin tokens
       \/ flow[f] \in {"unrouted issued", "unrouted failed"}
    /\ tokens' = tokens \ {f} /\ Goes(f, "over")
    /\ status' = IF flow[f] \in {"issued", "unrouted issued"} THEN "issued" ELSE "failed"
    /\ UNCHANGED <<page, account, key, route, valid, cert, faults>>

(* A call to the cluster or to Let's Encrypt fails: an order, a write, or   *)
(* one that somebody else's write of the Ingress comes before.              *)
Errs(f) ==
    /\ flow[f] \in {"order", "route", "accept", "store", "attach"}
    /\ faults < MaxFaults /\ faults' = faults + 1
    /\ Goes(f, IF flow[f] = "route" THEN "unrouted failed" ELSE "failed")
    /\ UNCHANGED <<status, page, acme, cert>>

----------------------------------------------------------------------------
(* UploadCert: the Secret, the Ingress, the status; an error ends it. *)
StartUpload == /\ upload = "idle" /\ uploads < MaxUploads
               /\ uploads' = uploads + 1 /\ upload' = "store"
               /\ UNCHANGED <<status, flow, acme, cert, faults>>
UploadSteps ==
    /\ \/ upload = "store" /\ secret' = Upload /\ upload' = "attach" /\ UNCHANGED <<status, tls>>
       \/ upload = "attach" /\ tls' = "used" /\ upload' = "set" /\ UNCHANGED <<status, secret>>
       \/ upload = "set" /\ status' = "issued" /\ upload' = "idle" /\ UNCHANGED cert
    /\ UNCHANGED <<flow, uploads, acme, faults>>
UploadErrs == /\ upload \in {"store", "attach"} /\ faults < MaxFaults /\ faults' = faults + 1
              /\ upload' = "idle" /\ UNCHANGED <<status, flow, uploads, acme, cert>>

(* The Ingresses page writes the Ingress without its certificate, or removes *)
(* it (an Ingress made anew has none); the Secrets page deletes the Secret.  *)
(* None of them looks at the status.                                         *)
UpdateIngress == /\ tls = "used" /\ tls' = "dropped"
                 /\ UNCHANGED <<status, flow, page, acme, secret, faults>>
DeleteSecret == /\ secret \notin {Nothing, Taken} /\ secret' = Taken
                /\ UNCHANGED <<status, flow, page, acme, tls, faults>>

(* casos restarts: goroutines, tokens and status are gone. *)
Restart == /\ faults < MaxFaults /\ faults' = faults + 1
           /\ flow' = [f \in Flows |-> IF Running(f) THEN "over" ELSE flow[f]]
           /\ status' = "none" /\ tokens' = {} /\ upload' = "idle"
           /\ UNCHANGED <<uploads, account, key, route, valid, cert>>

Flow(f) == \/ Verify(f) \/ FindAccount(f) \/ MakeAccount(f) \/ Order(f) \/ SetChallenge(f) \/ Routed(f)
           \/ Authorize(f) \/ Store(f) \/ Attach(f) \/ DropRoute(f) \/ Finish(f)
Next == \/ \E f \in Flows : Request(f) \/ Flow(f) \/ Errs(f)
        \/ StartUpload \/ UploadSteps \/ UploadErrs \/ UpdateIngress \/ DeleteSecret \/ Restart

(* Goroutines run, and ACME calls end within the five minutes of their context. *)
Fairness == WF_vars(UploadSteps) /\ \A f \in Flows : WF_vars(Flow(f))
FairSpec == Init /\ [][Next]_vars /\ Fairness

----------------------------------------------------------------------------
(* What is told to be issued has been stored and used, and only a page that *)
(* writes the Ingress or the Secret has taken it away since; a request that *)
(* is over leaves no route to casos and no token behind, unless the removal *)
(* failed or casos restarted; and one that is under way is over some time.  *)
Issued    == status = "issued" => secret # Nothing /\ tls # "not yet"
Cleared   == (\A f \in Flows : ~Running(f)) => tokens = {} /\ (faults = 0 => route = Nothing)
Certified == Issued /\ Cleared
Ends      == []<>(status \notin {"pending", "verifying"})

(* One request at a time (certificate.go:111) -- until an upload beside it *)
(* sets the status that keeps the next one out.                            *)
OneFlow == uploads = 0 => Cardinality({f \in Flows : Running(f)}) <= 1
=============================================================================
