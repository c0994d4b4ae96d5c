--------------------------- MODULE PolicyEnforcer ---------------------------
(***************************************************************************)
(* The rules of the cluster's admission and authorization webhooks: rows   *)
(* of the database, and a copy of them per scope that the webhooks ask.    *)
(* Whoever changes a row has the copy of the scope it names made anew, from *)
(* rows it reads before it puts the copy in place.                         *)
(***************************************************************************)
EXTENDS Naturals, FiniteSets

CONSTANTS Scopes, Rules,
          Clients,        \* requests under way
          MaxRequests, MaxFaults

VARIABLES rules,   \* scope -> rules in the database
          loaded,  \* scope -> rules the enforcer has, or NotLoaded
          req,     \* client -> where its request is, the scopes it reloads, the rules it has read
          boot,    \* startup: "seed", "reload" (the same steps as a request's) or "up"
          asked, faults,
          changed, placed, older  \* history: how often the rules of a scope have been changed,
                                  \* which of these the copy in place has seen, and the scopes
                                  \* where one that had seen more was replaced
history == <<changed, placed, older>>
vars == <<rules, loaded, req, boot, asked, faults, history>>

NotLoaded == {"not loaded"}   \* everything is allowed
AllowAll  == "allow all"
Idle == [pc |-> "idle", todo |-> {}, at |-> CHOOSE s \in Scopes : TRUE, seen |-> {}, nth |-> 0]
Startup == CHOOSE c \in Clients : TRUE

Init == /\ rules \in [Scopes -> {{}, Rules}] /\ loaded = [s \in Scopes |-> NotLoaded]
        /\ req = [c \in Clients |-> Idle] /\ boot = "seed"
        /\ asked = 0 /\ faults = 0
        /\ changed = [s \in Scopes |-> 0] /\ placed = [s \in Scopes |-> 0] /\ older = {}

Busy == {c \in Clients : req[c].pc # "idle"}
Ends(c) == req' = [req EXCEPT ![c] = Idle]
Reloads(todo) == IF todo = {} THEN Idle ELSE [Idle EXCEPT !.pc = "read", !.todo = todo]

----------------------------------------------------------------------------
(* SeedDefaultPolicies gives a scope without rules one; ReloadAllEnforcers. *)
Seed == /\ boot = "seed" /\ boot' = "reload"
        /\ rules' = [s \in Scopes |-> IF rules[s] = {} THEN {AllowAll} ELSE rules[s]]
        /\ req' = [req EXCEPT ![Startup] = Reloads(Scopes)]
        /\ UNCHANGED <<loaded, asked, faults, history>>
Serve == /\ boot = "reload" /\ Busy = {} /\ boot' = "up"
         /\ UNCHANGED <<rules, loaded, req, asked, faults, history>>

(* AddCasbinRule and DeleteCasbinRule change the row, then reload -- the   *)
(* scope of the rule, or the one the client names, which may be none.      *)
Change(c) ==
    /\ boot = "up" /\ req[c].pc = "idle"
    /\ asked < MaxRequests /\ asked' = asked + 1
    /\ \E s \in Scopes :
       /\ changed' = [changed EXCEPT ![s] = @ + 1]
       /\ \/ /\ \E r \in Rules \ rules[s] : rules' = [rules EXCEPT ![s] = @ \cup {r}]
             /\ req' = [req EXCEPT ![c] = Reloads({s})] /\ UNCHANGED faults
          \/ /\ \E r \in rules[s] : rules' = [rules EXCEPT ![s] = @ \ {r}]
             /\ \/ req' = [req EXCEPT ![c] = Reloads({s})] /\ UNCHANGED faults
                \/ /\ faults < MaxFaults /\ faults' = faults + 1
                   /\ \E t \in SUBSET (Scopes \ {s}) :
                         Cardinality(t) <= 1 /\ req' = [req EXCEPT ![c] = Reloads(t)]
    /\ UNCHANGED <<loaded, boot, placed, older>>

(* ReloadCasbinEnforcer, from the page. *)
AskReload(c) ==
    /\ boot = "up" /\ req[c].pc = "idle"
    /\ asked < MaxRequests /\ asked' = asked + 1
    /\ \E t \in {Scopes} \cup {{s} : s \in Scopes} : req' = [req EXCEPT ![c] = Reloads(t)]
    /\ UNCHANGED <<rules, loaded, boot, faults, history>>

(* scopedEnforcer.reload reads the rules, builds an enforcer, puts it in place. *)
ReadRules(c) ==
    /\ req[c].pc = "read"
    /\ \E s \in req[c].todo :
          req' = [req EXCEPT ![c] = [req[c] EXCEPT !.pc = "swap", !.at = s, !.seen = rules[s], !.nth = changed[s],
                                               !.todo = @ \ {s}]]
    /\ UNCHANGED <<rules, loaded, boot, asked, faults, history>>

Place(q) ==
    /\ loaded' = [loaded EXCEPT ![q.at] = q.seen]
    /\ placed' = [placed EXCEPT ![q.at] = q.nth]
    /\ older'  = IF q.nth = changed[q.at] THEN older \ {q.at}
                 ELSE IF q.nth < placed[q.at] THEN older \cup {q.at} ELSE older
    /\ UNCHANGED changed
\* Variant: the first scope that is reloaded is the last.
SwapOnce(c) ==
    /\ req[c].pc = "swap"
    /\ Place(req[c])
    /\ Ends(c)
    /\ UNCHANGED <<rules, boot, asked, faults>>
Swap(c) ==
    /\ req[c].pc = "swap"
    /\ Place(req[c])
    /\ req' = [req EXCEPT ![c] = Reloads(@.todo)]
    /\ UNCHANGED <<rules, boot, asked, faults>>

(* The rules cannot be read, or built: the rest is left undone. *)
Errs(c) == /\ req[c].pc # "idle" /\ faults < MaxFaults /\ faults' = faults + 1
           /\ Ends(c) /\ UNCHANGED <<rules, loaded, boot, asked, history>>

Restart == /\ boot = "up" /\ faults < MaxFaults /\ faults' = faults + 1
           /\ boot' = "seed" /\ req' = [c \in Clients |-> Idle]
           /\ loaded' = [s \in Scopes |-> NotLoaded]
           /\ UNCHANGED <<rules, asked, history>>

Reload(c) == ReadRules(c) \/ Swap(c)
Next == Seed \/ Serve \/ Restart \/ \E c \in Clients : Change(c) \/ AskReload(c) \/ Reload(c) \/ Errs(c)
Fairness == WF_vars(Seed) /\ WF_vars(Serve) /\ \A c \in Clients : WF_vars(Reload(c))
FairSpec == Init /\ [][Next]_vars /\ Fairness

----------------------------------------------------------------------------
(* The webhooks ask the rules that are stored, once all requests are over, *)
(* however these overlap: if none failed or named another scope, and unless *)
(* a copy was put in place over one that had seen more, which the     *)
(* next reload of the scope makes good.                                     *)
Agreed   == \A s \in Scopes \ older : loaded[s] = rules[s]
Enforced == <>[](boot = "up" /\ faults = 0 => Agreed)
Settled  == boot = "up" /\ faults = 0 /\ Busy = {} => Agreed
=============================================================================
