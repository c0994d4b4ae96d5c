------------------------------ MODULE Handlers ------------------------------
(***************************************************************************)
(* Requests that run the scripts of the handlers of casos against one      *)
(* cluster, while calls fail, answers are lost, casos restarts, others     *)
(* change the same objects, and clients whose request failed ask again.    *)
(***************************************************************************)
EXTENDS TemplateScripts, McpScripts, ClusterScripts, RowScripts, BootScripts, CertScripts, NodeScripts

CONSTANTS Reqs,      \* the requests under way
          Scenes     \* which handlers run together, on what, and what goes wrong

Scripts == databaseScripts @@ appScripts @@ templateScripts @@ devboxScripts @@ mcpScripts
             @@ clusterScripts @@ rowScripts @@ bootScripts @@ certScripts @@ nodeScripts

VARIABLES scene,    \* the scene that is played, with the script of each request
          cluster,  \* object -> its mark ("none": it does not exist) and last writer
          calls,    \* request -> where it is and what it has read
          faults,   \* calls still to fail or lose their answer, and restarts
          meddles   \* changes by others still to come
vars == <<scene, cluster, calls, faults, meddles>>

Others == "others"
Over   == 99      \* past the last call
ScriptOf(r) == scene.script[r]
Cast(sc)    == {r \in Reqs : sc.who[r] # "nobody"}

(* What a request knows of an object: nothing, that it was not there, or a *)
(* version of it, which another write makes stale.                         *)
Ready(sc, r) == [at   |-> 1,
                 read |-> FALSE,   \* the current call has read its object
                 left |-> {},      \* objects listed and still to be dealt with
                 view |-> [o \in DOMAIN sc.has |-> "unread"],
                 on   |-> "calls", \* the branch of the script it is in
                 bad  |-> FALSE,   \* an error to tell at the end
                 end  |-> IF r \in Cast(sc) THEN "running" ELSE "idle"]

ASSUME ScenesAssumption ==
    /\ Others \notin Reqs
    /\ \A sc \in Scenes :
         /\ sc.faults \in Nat /\ sc.meddles \in Nat /\ sc.has \in [DOMAIN sc.has -> {"none", "casos", "plain", "foreign"}]
         /\ \A r \in Reqs : LET s == sc.script[r] IN
               IsScript(s) /\ Objects(s) \subseteq DOMAIN sc.has /\ \A b \in Branches : Len(s[b]) < Over

Init == /\ scene \in Scenes
        /\ cluster = [o \in DOMAIN scene.has |-> [mark |-> scene.has[o], by |-> Others]]
        /\ calls = [r \in Reqs |-> Ready(scene, r)]
        /\ faults = scene.faults
        /\ meddles = scene.meddles

----------------------------------------------------------------------------
There(o)   == cluster[o].mark # "none"
Running(r) == calls[r].end = "running"
Calls(r)   == ScriptOf(r)[calls[r].on]
AtCall(r)  == Running(r) /\ calls[r].at <= Len(Calls(r))
Now(r)     == Calls(r)[calls[r].at]
Object(r)  == CHOOSE o \in Now(r).on : TRUE
Doing(r, ops) == AtCall(r) /\ Now(r).op \in ops

(* The call is over and the next one begins; the call is over for one of   *)
(* the objects it has listed.                                              *)
Passed(c)   == [c EXCEPT !.at = @ + 1, !.read = FALSE, !.left = {}]
Past(c, o)  == IF c.left \subseteq {o} THEN Passed(c) ELSE [c EXCEPT !.left = @ \ {o}]

(* The call has failed; what that means to the handler is its script's.    *)
Stopped(c) == [c EXCEPT !.at = Over, !.read = FALSE, !.left = {}, !.bad = TRUE]
Turns(c, b) == [c EXCEPT !.at = 1, !.read = FALSE, !.left = {}, !.on = b]
Failed(c, o, err) == CASE err = "stop" -> Stopped(c)
                       [] err = "undo" -> [Turns(c, "undo") EXCEPT !.bad = TRUE]
                       [] err = "else" -> Turns(c, "other")
                       [] err = "skip" -> Past(c, o)
                       [] err = "note" -> [Past(c, o) EXCEPT !.bad = TRUE]

(* Somebody has written an object: what the others had read of it is old.  *)
Outdated(cs, o) ==
    [q \in Reqs |-> IF cs[q].view[o] = "fresh" THEN [cs[q] EXCEPT !.view[o] = "stale"] ELSE cs[q]]

Goes(r, c)     == calls' = [calls EXCEPT ![r] = c]
Knows(c, o, v) == [c EXCEPT !.view[o] = v]
Refused(r, o)  == Goes(r, Failed(calls[r], o, Now(r).err)) /\ UNCHANGED <<cluster, faults>>

(* The write of r takes effect; its answer arrives, or is lost.            *)
Writes(r, o, mark) ==
    /\ cluster' = [cluster EXCEPT ![o] = [mark |-> mark, by |-> r]]
    /\ LET old == Outdated(calls, o) IN
       \/ /\ calls' = [old EXCEPT ![r] = Past(Knows(calls[r], o, IF mark = "none" THEN "absent" ELSE "fresh"), o)]
          /\ UNCHANGED faults
       \/ /\ faults > 0 /\ faults' = faults - 1
          /\ calls' = [old EXCEPT ![r] = Failed(old[r], o, Now(r).err)]

(* Reading an object: it may have to be there, to be missing, or to be ours. *)
Reads(r) ==
    /\ Doing(r, Reading) /\ ~calls[r].read
    /\ LET c == Now(r)  o == Object(r)
           seen == IF c.op = "find" THEN calls[r] ELSE Knows(calls[r], o, IF There(o) THEN "fresh" ELSE "absent")
           wrong == \/ c.op \in {"get", "find", "edit"} /\ ~There(o)
                    \/ c.op = "free" /\ There(o)
           theirs == c.theirs # "take" /\ cluster[o].mark \in {"plain", "foreign"}
           done == \/ c.op \in {"get", "find", "look", "free"}
                   \/ c.op = "keep" /\ There(o)
                   \/ c.op = "tune" /\ ~There(o)
                   \/ c.op = "shed" /\ cluster[o].mark # "casos"
       IN Goes(r, IF theirs /\ c.theirs # "refuse"
                  THEN Failed(calls[r], o, IF c.theirs = "spare" THEN "skip" ELSE "else")
                  ELSE IF wrong \/ theirs THEN Failed(calls[r], o, c.err)
                  ELSE IF done THEN Passed(seen)
                  ELSE [seen EXCEPT !.read = TRUE])
    /\ UNCHANGED <<scene, cluster, faults, meddles>>

(* Creating what is not known to be there. *)
Creates(r) ==
    /\ \/ Doing(r, {"create"})
       \/ Doing(r, {"settle"}) /\ ~calls[r].read
       \/ Doing(r, {"set"}) /\ ~There(Object(r))
       \/ Doing(r, {"save"}) /\ calls[r].view[Object(r)] \in {"absent", "unread"}
       \/ Doing(r, {"fill"}) /\ ~calls[r].read /\ calls[r].view[Object(r)] \in {"absent", "unread"}
       \/ Doing(r, {"mend"}) /\ calls[r].read /\ ~There(Object(r))
       \/ Doing(r, {"keep", "put"}) /\ calls[r].read /\ calls[r].view[Object(r)] = "absent"
    /\ LET c == Now(r)  o == Object(r) IN
       \/ ~There(o) /\ Writes(r, o, c.mark)
       \/ There(o) /\ c.exists = "pass" /\ Goes(r, Passed(calls[r])) /\ UNCHANGED <<cluster, faults>>
       \/ /\ There(o) /\ c.op \in {"settle", "fill"}
          /\ Goes(r, [Knows(calls[r], o, "fresh") EXCEPT !.read = TRUE]) /\ UNCHANGED <<cluster, faults>>
       \/ There(o) /\ c.exists = "fail" /\ c.op \notin {"settle", "fill"} /\ Refused(r, o)
    /\ UNCHANGED <<scene, meddles>>

(* Updating: the cluster refuses a version that is no longer the last one, *)
(* unless the call carries none.                                           *)
Updated(c, o) == IF c.update = "keep" THEN cluster[o].mark ELSE c.update
Updates(r) ==
    /\ \/ Doing(r, {"change", "overwrite", "amend"})
       \/ Doing(r, {"set"}) /\ There(Object(r))
       \/ Doing(r, {"mend"}) /\ calls[r].read /\ There(Object(r))
       \/ Doing(r, {"save"}) /\ calls[r].view[Object(r)] \in {"fresh", "stale"}
       \/ Doing(r, {"put", "settle", "fill", "edit", "tune"}) /\ calls[r].read /\ calls[r].view[Object(r)] # "absent"
    /\ LET c == Now(r)  o == Object(r) IN
       \/ /\ There(o) /\ (c.op \notin Versioned \/ calls[r].view[o] = "fresh")
          /\ Writes(r, o, Updated(c, o))
       \/ ~There(o) /\ c.op = "amend" /\ Goes(r, Passed(calls[r])) /\ UNCHANGED <<cluster, faults>>
       \/ ~There(o) /\ c.op # "amend" /\ Refused(r, o)
       \/ There(o) /\ c.op \in Versioned /\ calls[r].view[o] # "fresh" /\ Refused(r, o)
    /\ UNCHANGED <<scene, meddles>>

Deletes(r) ==
    /\ \/ Doing(r, {"drop", "clear"})
       \/ Doing(r, {"shed"}) /\ calls[r].read
    /\ LET c == Now(r)  o == Object(r) IN
       \/ There(o) /\ Writes(r, o, "none")
       \/ ~There(o) /\ c.op # "drop" /\ Goes(r, Passed(calls[r])) /\ UNCHANGED <<cluster, faults>>
       \/ ~There(o) /\ c.op = "drop" /\ Refused(r, o)
    /\ UNCHANGED <<scene, meddles>>

(* Listing the objects that carry the mark, unless the listing fails ... *)
Lists(r) ==
    /\ Doing(r, Listing) /\ ~calls[r].read
    /\ LET found == {o \in Now(r).on : cluster[o].mark = "casos"}
           seen  == [o \in DOMAIN calls[r].view |-> IF o \in found THEN "fresh" ELSE calls[r].view[o]]
       IN \/ /\ Goes(r, IF found # {} THEN [calls[r] EXCEPT !.read = TRUE, !.left = found, !.view = seen]
                         ELSE IF Now(r).some THEN Stopped(calls[r]) ELSE Passed(calls[r]))
             /\ UNCHANGED faults
          \/ /\ faults > 0 /\ faults' = faults - 1
             /\ Goes(r, Failed(calls[r], Object(r), Now(r).list))
    /\ UNCHANGED <<scene, cluster, meddles>>

(* ... and dealing with the ones listed, one after the other. *)
Treats(r) ==
    /\ Doing(r, Listing) /\ calls[r].read
    /\ \E o \in calls[r].left :
         LET c == Now(r) IN
         \/ c.op = "sweep" /\ There(o) /\ Writes(r, o, "none")
         \/ /\ c.op = "sweep" /\ ~There(o)
            /\ Goes(r, Past(calls[r], o)) /\ UNCHANGED <<cluster, faults>>
         \/ c.op = "retune" /\ calls[r].view[o] = "fresh" /\ Writes(r, o, Updated(c, o))
         \/ c.op = "retune" /\ calls[r].view[o] # "fresh" /\ Refused(r, o)
    /\ UNCHANGED <<scene, meddles>>

(* A command on a machine or in a container, a request to another service; *)
(* or nothing, for what was seen before.                                   *)
Runs(r) ==
    /\ \/ Doing(r, {"run"})
       \/ Doing(r, {"fill"}) /\ ~calls[r].read /\ calls[r].view[Object(r)] \in {"fresh", "stale"}
    /\ Goes(r, Passed(calls[r]))
    /\ UNCHANGED <<scene, cluster, faults, meddles>>

Step(r) == Reads(r) \/ Creates(r) \/ Updates(r) \/ Deletes(r) \/ Lists(r) \/ Treats(r) \/ Runs(r)

(* A call fails without effect. *)
Fails(r) ==
    /\ AtCall(r) /\ faults > 0 /\ faults' = faults - 1
    /\ Now(r).op \in Listing => calls[r].read
    /\ \E o \in IF calls[r].left = {} THEN {Object(r)} ELSE calls[r].left :
          Goes(r, Failed(calls[r], o, Now(r).err))
    /\ UNCHANGED <<scene, cluster, meddles>>

(* The handler answers. *)
Answers(r) ==
    /\ Running(r) /\ ~AtCall(r)
    /\ calls' = [calls EXCEPT ![r].end = IF calls[r].bad THEN "fail" ELSE "ok"]
    /\ UNCHANGED <<scene, cluster, faults, meddles>>

(* casos ends, and with it every request. *)
Dies ==
    /\ faults > 0 /\ faults' = faults - 1
    /\ \E r \in Reqs : Running(r)
    /\ calls' = [r \in Reqs |-> IF Running(r) THEN [calls[r] EXCEPT !.end = "lost"] ELSE calls[r]]
    /\ UNCHANGED <<scene, cluster, meddles>>

(* A client that got an error, or no answer, asks for the same again. *)
Again(r) ==
    /\ calls[r].end \in {"fail", "lost"}
    /\ Goes(r, Ready(scene, r))
    /\ UNCHANGED <<scene, cluster, faults, meddles>>

(* Somebody else makes, edits or removes an object. *)
Meddle(o) ==
    /\ meddles > 0 /\ meddles' = meddles - 1
    /\ \E m \in IF There(o) THEN {cluster[o].mark, "none"} ELSE {"foreign"} :
          cluster' = [cluster EXCEPT ![o] = [mark |-> m, by |-> Others]]
    /\ calls' = Outdated(calls, o)
    /\ UNCHANGED <<scene, faults>>

Next == \/ \E r \in Reqs : Step(r) \/ Fails(r) \/ Answers(r) \/ Again(r)
        \/ \E o \in DOMAIN cluster : Meddle(o)
        \/ Dies
Spec == Init /\ [][Next]_vars

(* A handler's goroutine runs, and its client does not give up. *)
Fairness == \A r \in Reqs : WF_vars(Step(r) \/ Answers(r)) /\ WF_vars(Again(r))
FairSpec == Spec /\ Fairness

----------------------------------------------------------------------------
Alone(r)    == Cast(scene) = {r}
Undisturbed == meddles = scene.meddles
Done(r)     == calls[r].end = "ok"

(* What a request asks for is so: what its handler makes is there, and     *)
(* what it removes is gone.                                                *)
Reached(r) == /\ \A o \in Leaves(ScriptOf(r)) : There(o)
              /\ \A o \in Takes(ScriptOf(r)) : cluster[o].mark # "casos"

(* What a handler has answered "ok" to is so, whatever failed on the way   *)
(* -- but for those that only log an error, or put it in the text of an    *)
(* "ok"; that take a listing or a row they could not read for an empty     *)
(* one; or that step aside for what is not theirs.                         *)
Logging   == {"InitSite", "EnsureApiserverHostFirewallRule", "DeployTemplate", "ForceDeleteNamespace",
              "ensureCasbinWebhook", "ObtainLECert", "ObtainLECertMoved", "ObtainLECertValid"}
Unlisting == {"DropDatabase", "DeleteDatabaseData", "DeleteTemplateInstance", "UninstallImageApp",
              "UninstallImageAppData", "delete_sandbox", "DeleteMachine"}
Yielding  == {"ensureClusterDNS", "ensureClusterDNSMoved", "DeployOnHost", "DeployGitBuildFailed"}
Forgetful == Logging \cup Unlisting \cup Yielding
OkMeansDone ==
    \A r \in Cast(scene) :
        Done(r) /\ Alone(r) /\ Undisturbed /\ scene.who[r] \notin Forgetful => Reached(r)

(* What somebody else has made is not removed by casos, unless it took its *)
(* name after casos had looked -- but from its own pages, where people     *)
(* remove what they name, and by the handlers that do not look whose it is.*)
(* (The request for a certificate takes its challenge away by name.)       *)
Unguarded == DOMAIN clusterScripts \cup DOMAIN rowScripts \cup
    {"DropDatabase", "DeleteDeployment", "DeleteDatabase", "DeleteDatabaseData", "DeleteTemplateInstance",
     "UpgradeImageAppBare", "ensureCasbinWebhook", "ensureClusterDNSMoved", "DeleteMeshInvite", "LeaveMesh"}
ForeignKept ==
    [][\A o \in DOMAIN cluster : cluster[o].mark = "foreign" /\ cluster'[o].mark = "none" =>
          LET r == cluster'[o].by IN
          \/ r = Others \/ o = "challenge" \/ scene.who[r] \in Unguarded
          \/ calls[r].read /\ calls[r].view[o] = "stale"]_vars

(* What casos has made does not lose the label it is found again by -- but *)
(* to the forms that write an object as a whole, and to certificates.      *)
Unlabelling == {"UpdateConfigMap", "UpdateSecret", "UpdateIngress", "UpdateHPA", "UpdateNetworkPolicy",
                "UpdateResourceQuota", "UpdateServiceAccount", "UpdateCronJob", "UploadCert",
                "ObtainLECert", "ObtainLECertMoved", "ObtainLECertValid"}
OwnersKept ==
    [][\A o \in DOMAIN cluster : cluster[o].mark = "casos" /\ cluster'[o].mark = "plain" =>
          cluster'[o].by = Others \/ scene.who[cluster'[o].by] \in Unlabelling]_vars

(* What somebody has written since a handler looked is not written over    *)
(* unseen: the write is refused, and whoever asked for it is told -- but   *)
(* rows have no version, and files on a node neither.                      *)
Unseeing == {"UpdateAccount", "VerifyAccessToken", "UpdateMachine", "UpdateSite", "AddLocalHostMachine",
             "AddLocalWSLMachine", "DeployOnHost", "DeployOnMesh"}
NoLostUpdate ==
    [][\A r \in Reqs : \A o \in DOMAIN cluster :
          calls[r].view[o] = "stale" /\ cluster'[o] # cluster[o] /\ cluster'[o].by = r
             /\ There(o) /\ cluster'[o].mark # "none" => scene.who[r] \in Unseeing]_vars

(* What a workload of casos mounts is not taken from under it -- but when  *)
(* the workload was to go first and a call failed or somebody interfered,  *)
(* another handler included, and when an upgrade drops its files before it *)
(* updates what mounts them.                                               *)
Mounts == [o \in {"deployment", "set"} |->
             IF o = "set" THEN {"secret", "data claim", "backup claim"} ELSE {"config", "registry", "claim"}]
Hindered == faults # scene.faults \/ ~Undisturbed
Hasty    == {"UpgradeImageAppBare"}
MountsStay ==
    [][\A w \in DOMAIN Mounts \cap DOMAIN cluster : \A o \in Mounts[w] \cap DOMAIN cluster :
          cluster[w].mark = "casos" /\ There(o) /\ cluster'[o].mark = "none" =>
             \/ cluster'[o].by = Others \/ Hindered \/ ~Alone(cluster'[o].by)
             \/ scene.who[cluster'[o].by] \in Hasty]_vars

(* What a client asks for until it gets an "ok" becomes so, though a call  *)
(* failed or casos restarted -- but for the handlers that are satisfied    *)
(* too early, and those that find what they have left behind themselves in *)
(* the way.  (A build whose answer was lost refuses the next, which would  *)
(* have to save the token again that the first one forgot.)                *)
Blocked == {"DeployCompose", "deploy_app", "create_sandbox", "DeployApp", "DeployGitBuild", "DeployDevbox",
            "DeleteDatabase", "DeleteDeployment", "StartGitBuild"}
Stuck == Forgetful \cup Blocked
AskedIsReached ==
    \A r \in Reqs :
        <>[](scene.lasting /\ r \in Cast(scene) /\ scene.who[r] \notin Stuck => Reached(r))

(* A script removes what is mounted after it has removed what mounts it, and *)
(* has not made or marked that again.                                       *)
GoneBefore(s, w, j, i) ==
    /\ j < i /\ s.calls[j].op \in Removing /\ w \in s.calls[j].on
    /\ \A k \in DOMAIN s.calls : j <= k /\ k <= i /\ w \in s.calls[k].on =>
          s.calls[k].op \notin Making /\ s.calls[k].update # "casos"
Orderly(s, os) ==
    \A w \in DOMAIN Mounts \cap os : \A b \in Branches : \A i \in DOMAIN s[b] :
       s[b][i].op \in Removing /\ s[b][i].on \cap Mounts[w] # {} =>
          b = "calls" /\ \E j \in DOMAIN s.calls : GoneBefore(s, w, j, i)

(* Whoever is not named as an exception above shows by its calls that it is *)
(* none: it tells what went wrong, looks before it writes or removes, keeps *)
(* labels, and removes in order.  The proofs assume it of all scenes.       *)
CarefulIn(sc) ==
    \A r \in Reqs : LET s == sc.script[r] IN
       /\ sc.who[r] \notin Forgetful => Telling(s)
       /\ sc.who[r] \notin Unseeing => Cautious(s)
       /\ sc.who[r] \notin Unlabelling => \A c \in Every(s) : c.update # "plain"
       /\ sc.who[r] \notin Unguarded =>
             \A c \in Every(s) : c.op \in {"drop", "clear"} => c.on \subseteq {"challenge"}
       /\ sc.who[r] \notin Hasty => Orderly(s, DOMAIN sc.has)
Careful == \A sc \in Scenes : CarefulIn(sc)
=============================================================================
