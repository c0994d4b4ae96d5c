--------------------------- MODULE DevboxScripts ---------------------------
(***************************************************************************)
(* DevBoxes: an app whose container is an editor, with a repository cloned *)
(* into its home disk, and runs, which are jobs of the same image.  The    *)
(* reaper of expired boxes is in DevboxLeases.                             *)
(***************************************************************************)
EXTENDS AppScripts

(* With a token, the name must be free before the token is kept; without   *)
(* the app, the token is forgotten.                                        *)
keepDevboxToken == <<Free("deployment")>> \o saveGitToken
deployDevbox ==
    DoesOr(keepDevboxToken \o undone(deployAppWorkload) \o <<Quiet(Look("deployment"))>>,
           forgetGitToken)

clusterNodeIP == <<Quiet(Look("nodes"))>>
activeDevboxRuns == <<Quiet(Look("run job"))>>
devboxSummaryOf  == <<Quiet(Look("service"))>>
listDevboxes ==
    <<Look("deployment")>> \o clusterNodeIP \o activeDevboxRuns \o <<Quiet(Look("pods"))>>
      \o devboxSummaryOf

setDevboxExpiry == <<Guarded(Get("deployment")), Change("deployment")>>

(* Where the editor runs decides where the run has to; a pod that cannot   *)
(* be found decides nothing.  Every run has a name of its own.             *)
devboxNode     == <<Quiet(Look("pods"))>>
clusterGPU     == <<Quiet(Look("nodes"))>>
startDevboxRun ==
    <<Guarded(Get("deployment"))>> \o devboxNode \o clusterGPU \o <<Quiet(Look("nodes")), Ensure("run job")>>
GetDevboxRuns  == <<Look("run job"), Quiet(Look("pods"))>> \o clusterGPU

devboxScripts ==
    [DeployDevbox  |-> deployDevbox,
     GetDevboxes   |-> Does(listDevboxes),
     KeepDevbox    |-> Does(setDevboxExpiry),
     RunDevbox     |-> Does(startDevboxRun),
     GetDevboxRuns |-> Does(GetDevboxRuns)]
=============================================================================
