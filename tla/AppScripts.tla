----------------------------- MODULE AppScripts -----------------------------
(***************************************************************************)
(* The launchpad: an app is a Deployment with claims, config files, a pull *)
(* secret, a Service, an Ingress and an autoscaler, found again by the     *)
(* label of its name; it comes from a form, an image or a Git repository.  *)
(***************************************************************************)
EXTENDS ApiCalls

ensureDeploymentPVCs == <<Ensure("claim")>>

(* What surrounds the workload is brought in line with the form: there if  *)
(* the form asks for it ("full"), and away if it asks for it no longer     *)
(* ("bare").  What is there is adopted, whoever made it; what is removed   *)
(* has to be the app's, the Service excepted.                              *)
reconcileAppConfigFiles == [full |-> <<Adopts(Put("config"))>>, bare |-> <<Shed("config")>>]
\* Variant: the error is not looked at.
reconcileAppRegistryUnseen == [full |-> <<Quiet(Adopts(Put("registry")))>>, bare |-> <<Quiet(Shed("registry"))>>]
reconcileAppRegistry    == [full |-> <<Adopts(Put("registry"))>>, bare |-> <<Shed("registry")>>]
reconcileAppHpa         == [full |-> <<Adopts(Put("hpa"))>>, bare |-> <<Shed("hpa")>>]
reconcileAppIngress     == [full |-> <<Adopts(Put("ingress"))>>, bare |-> <<Shed("ingress")>>]
reconcileAppService     == [full |-> <<Adopts(Put("service"))>>,
                            bare |-> <<Look("service"), Clear("service")>>]

reconcileAppExtras == [f \in {"full", "bare"} |-> reconcileAppConfigFiles[f] \o reconcileAppRegistry[f]]

(* A certificate is asked for, and missed without a word.                  *)
requestAppCertificate == [full |-> <<Quiet(Look("ingress")), Quiet(Run("certificate"))>>,
                          bare |-> <<Quiet(Look("ingress"))>>]
reconcileAppNetworkAndScaling ==
    [f \in {"full", "bare"} |-> reconcileAppService[f] \o reconcileAppIngress[f]
                                  \o requestAppCertificate[f] \o reconcileAppHpa[f]]

(* The workload itself is never adopted when it is made, always when it is *)
(* upgraded.                                                               *)
deployAppWorkload ==
    ensureDeploymentPVCs \o reconcileAppExtras["full"] \o <<Create("deployment")>>
      \o reconcileAppNetworkAndScaling["full"] \o <<Quiet(Look("service"))>>
UpgradeImageApp ==
    [f \in {"full", "bare"} |->
       <<Get("deployment")>> \o ensureDeploymentPVCs \o reconcileAppExtras[f]
         \o <<Adopts(Change("deployment"))>> \o reconcileAppNetworkAndScaling[f]]

(* Everything with the app's label goes; an app that has no workload any   *)
(* more is not one.  Kinds that cannot be listed are passed over.          *)
deleteAppExtras ==
    <<Blindly(Noted(Sweep({"ingress"}))), Blindly(Noted(Sweep({"hpa"}))),
      Blindly(Noted(Sweep({"config"}))), Blindly(Noted(Sweep({"registry", "git token"}))),
      Blindly(Noted(Sweep({"build job"})))>>
uninstallImageApp ==
    <<Some(Noted(Sweep({"deployment", "part"}))), Noted(Sweep({"service"}))>> \o deleteAppExtras
uninstallImageAppData == uninstallImageApp \o <<Noted(Sweep({"claim"}))>>
ScaleImageApp == <<Some(Noted(Retune({"deployment", "part"})))>>

listImageApps == <<Look("deployment"), Look("service")>>
getImageAppDetail ==
    <<Get("deployment"), Look("service"), Look("ingress"), Look("hpa"), Look("config"),
      Quiet(Look("registry")), Quiet(Look("nodes")), Quiet(Look("pods"))>>

----------------------------------------------------------------------------
(* The Deployment page writes what its form held, with the version of the  *)
(* Deployment it was opened on.                                            *)
AddDeployment    == <<Plain(Ensure("claim")), Plain(Create("deployment"))>>
UpdateDeployment == <<Get("deployment"), Find("deployment"), Change("deployment")>>
DeleteDeployment == <<Drop("deployment"), Clear("service")>>
RestartDeployment == <<Overwrite("deployment")>>
DeploymentRevisions == <<Get("deployment"), Look("replica sets")>>
\* Variant: patches whatever Deployment there is.
RollbackLatest     == <<Get("deployment"), Get("replica sets"), Overwrite("deployment")>>
RollbackDeployment == <<Get("deployment"), Get("replica sets"), Change("deployment")>>

----------------------------------------------------------------------------
(* An app from a repository: a job builds its image and pushes it into a   *)
(* registry in the cluster; the watcher deploys what has been built.       *)
ensureBuildRegistry ==
    <<Plain(Ensure("build namespace")), Ensure("registry claim"), Ensure("registry deployment"),
      Look("registry service"), Ensure("registry service")>>
mcpEnsureNamespace == <<Look("namespace"), Plain(Ensure("namespace"))>>
(* A build that is under way refuses another one, and so does one that a   *)
(* client was not told of.                                                 *)
activeGitBuild == <<Free("build job")>>
(* The token of an app that exists by then is not forgotten.               *)
saveGitToken   == <<Guarded(Put("git token"))>>
forgetGitToken == <<Else(Free("deployment")), Quiet(Shed("git token"))>>
buildGitApp == activeGitBuild \o mcpEnsureNamespace \o ensureBuildRegistry \o saveGitToken
startGitBuild ==
    [first |-> DoesOr(<<Free("deployment")>> \o buildGitApp \o <<Undone(Ensure("build job"))>>,
                       forgetGitToken),
     again |-> Does(<<Find("deployment")>> \o buildGitApp \o <<Ensure("build job")>>)]

markGitBuild == <<Quiet(Overwrite("build job"))>>
deployGitBuild ==
    [first |-> <<Find("build job"), Get("pods"), Free("deployment")>> \o deployAppWorkload,
     again |-> <<Find("build job"), Get("pods"), Get("deployment"), Change("deployment")>>]
deployFinishedGitBuilds ==
    [first  |-> [DoesOr(undone(deployGitBuild["first"]) \o markGitBuild, forgetGitToken \o markGitBuild)
                   EXCEPT !.other = markGitBuild],
     again  |-> DoesOr(undone(deployGitBuild["again"]) \o markGitBuild, markGitBuild),
     failed |-> DoesElse(<<Find("build job")>> \o forgetGitToken \o markGitBuild, markGitBuild)]
listGitBuilds == <<Look("build job"), Quiet(Look("pods"))>>

appScripts ==
    [DeployApp             |-> Does(deployAppWorkload),
     UpgradeImageApp       |-> Does(UpgradeImageApp["full"]),
     UpgradeImageAppBare   |-> Does(UpgradeImageApp["bare"]),
     UninstallImageApp     |-> Does(uninstallImageApp),
     UninstallImageAppData |-> Does(uninstallImageAppData),
     ScaleImageApp         |-> Does(ScaleImageApp),
     GetImageApps          |-> Does(listImageApps),
     GetImageApp           |-> Does(getImageAppDetail),
     AddDeployment         |-> Does(AddDeployment),
     UpdateDeployment      |-> Does(UpdateDeployment),
     DeleteDeployment      |-> Does(DeleteDeployment),
     RestartDeployment     |-> Does(RestartDeployment),
     GetDeploymentRevisions |-> Does(DeploymentRevisions),
     RollbackDeployment    |-> Does(RollbackDeployment),
     StartGitBuild         |-> startGitBuild["first"],
     StartGitBuildAgain    |-> startGitBuild["again"],
     DeployGitBuild        |-> deployFinishedGitBuilds["first"],
     DeployGitBuildAgain   |-> deployFinishedGitBuilds["again"],
     DeployGitBuildFailed  |-> deployFinishedGitBuilds["failed"],
     GetGitBuilds          |-> Does(listGitBuilds)]
=============================================================================
