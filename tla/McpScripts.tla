----------------------------- MODULE McpScripts -----------------------------
(***************************************************************************)
(* The tools an agent calls over MCP: apps are created, changed, rolled    *)
(* back and restarted by name, sandboxes are DevBoxes with a lease.  A     *)
(* tool waits for the rollout and answers with what it sees, but what it   *)
(* sees does not decide what it did.                                       *)
(***************************************************************************)
EXTENDS DevboxScripts

mcpDeploymentPods == <<Look("pods")>>
mcpRecentWarnings == <<Quiet(Look("events"))>>
mcpAppStatusOf    == <<Get("deployment")>> \o getImageAppDetail \o mcpDeploymentPods \o mcpRecentWarnings
checkMCPRollout   == quietly(DeploymentRevisions \o mcpDeploymentPods)
waitForMCPRollout == checkMCPRollout
following         == waitForMCPRollout \o quietly(mcpAppStatusOf)

(* An app is created with the launchpad's calls, and changed with what the *)
(* agent asked for only.  A domain is added to those read before the       *)
(* Ingress is read once more to be written.                                *)
mcpCreateApp     == mcpEnsureNamespace \o deployAppWorkload
mcpPublishDomain == <<Look("ingress")>> \o reconcileAppIngress["full"] \o requestAppCertificate["full"]
mcpUpdateApp     ==
    <<Guarded(Get("deployment")), Look("hpa"), Change("deployment"), Quiet(Look("service"))>>
      \o reconcileAppService["full"] \o mcpPublishDomain
mcpDeployApp ==
    [new |-> <<Free("deployment")>> \o mcpCreateApp \o following,
     old |-> mcpUpdateApp \o following]

mcpGetAppLogs       == <<Get("deployment")>> \o mcpDeploymentPods \o <<Quiet(Run("logs"))>>
mcpListAppRevisions == DeploymentRevisions
mcpRollbackApp      == <<Get("deployment"), Get("replica sets")>> \o RollbackDeployment \o following
mcpRestartApp       == RestartDeployment \o following

----------------------------------------------------------------------------
(* A sandbox is told from an app by its label, a box an agent may end by   *)
(* its lease; both are read before the call that depends on them, not in   *)
(* it.                                                                     *)
mcpSandboxDeployment == <<Guarded(Get("deployment"))>>
leasedSandbox        == mcpSandboxDeployment
sandboxPod           == <<Get("pods")>>
mcpSandboxSummary    == quietly(listDevboxes)

mcpCreateSandbox ==
    DoesOr(<<Free("deployment")>> \o mcpEnsureNamespace \o deployDevbox.calls
             \o waitForMCPRollout \o mcpSandboxSummary, deployDevbox.undo)
mcpListSandboxes    == listDevboxes
mcpExecInSandbox     == mcpSandboxDeployment \o sandboxPod \o <<Run("command")>>
mcpReadSandboxFile   == mcpSandboxDeployment \o sandboxPod \o <<Run("read")>>
mcpWriteSandboxFile  == mcpSandboxDeployment \o sandboxPod \o <<Run("write")>>
mcpStartSandboxJob   == mcpSandboxDeployment \o startDevboxRun
mcpGetSandboxJob     == <<Guarded(Get("run job")), Quiet(Look("pods")), Quiet(Run("logs"))>>
mcpExtendSandbox     == leasedSandbox \o setDevboxExpiry
mcpDeleteSandbox     == leasedSandbox \o uninstallImageAppData

mcpScripts ==
    [list_apps         |-> Does(listImageApps),
     get_app           |-> Does(mcpAppStatusOf),
     deploy_app        |-> Does(mcpDeployApp["new"]),
     deploy_app_again  |-> Does(mcpDeployApp["old"]),
     get_app_logs      |-> Does(mcpGetAppLogs),
     list_app_revisions |-> Does(mcpListAppRevisions),
     rollback_app      |-> Does(mcpRollbackApp),
     restart_app       |-> Does(mcpRestartApp),
     create_sandbox    |-> mcpCreateSandbox,
     list_sandboxes    |-> Does(mcpListSandboxes),
     exec_in_sandbox   |-> Does(mcpExecInSandbox),
     read_sandbox_file |-> Does(mcpReadSandboxFile),
     write_sandbox_file |-> Does(mcpWriteSandboxFile),
     start_sandbox_job |-> Does(mcpStartSandboxJob),
     get_sandbox_job   |-> Does(mcpGetSandboxJob),
     extend_sandbox    |-> Does(mcpExtendSandbox),
     delete_sandbox    |-> Does(mcpDeleteSandbox)]
=============================================================================
