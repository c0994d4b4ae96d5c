---------------------------- MODULE NodeScripts ----------------------------
(***************************************************************************)
(* A machine made into a node: the commands run and the files written on   *)
(* it, over SSH, in a local shell or over the mesh, with what the cluster  *)
(* is told of it, and the machines casos brings in of itself.  Whether two *)
(* of these run at once is decided in NodeDeploy and LocalNode.            *)
(***************************************************************************)
EXTENDS ApiCalls

commands(os) == each(LAMBDA o : <<Run(o)>>, os)
files(os)    == each(LAMBDA o : <<Set(o)>>, os)

(* A node of a mesh reaches the apiserver only when it has joined.         *)
RunNodeDeployPreflight(direct) ==
    commands(<<"os", "arch", "systemctl", "pid 1", "apt", "root">>) \o quietly(commands(<<"wsl">>))
      \o IF direct THEN commands(<<"apiserver">>) ELSE <<>>

(* A GPU that cannot be prepared is left out; one that cannot be published *)
(* is given up, and the deployment goes on with what comes after.          *)
prepareNodeGPU == quietly(commands(<<"nvidia-smi", "nvidia toolkit">>))
ensureNvidiaRuntimeClass == <<Ensure("runtime class")>>
reconcileNodeGPU ==
    [with    |-> inCase(<<Get("node")>> \o ensureNvidiaRuntimeClass
                          \o <<Overwrite("node"), Overwrite("node")>>, Else),
     without |-> inCase(<<Get("node"), Overwrite("node"), Overwrite("node")>>, Else)]

(* A mirror is configured where the registry cannot be reached, and no     *)
(* longer where it can, in a file that is casos' own.                      *)
resolveRegistryMirrors == commands(<<"probe hub", "probe registry">>)
reconcileRegistryMirrorFile(on) == IF on THEN <<Sparing(Mend("mirror"))>> ELSE <<Shed("mirror")>>
reconcileRegistryMirrorFiles(on) == reconcileRegistryMirrorFile(on)

replaceBrokenContainerd == commands(<<"containerd version", "containerd release">>)
installNodeBinaries(on) ==
    commands(<<"packages">>) \o quietly(commands(<<"iscsid">>)) \o commands(<<"kernel", "resolver">>)
      \o prepareNodeGPU \o resolveRegistryMirrors \o files(<<"containerd config">>)
      \o reconcileRegistryMirrorFiles(on) \o replaceBrokenContainerd
      \o commands(<<"containerd", "binaries">>)

(* On a hub, the node joins the overlay first; every attempt takes a key.  *)
NewNodeAuthKey     == <<Run("auth key")>>
waitForMeshApiserver == commands(<<"apiserver probe">>)
installMeshOverlay ==
    commands(<<"tailscaled">>) \o files(<<"overlay ca">>) \o commands(<<"trust", "overlay client">>)
      \o files(<<"overlay service">>) \o commands(<<"overlay start">>) \o NewNodeAuthKey
      \o commands(<<"overlay up", "overlay address">>) \o waitForMeshApiserver

writeNodeFiles ==
    files(<<"kubelet kubeconfig", "proxy kubeconfig", "kubelet config", "proxy config",
            "kubelet service", "proxy service">>)
startKubelet   == commands(<<"kubelet">>)
startKubeProxy == commands(<<"kube-proxy">>)
waitForNodeBootstrapState == <<Run("registered")>>
waitForFlannelReady       == <<Run("flannel ready")>>
waitForNodeReady          == <<Run("node ready")>>
apiserverVersion          == <<Run("version")>>
AppendAuthorizedKey       == commands(<<"authorized key">>)

Deploy(overlay, on, gpu) ==
    DoesElse(RunNodeDeployPreflight(overlay = <<>>) \o <<Run("kubeconfig")>> \o apiserverVersion
               \o installNodeBinaries(on) \o overlay \o writeNodeFiles \o startKubelet
               \o waitForNodeBootstrapState \o startKubeProxy \o waitForFlannelReady
               \o waitForNodeReady \o reconcileNodeGPU[gpu] \o AppendAuthorizedKey,
             AppendAuthorizedKey)

----------------------------------------------------------------------------
(* The host itself, or its WSL distribution, as a machine: the row is read *)
(* and made or written as a whole, with the address found out meanwhile.   *)
AddLocalHostMachine == commands(<<"shell">>) \o <<Mend("machine")>>
probeLocalWSLEndpoint == commands(<<"login">>)
AddLocalWSLMachine ==
    quietly(commands(<<"detect">>)) \o <<Look("machine")>> \o commands(<<"provision">>)
      \o probeLocalWSLEndpoint \o <<Mend("machine")>>
ListLocalWSLDistros == commands(<<"detect">>) \o <<Look("machine")>>
EnsureApiserverHostFirewallRule == <<Quiet(Keep("firewall rule"))>>

(* Joining a cloud: the member keeps what the hub answers, and forgets it  *)
(* when it leaves, once the hub and its own services have been told.  What *)
(* the hub does about it is in MeshJoin.                                   *)
AddMeshInvite    == <<Create("invite")>>
DeleteMeshInvite == <<Clear("invite")>>
EnableHub        == <<Set("hub config")>>
Join == <<Free("membership"), Run("hub"), Set("membership")>>
LeaveMeshCloud == <<Get("membership"), Run("hub"), Quiet(Run("services")), Clear("membership")>>

nodeScripts ==
    [DeployOnHost    |-> Deploy(<<>>, TRUE, "with"),
     DeployOnMesh    |-> Deploy(installMeshOverlay, FALSE, "without"),
     AddLocalHostMachine |-> Does(AddLocalHostMachine),
     AddLocalWSLMachine  |-> Does(AddLocalWSLMachine),
     ListLocalWSLDistros |-> Does(ListLocalWSLDistros),
     EnsureApiserverHostFirewallRule |-> Does(EnsureApiserverHostFirewallRule),
     AddMeshInvite   |-> Does(AddMeshInvite),
     DeleteMeshInvite |-> Does(DeleteMeshInvite),
     EnableMeshHub   |-> Does(EnableHub),
     JoinMesh        |-> Does(Join),
     LeaveMesh       |-> Does(LeaveMeshCloud)]
=============================================================================
