---------------------------- MODULE BootScripts ----------------------------
(***************************************************************************)
(* What casos brings into the cluster at every start: the admission        *)
(* webhook, the network, DNS, the ingress controller and the provisioner   *)
(* of volumes.  Each add-on is a script of its own, because the failure of *)
(* one does not keep the others from being tried.                          *)
(***************************************************************************)
EXTENDS ApiCalls

(* What exists gets casos' labels and spec; where a validator is given, it *)
(* must have had the labels.  An update that would change nothing is sent  *)
(* here, where the source leaves some of them out.                         *)
createOrUpdate(o) == <<Adopts(Put(o))>>
createOrUpdateOurs(o) == <<Guarded(Adopts(Put(o)))>>
ensureNamespace == <<Plain(Ensure("namespace"))>>

ensureCasbinWebhook == <<Quiet(Clear("legacy webhook")), Plain(Put("webhook"))>>
ensureNodeProxierBinding == <<Plain(Ensure("proxier binding"))>>

ensureFlannel ==
    <<Plain(Put("namespace"))>>
      \o each(createOrUpdate, <<"account", "role", "binding", "config", "daemon set">>)

(* A DNS service that is not casos' own leaves the whole of DNS to others. *)
(* One of ours with another address than the cluster's is replaced.        *)
isCoreDNSServiceManaged == <<Aside(Look("dns service"))>>
ensureCoreDNSService == [kept  |-> <<Look("dns service")>> \o createOrUpdate("dns service"),
                         moved |-> <<Look("dns service"), Clear("dns service"), Free("dns service")>>
                                     \o createOrUpdate("dns service")]
ensureClusterDNS ==
    [s \in {"kept", "moved"} |->
       DoesOr(ensureNamespace \o isCoreDNSServiceManaged
                \o each(createOrUpdate, <<"account", "role", "binding", "config">>)
                \o ensureCoreDNSService[s] \o createOrUpdate("deployment"), <<>>)]

(* All of the controller's objects are checked before the first is made,   *)
(* and each again when it is its turn.  Taken away, each is looked at once *)
(* more, and those of others are left.                                     *)
controllerObjects == <<"account", "service", "deployment", "role", "binding", "ingress class">>
checked(o) == <<Guarded(Look(o))>>
ensureIngressControllerOwnership == each(checked, controllerObjects)
ensureIngressClass == <<Look("ingress classes")>> \o createOrUpdateOurs("ingress class")
ingressRoles   == createOrUpdateOurs("role") \o createOrUpdateOurs("binding")
ingressService == createOrUpdateOurs("service")
ensureIngressController ==
    ensureIngressControllerOwnership \o ensureNamespace \o createOrUpdateOurs("account")
      \o ingressRoles \o ensureIngressClass \o ingressService \o createOrUpdateOurs("deployment")

\* Variant: whose it is is not asked.
cleared(o) == <<Noted(Clear(o))>>
shed(o) == <<Noted(Shed(o))>>
cleanupIngressController ==
    each(shed, <<"deployment", "service", "ingress class", "binding", "role", "account">>)

(* Whether the class is to be the default is in StorageClasses.            *)
reconcileLocalPathDeployment == createOrUpdate("deployment")
ensureLocalPathStorageClass == <<Look("storage classes"), Put("storage class")>>
ensureDefaultStorageProvisioner ==
    ensureNamespace \o each(createOrUpdate, <<"account", "role", "binding", "config">>)
      \o reconcileLocalPathDeployment \o ensureLocalPathStorageClass

bootScripts ==
    [ensureCasbinWebhook      |-> Does(ensureCasbinWebhook),
     ensureNodeProxierBinding |-> Does(ensureNodeProxierBinding),
     ensureFlannel            |-> Does(ensureFlannel),
     ensureClusterDNS         |-> ensureClusterDNS["kept"],
     ensureClusterDNSMoved    |-> ensureClusterDNS["moved"],
     ensureIngressController  |-> Does(ensureIngressController),
     cleanupIngressController |-> Does(cleanupIngressController),
     ensureDefaultStorageProvisioner |-> Does(ensureDefaultStorageProvisioner)]
=============================================================================
