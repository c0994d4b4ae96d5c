-------------------------- MODULE TemplateScripts --------------------------
(***************************************************************************)
(* Apps that come as a whole: from a template of the market, whose objects *)
(* are applied one by one and listed in a record, and from a compose file, *)
(* whose services become one app each, owned by the main one.              *)
(***************************************************************************)
EXTENDS DatabaseScripts, AppScripts

(* A template with a config, a workload that mounts it, and a database.    *)
(* What cannot be applied is told in the answer, which is "ok" all the     *)
(* same; what exists is taken over.  A database that fails is left as far  *)
(* as it came.  The record is written at the end.                          *)
applyObject(o) == <<Quiet(Adopts(Settle(o)))>>
writeConnCredential == <<Adopts(Put("connection"))>>
applyDatabase == inCase(createDatabase \o writeConnCredential, Else)
writeTemplateInstance == <<Adopts(Put("record"))>>
applyRest ==
    <<Quiet(Look("pull secrets"))>> \o applyObject("config")
      \o <<Quiet(Look("ingress classes"))>> \o applyObject("deployment") \o writeTemplateInstance
DeployTemplate == DoesElse(applyDatabase \o applyRest, applyRest)

(* Newest first, whatever fails; then the databases; then the record, even *)
(* when something could not be removed.                                    *)
statefulSetClaims == <<Quiet(Look("deployment"))>>
\* Variant: in the order they were applied in.
deleteAppliedInOrder == <<Noted(Clear("config")), Noted(Clear("deployment")), Noted(Clear("connection"))>>
deleteApplied == <<Noted(Clear("deployment")), Noted(Clear("config")), Noted(Clear("connection"))>>
DeleteTemplateInstance ==
    <<Get("record")>> \o statefulSetClaims \o deleteApplied \o deleteDatabaseObjects
      \o <<Noted(Clear("record"))>>

GetTemplateInstances == <<Look("record")>>
GetTemplateInstance  == <<Get("record"), Quiet(Look("deployment"))>>
GetTemplateInstanceStatus == <<Look("pods"), Quiet(Run("logs"))>>

(* The market itself: files under the data directory, fetched when there   *)
(* are none.                                                               *)
GetTemplates  == <<Look("templates"), Quiet(Run("repository")), Quiet(Look("templates"))>>

----------------------------------------------------------------------------
(* A project of two services, the second a part of the first.  When one    *)
(* fails, what was made is uninstalled under the name of the main one.     *)
composeService(d, s, v) == <<Ensure(v), Create(d), Adopts(Put(s))>>
composeHeadless(d, s, v) == <<Ensure(v), Create(d), Create(s)>>
uninstallCompose ==
    <<Some(Quiet(Sweep({"main", "part"}))), Quiet(Sweep({"main service", "part service"})),
      Quiet(Sweep({"main claim", "part claim"}))>>
deployCompose ==
    DoesOr(mcpEnsureNamespace \o <<Free("main"), Free("part")>>
             \o undone(composeService("main", "main service", "main claim"))
             \o undone(composeHeadless("part", "part service", "part claim")), uninstallCompose)
planCompose == <<Quiet(Look("nodes"))>>

templateScripts ==
    [DeployTemplate       |-> DeployTemplate,
     DeleteTemplateInstance |-> Does(DeleteTemplateInstance),
     GetTemplateInstances |-> Does(GetTemplateInstances),
     GetTemplateInstance  |-> Does(GetTemplateInstance),
     GetTemplateInstanceStatus |-> Does(GetTemplateInstanceStatus),
     GetTemplates         |-> Does(GetTemplates),
     DeployCompose        |-> deployCompose,
     PreviewCompose       |-> Does(planCompose)]
=============================================================================
