-------------------------- MODULE DatabaseScripts --------------------------
(***************************************************************************)
(* The database page: an engine is a StatefulSet with a Service, a Secret  *)
(* that holds its credentials, a claim for its data, which the cluster     *)
(* makes from the set's template, and a claim for its backups.             *)
(***************************************************************************)
EXTENDS ApiCalls

databaseClaims == {"data claim", "backup claim"}

(* The credentials of an earlier database of that name are kept; the claim *)
(* for the backups too.                                                    *)
\* Variant: one that exists is an error.
createBackupClaim == <<Create("backup claim")>>
ensureBackupClaim == <<Ensure("backup claim")>>
reconcileDatabaseService == <<Adopts(Put("service"))>>
createDatabase ==
    <<Quiet(Look("secret")), Ensure("secret")>> \o ensureBackupClaim
      \o <<Ensure("set"), Find("set")>> \o reconcileDatabaseService \o <<Quiet(Look("service"))>>

growDatabaseStorage == <<Retune(databaseClaims)>>
UpdateDatabase ==
    <<Guarded(Get("set")), Adopts(Change("set"))>> \o growDatabaseStorage
      \o reconcileDatabaseService \o <<Quiet(Look("service"))>>

\* Variant: the set is written from the form.
ScaleDatabaseAnew == <<Guarded(Get("set")), Replaces(Change("set")), Quiet(Look("service"))>>
ScaleDatabase == <<Guarded(Get("set")), Change("set"), Quiet(Look("service"))>>

(* The page shows what it can: only the set has to be there.               *)
databasePodsOf == <<Quiet(Look("pods"))>>
execInPod == <<Run("pod")>>
GetDatabases == <<Look("set"), Look("service")>>
GetDatabase ==
    <<Guarded(Get("set")), Look("service"), Quiet(Look("secret"))>> \o databasePodsOf
      \o <<Quiet(Look("nodes"))>> \o <<Quiet(execInPod[1])>>

(* With its data or without it, from its page or with the template that    *)
(* brought it.  The claims are found by their label; one that cannot be    *)
(* listed is not missed.                                                   *)
dropData == <<Noted(Clear("secret")), Blindly(Noted(Sweep(databaseClaims)))>>
DeleteDatabase     == <<Guarded(Get("set")), Clear("set"), Noted(Clear("service"))>>
DeleteDatabaseData == DeleteDatabase \o dropData
deleteDatabaseObjects == <<Noted(Clear("set")), Noted(Clear("service"))>> \o dropData

(* Dumps are written, read back and removed by a command in a pod that     *)
(* runs; an engine that reads its data at startup has its pod deleted, for *)
(* the set to make it anew.                                                *)
resolveDatabase == <<Guarded(Get("set")), Find("pod")>>
BackupDatabase  == resolveDatabase \o execInPod
DeleteDatabaseBackup == resolveDatabase \o execInPod
RestoreDatabase == resolveDatabase \o execInPod \o <<Run("pod")>>
DatabaseConsole == resolveDatabase \o execInPod

databaseScripts ==
    [CreateDatabase     |-> Does(createDatabase),
     UpdateDatabase     |-> Does(UpdateDatabase),
     ScaleDatabase      |-> Does(ScaleDatabase),
     GetDatabases       |-> Does(GetDatabases),
     GetDatabase        |-> Does(GetDatabase),
     DeleteDatabase     |-> Does(DeleteDatabase),
     DeleteDatabaseData |-> Does(DeleteDatabaseData),
     DropDatabase       |-> Does(deleteDatabaseObjects),
     BackupDatabase     |-> Does(BackupDatabase),
     DeleteDatabaseBackup |-> Does(DeleteDatabaseBackup),
     RestoreDatabase    |-> Does(RestoreDatabase),
     DatabaseConsole    |-> Does(DatabaseConsole)]
=============================================================================
