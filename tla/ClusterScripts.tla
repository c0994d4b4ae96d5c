--------------------------- MODULE ClusterScripts ---------------------------
(***************************************************************************)
(* The pages of the objects of the cluster.  A page lists objects and      *)
(* opens a form on one; the form is sent back with the version the page    *)
(* was opened on, and is written over the object as a whole, or into what  *)
(* the handler reads of it just before.                                    *)
(***************************************************************************)
EXTENDS ApiCalls

(* The handlers of a kind, named as in the source: its plural for the list *)
(* and its name for the rest.                                              *)
listing(k, ks) == "Get" \o ks :> <<Look(k)>> @@ "Get" \o k :> <<Get(k)>>
adding(k)      == "Add" \o k :> <<Plain(Create(k))>>
deleting(k)    == "Delete" \o k :> <<Drop(k)>>
replacing(k)   == "Update" \o k :> <<Get(k), Replaces(Change(k))>>
merging(k)     == "Update" \o k :> <<Get(k), Find(k), Change(k)>>

ReplacedKind(k, ks) == listing(k, ks) @@ adding(k) @@ replacing(k) @@ deleting(k)
MergedKind(k, ks)   == listing(k, ks) @@ adding(k) @@ merging(k) @@ deleting(k)

configmap      == ReplacedKind("ConfigMap", "ConfigMaps")
secret         == ReplacedKind("Secret", "Secrets")
ingress        == ReplacedKind("Ingress", "Ingresses")
hpa            == ReplacedKind("HPA", "HPAs")
networkpolicy  == ReplacedKind("NetworkPolicy", "NetworkPolicies")
resourcequota  == ReplacedKind("ResourceQuota", "ResourceQuotas")
serviceaccount == ReplacedKind("ServiceAccount", "ServiceAccounts")
service        == MergedKind("Service", "Services")
statefulset    == MergedKind("StatefulSet", "StatefulSets")
daemonset      == MergedKind("DaemonSet", "DaemonSets")
job            == MergedKind("Job", "Jobs")
rolebinding    == MergedKind("RoleBinding", "RoleBindings")
clusterrolebinding == MergedKind("ClusterRoleBinding", "ClusterRoleBindings")
pvc == listing("PersistentVolumeClaim", "PersistentVolumeClaims") @@ adding("PersistentVolumeClaim")
         @@ deleting("PersistentVolumeClaim")

(* A run of a cron job is a job of its own, named after the second.  *)
GetJobsByCronJob == <<Look("CronJobJob")>>
GetJobPodName    == <<Quiet(Look("JobPod"))>>
TriggerCronJob   == <<Get("CronJob"), Create("CronJobJob")>>
cronjob == ReplacedKind("CronJob", "CronJobs")
             @@ [GetCronJobJobs |-> GetJobsByCronJob \o GetJobPodName,
                 TriggerCronJob |-> TriggerCronJob \o GetJobPodName]

(* A namespace has nothing to change, but is written all the same; one     *)
(* that will not go away is deprived of its finalizers, whatever became of *)
(* the deletion asked for just before.                                     *)
ForceDeleteNamespace == <<Quiet(Clear("Namespace")), Overwrite("finalizers")>>
namespace == listing("Namespace", "Namespaces") @@ adding("Namespace") @@ deleting("Namespace")
               @@ [ForceDeleteNamespace |-> ForceDeleteNamespace,
                   UpdateNamespace |-> <<Get("Namespace"), Change("Namespace")>>]

(* Nodes come of themselves; their labels and schedulability are edited.   *)
node == "GetNodes" :> <<Look("Node"), Quiet(Look("Pod"))>> @@ "GetNode" :> <<Get("Node")>>
          @@ merging("Node") @@ deleting("Node")
event == [GetEvents |-> <<Look("Event")>>]
GetPodOwners == <<Quiet(Look("ReplicaSet"))>>
pod == [GetPods |-> <<Look("Pod")>> \o GetPodOwners, GetPod |-> <<Get("Pod")>> \o GetPodOwners,
        GetPodEvents |-> <<Look("Event")>>, GetPodLogs |-> <<Run("logs")>>]
         @@ adding("Pod") @@ merging("Pod") @@ deleting("Pod")

(* Files of a container are listed and moved by commands run in it, and a  *)
(* terminal is one; the dashboard shows what it can read.                  *)
podFiles == [n \in {"ListPodFiles", "DownloadPodFile", "UploadPodFile"} |-> <<Run(n)>>]
GetDashboard ==
    [i \in 1..8 |-> Quiet(Look(<<"Node", "Pod", "Namespace", "Service", "Deployment", "ConfigMap",
                               "ServiceAccount", "NodeMetrics">>[i]))]

clusterPages == configmap @@ secret @@ ingress @@ hpa @@ networkpolicy @@ resourcequota
                  @@ serviceaccount @@ service @@ statefulset @@ daemonset @@ job @@ rolebinding
                  @@ clusterrolebinding @@ pvc @@ cronjob @@ namespace @@ node @@ event @@ pod
                  @@ podFiles @@ [GetDashboard |-> GetDashboard]
clusterScripts == [n \in DOMAIN clusterPages |-> Does(clusterPages[n])]
=============================================================================
