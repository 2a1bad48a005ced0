-------------------------- MODULE CatalogPlatform ---------------------------
(***************************************************************************)
(* The tools of App Platform, Kubernetes, registries, functions,           *)
(* microdroplets and the marketplace: what each handler asks of its        *)
(* arguments and which requests it sends to the DigitalOcean API (first    *)
(* the handlers, in the vocabulary of ToolContract, then what Tools()      *)
(* registers: the name, the hints, the arguments the schema requires, the  *)
(* handler).                                                               *)
(***************************************************************************)
EXTENDS ToolContract
-----------------------------------------------------------------------------
(* pkg/registry/apps/apps.go                                               *)

AppsGetDeploymentStatus == Demands({"AppID"}, Reads ++ Raising(Reads))
AppsList == Reads
AppsDelete == Demands({"AppID"}, Deletes)
AppsGetInfo == Demands({"AppID"}, Reads)
AppsGetLogs ==
    Demands({"AppID", "Component", "DeploymentID", "LogType"}, Reads)
AppsCreateAppFromSpec == Demands({"spec"}, Creates)
AppsUpdate == Checks({"update"}, Either(Sets, Starts))

AppPlatformTools == {
    Tool("apps-get-deployment-status", HintsRead,
         {"AppID"}, AppsGetDeploymentStatus),
    Tool("apps-list", HintsRead, {}, AppsList),
    Tool("apps-delete", HintsDelete, {"AppID"}, AppsDelete),
    Tool("apps-get-info", HintsRead, {"AppID"}, AppsGetInfo),
    Tool("apps-get-logs", HintsRead,
         {"AppID", "Component", "DeploymentID", "LogType"}, AppsGetLogs),
    Tool("apps-create-app-from-spec", HintsCreate, {}, AppsCreateAppFromSpec),
    Tool("apps-update", HintsAction, {}, AppsUpdate) }
-----------------------------------------------------------------------------
(* pkg/registry/doks/doks.go                                               *)

DOKSGetCluster == Demands({"ClusterID"}, Raising(Reads))
DOKSListClusters == Reads
DOKSUpdateCluster ==
    Demands({"ClusterID"}, Checks({"MaintenancePolicy"}, Sets))
DOKSDeleteCluster == Demands({"ClusterID"}, Deletes)
DOKSUpgradeCluster == Demands({"ClusterID", "VersionSlug"}, Starts)
DOKSGetClusterUpgrades == Demands({"ClusterID"}, Reads)
DOKSGetKubeconfig == Demands({"ClusterID"}, Reads)
DOKSGetCredentials == Demands({"ClusterID"}, Reads)
DOKSGetNodepool == Demands({"ClusterID", "NodePoolID"}, Reads)
DOKSListNodepools == Demands({"ClusterID"}, Reads)
DOKSUpdateNodepool == Demands({"ClusterID", "NodePoolID"}, Sets)
DOKSDeleteNodepool == Demands({"ClusterID", "NodePoolID"}, Deletes)
DOKSDeleteNode == Demands({"ClusterID", "NodeID", "NodePoolID"}, Deletes)
DOKSRecycleNodes == Demands({"ClusterID", "NodeIDs", "NodePoolID"}, Starts)
DOKSListOptions == Reads
DOKSCreateCluster == Checks({"node_pools"}, Creates)
DOKSCreateNodepool ==
    Demands({"cluster_id", "node_pool_create_request"}, Creates)

DoksTools == {
    Tool("doks-get-cluster", HintsRead, {"ClusterID"}, DOKSGetCluster),
    Tool("doks-list-clusters", HintsRead, {}, DOKSListClusters),
    Tool("doks-update-cluster", HintsToggle, {"ClusterID"}, DOKSUpdateCluster),
    Tool("doks-delete-cluster", HintsDelete, {"ClusterID"}, DOKSDeleteCluster),
    Tool("doks-upgrade-cluster", HintsAction,
         {"ClusterID", "VersionSlug"}, DOKSUpgradeCluster),
    Tool("doks-get-cluster-upgrades", HintsRead,
         {"ClusterID"}, DOKSGetClusterUpgrades),
    Tool("doks-get-kubeconfig", HintsRead, {"ClusterID"}, DOKSGetKubeconfig),
    Tool("doks-get-credentials", HintsRead, {"ClusterID"}, DOKSGetCredentials),
    Tool("doks-get-nodepool", HintsRead,
         {"ClusterID", "NodePoolID"}, DOKSGetNodepool),
    Tool("doks-list-nodepools", HintsRead, {"ClusterID"}, DOKSListNodepools),
    Tool("doks-update-nodepool", HintsToggle,
         {"ClusterID", "NodePoolID"}, DOKSUpdateNodepool),
    Tool("doks-delete-nodepool", HintsDelete,
         {"ClusterID", "NodePoolID"}, DOKSDeleteNodepool),
    Tool("doks-delete-node", HintsDelete,
         {"ClusterID", "NodeID", "NodePoolID"}, DOKSDeleteNode),
    Tool("doks-recycle-nodes", HintsAction,
         {"ClusterID", "NodeIDs", "NodePoolID"}, DOKSRecycleNodes),
    Tool("doks-list-options", HintsRead, {}, DOKSListOptions),
    Tool("doks-create-cluster", HintsCreate, {}, DOKSCreateCluster),
    Tool("doks-create-nodepool", HintsCreate,
         {"cluster_id", "node_pool_create_request"}, DOKSCreateNodepool) }
-----------------------------------------------------------------------------
(* pkg/registry/docr/garbage_collection_tools.go                           *)

DOCRGarbageCollectionStart == Demands({"RegistryName"}, Starts)
DOCRGarbageCollectionGet == Demands({"RegistryName"}, Reads)
DOCRGarbageCollectionList == Demands({"RegistryName"}, Reads)
DOCRGarbageCollectionUpdate ==
    Demands({"GarbageCollectionUUID", "RegistryName"}, Sets)

GarbageCollectionTools == {
    Tool("docr-garbage-collection-start", HintsReplace,
         {"RegistryName"}, DOCRGarbageCollectionStart),
    Tool("docr-garbage-collection-get", HintsRead,
         {"RegistryName"}, DOCRGarbageCollectionGet),
    Tool("docr-garbage-collection-list", HintsRead,
         {"RegistryName"}, DOCRGarbageCollectionList),
    Tool("docr-garbage-collection-update", HintsToggle,
         {"Cancel", "GarbageCollectionUUID", "RegistryName"},
           DOCRGarbageCollectionUpdate) }
-----------------------------------------------------------------------------
(* pkg/registry/docr/registry_tools.go                                     *)

DOCRGet == Demands({"RegistryName"}, Reads)
DOCRList == Reads
DOCRCreate == Demands({"Name"}, Creates)
DOCRDelete == Demands({"RegistryName"}, Unnames)
DOCRDockerCredentials == Demands({"RegistryName"}, Reads)
DOCROptions == Reads
DOCRValidateName == Demands({"Name"}, Reads)

RegistryTools == {
    Tool("docr-get", HintsRead, {"RegistryName"}, DOCRGet),
    Tool("docr-list", HintsRead, {}, DOCRList),
    Tool("docr-create", HintsCreate, {"Name"}, DOCRCreate),
    Tool("docr-delete", HintsDelete, {"RegistryName"}, DOCRDelete),
    Tool("docr-docker-credentials", HintsRead,
         {"RegistryName"}, DOCRDockerCredentials),
    Tool("docr-options", HintsRead, {}, DOCROptions),
    Tool("docr-validate-name", HintsRead, {"Name"}, DOCRValidateName) }
-----------------------------------------------------------------------------
(* pkg/registry/docr/repository_tools.go                                   *)

DOCRRepositoryList == Demands({"RegistryName"}, Reads)
DOCRRepositoryTagList == Demands({"RegistryName", "Repository"}, Reads)
DOCRRepositoryTagDelete ==
    Demands({"RegistryName", "Repository", "Tag"}, Unnames)
DOCRRepositoryManifestList == Demands({"RegistryName", "Repository"}, Reads)
DOCRRepositoryManifestDelete ==
    Demands({"Digest", "RegistryName", "Repository"}, Deletes)

RepositoryTools == {
    Tool("docr-repository-list", HintsRead,
         {"RegistryName"}, DOCRRepositoryList),
    Tool("docr-repository-tag-list", HintsRead,
         {"RegistryName", "Repository"}, DOCRRepositoryTagList),
    Tool("docr-repository-tag-delete", HintsDelete,
         {"RegistryName", "Repository", "Tag"}, DOCRRepositoryTagDelete),
    Tool("docr-repository-manifest-list", HintsRead,
         {"RegistryName", "Repository"}, DOCRRepositoryManifestList),
    Tool("docr-repository-manifest-delete", HintsDelete,
         {"Digest", "RegistryName", "Repository"},
           DOCRRepositoryManifestDelete) }
-----------------------------------------------------------------------------
(* pkg/registry/docr/subscription_tools.go                                 *)

DOCRSubscriptionGet == Reads
DOCRSubscriptionUpdate == Demands({"TierSlug"}, Sets)

SubscriptionTools == {
    Tool("docr-subscription-get", HintsRead, {}, DOCRSubscriptionGet),
    Tool("docr-subscription-update", HintsToggle,
         {"TierSlug"}, DOCRSubscriptionUpdate) }
-----------------------------------------------------------------------------
(* pkg/registry/functions/action_tools.go                                  *)

FunctionsListActions ==
    ClientErrorIsResult(Demands({"NamespaceID"}, WithKey(Reads)))
FunctionsGetAction ==
    ClientErrorIsResult(Demands({"ActionName", "NamespaceID"}, WithKey(Reads)))
FunctionsCreateOrUpdateAction ==
    ClientErrorIsResult(Demands({"ActionName", "NamespaceID"}, WithKey(Sets)))
FunctionsDeleteAction ==
    ClientErrorIsResult(Demands({"ActionName", "NamespaceID"}, WithKey(
      Unnames)))
FunctionsInvokeAction ==
    ClientErrorIsResult(Demands({"ActionName", "NamespaceID"}, WithKey(Starts)))

ActionTools == {
    Tool("functions-list-actions", HintsRead,
         {"NamespaceID"}, FunctionsListActions),
    Tool("functions-get-action", HintsRead,
         {"ActionName", "NamespaceID"}, FunctionsGetAction),
    Tool("functions-create-or-update-action", HintsToggle,
         {"ActionName", "NamespaceID"}, FunctionsCreateOrUpdateAction),
    Tool("functions-delete-action", HintsDelete,
         {"ActionName", "NamespaceID"}, FunctionsDeleteAction),
    Tool("functions-invoke-action", HintsAction,
         {"ActionName", "NamespaceID"}, FunctionsInvokeAction) }
-----------------------------------------------------------------------------
(* pkg/registry/functions/activation_tools.go                              *)

FunctionsListActivations ==
    ClientErrorIsResult(Demands({"NamespaceID"}, WithKey(Reads)))
FunctionsGetActivation ==
    ClientErrorIsResult(Demands({"ActivationID", "NamespaceID"}, WithKey(
      Reads)))
FunctionsGetActivationLogs ==
    ClientErrorIsResult(Demands({"ActivationID", "NamespaceID"}, WithKey(
      Reads)))
FunctionsGetActivationResult ==
    ClientErrorIsResult(Demands({"ActivationID", "NamespaceID"}, WithKey(
      Reads)))

ActivationTools == {
    Tool("functions-list-activations", HintsRead,
         {"NamespaceID"}, FunctionsListActivations),
    Tool("functions-get-activation", HintsRead,
         {"ActivationID", "NamespaceID"}, FunctionsGetActivation),
    Tool("functions-get-activation-logs", HintsRead,
         {"ActivationID", "NamespaceID"}, FunctionsGetActivationLogs),
    Tool("functions-get-activation-result", HintsRead,
         {"ActivationID", "NamespaceID"}, FunctionsGetActivationResult) }
-----------------------------------------------------------------------------
(* pkg/registry/functions/deployment_guide_tool.go                         *)

FunctionsDeploymentGuide == NoClient(Nothing)

DeploymentGuideTools == {
    Tool("functions-deployment-guide", HintsRead, {}, FunctionsDeploymentGuide) }
-----------------------------------------------------------------------------
(* pkg/registry/functions/namespace_tools.go                               *)

FunctionsListNamespaces == Reads
FunctionsGetNamespace == Demands({"NamespaceID"}, Reads)
FunctionsCreateNamespace == Demands({"Label", "Region"}, Creates)
FunctionsDeleteNamespace == Demands({"NamespaceID"}, Deletes)
FunctionsListAccessKeys == Demands({"NamespaceID"}, Reads)
FunctionsCreateAccessKey == Demands({"Name", "NamespaceID"}, Creates)
FunctionsDeleteAccessKey == Demands({"KeyID", "NamespaceID"}, Deletes)

NamespaceTools == {
    Tool("functions-list-namespaces", HintsRead, {}, FunctionsListNamespaces),
    Tool("functions-get-namespace", HintsRead,
         {"NamespaceID"}, FunctionsGetNamespace),
    Tool("functions-create-namespace", HintsCreate,
         {"Label", "Region"}, FunctionsCreateNamespace),
    Tool("functions-delete-namespace", HintsDelete,
         {"NamespaceID"}, FunctionsDeleteNamespace),
    Tool("functions-list-access-keys", HintsRead,
         {"NamespaceID"}, FunctionsListAccessKeys),
    Tool("functions-create-access-key", HintsCreate,
         {"Name", "NamespaceID"}, FunctionsCreateAccessKey),
    Tool("functions-delete-access-key", HintsDelete,
         {"KeyID", "NamespaceID"}, FunctionsDeleteAccessKey) }
-----------------------------------------------------------------------------
(* pkg/registry/functions/package_tools.go                                 *)

FunctionsListPackages ==
    ClientErrorIsResult(Demands({"NamespaceID"}, WithKey(Reads)))
FunctionsGetPackage ==
    ClientErrorIsResult(Demands({"NamespaceID", "PackageName"}, WithKey(Reads)))
FunctionsCreateOrUpdatePackage ==
    ClientErrorIsResult(Demands({"NamespaceID", "PackageName"}, WithKey(Sets)))
FunctionsDeletePackage ==
    ClientErrorIsResult(Demands({"NamespaceID", "PackageName"}, WithKey(
      Unnames)))

PackageTools == {
    Tool("functions-list-packages", HintsRead,
         {"NamespaceID"}, FunctionsListPackages),
    Tool("functions-get-package", HintsRead,
         {"NamespaceID", "PackageName"}, FunctionsGetPackage),
    Tool("functions-create-or-update-package", HintsToggle,
         {"NamespaceID", "PackageName"}, FunctionsCreateOrUpdatePackage),
    Tool("functions-delete-package", HintsDelete,
         {"NamespaceID", "PackageName"}, FunctionsDeletePackage) }
-----------------------------------------------------------------------------
(* pkg/registry/functions/trigger_tools.go                                 *)

FunctionsListTriggers == Demands({"NamespaceID"}, Reads)
FunctionsGetTrigger == Demands({"NamespaceID", "TriggerName"}, Reads)
FunctionsCreateTrigger ==
    Demands({"Cron", "Function", "Name", "NamespaceID"}, Creates)
FunctionsUpdateTrigger == Demands({"NamespaceID", "TriggerName"}, Sets)
FunctionsDeleteTrigger == Demands({"NamespaceID", "TriggerName"}, Unnames)

TriggerTools == {
    Tool("functions-list-triggers", HintsRead,
         {"NamespaceID"}, FunctionsListTriggers),
    Tool("functions-get-trigger", HintsRead,
         {"NamespaceID", "TriggerName"}, FunctionsGetTrigger),
    Tool("functions-create-trigger", HintsCreate,
         {"Cron", "Function", "Name", "NamespaceID"}, FunctionsCreateTrigger),
    Tool("functions-update-trigger", HintsToggle,
         {"NamespaceID", "TriggerName"}, FunctionsUpdateTrigger),
    Tool("functions-delete-trigger", HintsDelete,
         {"NamespaceID", "TriggerName"}, FunctionsDeleteTrigger) }
-----------------------------------------------------------------------------
(* pkg/registry/marketplace/1-click_tools.go                               *)

MarketplaceOneClickList == Reads
MarketplaceOneClickKubernetesAppInstall ==
    Demands({"AppSlugs", "ClusterUUID"}, Creates)

OneClickTools == {
    Tool("marketplace-1-click-list", HintsRead, {}, MarketplaceOneClickList),
    Tool("marketplace-1-click-kubernetes-app-install", HintsCreate,
         {"AppSlugs", "ClusterUUID"}, MarketplaceOneClickKubernetesAppInstall) }
-----------------------------------------------------------------------------
(* pkg/registry/microdroplet/microdroplet_tools.go                         *)

MicrovmCreate == Demands({"name", "source"}, Checks({"size"}, Creates))
MicrovmList == Reads
MicrovmGet == Demands({"id"}, Reads)
MicrovmDelete == Demands({"id"}, Deletes)
MicrovmPause == Demands({"id"}, Sets)
MicrovmResume == Demands({"id"}, Sets)
MicrovmExec == Demands({"argv", "id"}, Starts)
MicrovmFileWrite ==
    Demands({"id", "path"}, Checks({"content", "encoding", "uid"}, Sets))
MicrovmFileRead == Demands({"id", "path"}, Checks({"encoding"}, Reads))
MicrovmCheckpointCreate == Demands({"id"}, Creates)
MicrovmCheckpointList == Reads
MicrovmCheckpointGet == Demands({"id"}, Reads)
MicrovmCheckpointDelete == Demands({"id"}, Deletes)

MicroDropletTools == {
    Tool("microvm-create", HintsCreate, {"name", "source"}, MicrovmCreate),
    Tool("microvm-list", HintsRead, {}, MicrovmList),
    Tool("microvm-get", HintsRead, {"id"}, MicrovmGet),
    Tool("microvm-delete", HintsDelete, {"id"}, MicrovmDelete),
    Tool("microvm-pause", HintsToggle, {"id"}, MicrovmPause),
    Tool("microvm-resume", HintsToggle, {"id"}, MicrovmResume),
    Tool("microvm-exec", HintsAction, {"argv", "id"}, MicrovmExec),
    Tool("microvm-file-write", HintsReplace,
         {"content", "id", "path"}, MicrovmFileWrite),
    Tool("microvm-file-read", HintsRead, {"id", "path"}, MicrovmFileRead),
    Tool("microvm-checkpoint-create", HintsCreate,
         {"id"}, MicrovmCheckpointCreate),
    Tool("microvm-checkpoint-list", HintsRead, {}, MicrovmCheckpointList),
    Tool("microvm-checkpoint-get", HintsRead, {"id"}, MicrovmCheckpointGet),
    Tool("microvm-checkpoint-delete", HintsDelete,
         {"id"}, MicrovmCheckpointDelete) }
=============================================================================
