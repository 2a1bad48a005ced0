---------------------------- MODULE ToolRegistry ----------------------------
(***************************************************************************)
(* Which tools a server offers, and which command lines main starts a      *)
(* server for (pkg/registry/registry.go, cmd/mcp-digitalocean/main.go).    *)
(***************************************************************************)
EXTENDS CatalogAccount, CatalogDatabases, CatalogDroplets, CatalogGenAI,
        CatalogHarness, CatalogInsights, CatalogNetworking, CatalogPlatform,
        CatalogStorage

-----------------------------------------------------------------------------
(* One definition per register function.                                   *)

RegisterApp                == AppPlatformTools
RegisterCommon             == RegionTools
RegisterDroplet            == DropletTools \union DropletActionsTools
                                \union ImageTools \union ImageActionsTools
                                \union SizesTools
RegisterNetworking         == CertificateTools \union DomainsTools
                                \union FirewallTools \union LoadBalancersTools
                                \union ReservedIPTools \union BYOIPPrefixTools
                                \union VPCTools \union VPCPeeringTools
RegisterAccount            == AccountTools \union AccountActionTools
                                \union BalanceTools \union BillingTools
                                \union InvoiceTools \union SSHKeysTools
RegisterSpaces             == SpacesKeysTools \union CDNTools
RegisterMarketplace        == OneClickTools
RegisterDedicatedInference == DedicatedInferenceTools
RegisterModelCatalog       == ModelTools
RegisterGenAIEvaluation    == EvaluationTools \union ModelEvaluationTools
                                \union SimulationTools
RegisterCustomModels       == CustomModelsTools
RegisterBatchInference     == BatchInferenceTools
RegisterInferenceRouter    == RouterTools
RegisterInsights           == AlertRuleTools \union NotificationChannelTools
                                \union AlertInstanceTools \union ResourceTools
                                \union DashboardTools \union QueryTools
                                \union UptimeTools \union UptimeCheckAlertTools
                                \union AlertPolicyTools
RegisterDOKS               == DoksTools
RegisterDocs               == DocsTools
RegisterDOCR               == RegistryTools \union RepositoryTools
                                \union GarbageCollectionTools
                                \union SubscriptionTools
RegisterFunctions          == NamespaceTools \union TriggerTools
                                \union ActionTools \union PackageTools
                                \union ActivationTools
                                \union DeploymentGuideTools
RegisterDatabases          == ClusterTools \union DBFirewallTools
                                \union KafkaTools \union MongoTools
                                \union MysqlTools \union OpenSearchTools
                                \union PostgreSQLTools \union RedisTools
                                \union UserTools
RegisterVolumes            == VolumeTools \union VolumeActionsTools
RegisterNfs                == NfsTools \union NfsActionsTools
RegisterVectorDB           == VectorDBTools
RegisterSignals            == SignalsTools
RegisterHarnessRuntime     == HarnessAgentConfigTools
                                \union HarnessCheckpointTools
                                \union HarnessConnectionTools
                                \union HarnessSandboxTools
                                \union HarnessSessionTools
                                \union HarnessTemplateTools
                                \union HarnessTriggerTools
                                \union HarnessWorkspaceTools
RegisterMicroDroplet       == MicroDropletTools

-----------------------------------------------------------------------------
(* Register.                                                               *)

supportedServices ==
    {"apps", "networking", "droplets", "accounts", "spaces", "databases",
     "marketplace", "dedicated-inference", "inference-modelcatalog",
     "genai-evaluation", "genai-custom-models", "genai-batchinference",
     "genai-inferencerouter", "insights", "doks", "docr", "docs", "volumes",
     "functions", "nfs", "vector-databases", "signals", "harness-runtime",
     "microvms"}

ToolsOf(service) ==
    CASE service = "apps"                   -> RegisterApp
      [] service = "networking"             -> RegisterNetworking
      [] service = "droplets"               -> RegisterDroplet
      [] service = "accounts"               -> RegisterAccount
      [] service = "spaces"                 -> RegisterSpaces
      [] service = "databases"              -> RegisterDatabases
      [] service = "marketplace"            -> RegisterMarketplace
      [] service = "dedicated-inference"    -> RegisterDedicatedInference
      [] service = "inference-modelcatalog" -> RegisterModelCatalog
      [] service = "genai-evaluation"       -> RegisterGenAIEvaluation
      [] service = "genai-custom-models"    -> RegisterCustomModels
      [] service = "genai-batchinference"   -> RegisterBatchInference
      [] service = "genai-inferencerouter"  -> RegisterInferenceRouter
      [] service = "insights"               -> RegisterInsights
      [] service = "doks"                   -> RegisterDOKS
      [] service = "docr"                   -> RegisterDOCR
      [] service = "docs"                   -> RegisterDocs
      [] service = "volumes"                -> RegisterVolumes
      [] service = "functions"              -> RegisterFunctions
      [] service = "nfs"                    -> RegisterNfs
      [] service = "vector-databases"       -> RegisterVectorDB
      [] service = "signals"                -> RegisterSignals
      [] service = "harness-runtime"        -> RegisterHarnessRuntime
      [] service = "microvms"               -> RegisterMicroDroplet

\* The services the server activates, and the tools it then has: those of each
\* service and the common ones.  No service named stands for all of them.
Activated(services) == IF services = {} THEN supportedServices ELSE services

Register(services) ==
    UNION {ToolsOf(s) : s \in Activated(services)} \union RegisterCommon

-----------------------------------------------------------------------------
(* main.                                                                   *)

Transports == {"stdio", "http"}

\* A command line: transport, services, whether an API token is given, and
\* the flags --allow-anonymous and --docs-search-api.
CommandLine(transport, services, token, anonymous, docsSearch) ==
    [transport |-> transport, services |-> services, token |-> token,
     anonymous |-> anonymous, docsSearch |-> docsSearch]

publicContentServices == {"docs"}

checkAnonymousServices(services) ==
    services # {} /\ services \subseteq publicContentServices

\* Whether main gets as far as serving (it exits with status 1 otherwise).
Serves(cl) ==
    /\ cl.transport = "stdio" => cl.token
    /\ cl.anonymous /\ cl.transport # "stdio" => checkAnonymousServices(cl.services)
    /\ cl.docsSearch => cl.transport # "stdio" /\ cl.anonymous
    /\ Activated(cl.services) \subseteq supportedServices

\* Whether requests without a bearer token are answered with a challenge.
Guarded(cl) == cl.transport # "stdio" /\ ~cl.anonymous
=============================================================================
