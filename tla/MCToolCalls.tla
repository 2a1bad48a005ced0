---------------------------- MODULE MCToolCalls ----------------------------
(***************************************************************************)
(* ToolCalls for TLC, with the tools of the registry: all of them on a     *)
(* server that is started for every service, those for documentation on    *)
(* an anonymous one.                                                       *)
(***************************************************************************)
EXTENDS ToolCalls, ToolRegistry

MCOffer == Register({})

\* Tools have names of their own: mcp-go would silently replace the first of two.
ASSUME UniqueNames == Cardinality({t.name : t \in MCOffer}) = Cardinality(MCOffer)

\* Whatever the services of a command line, a server main starts without the
\* guard has the tools of an anonymous one.
ASSUME UnguardedIsPublic ==
    \A services \in {S \in SUBSET supportedServices : Cardinality(S) <= 2},
       token, docsSearch \in BOOLEAN :
       LET cl == CommandLine("http", services, token, TRUE, docsSearch)
       IN  Serves(cl) => Register(services) = Register({"docs"})

MCPublic == Register({"docs"})

\* The hints of these promise too much.  What is deleted by name may by then be
\* something else of that name, and a rollback drops what came after it each time.
MCNotRepeatable ==
    {"db-cluster-delete-topic", "db-cluster-delete-user", "docr-delete",
     "docr-repository-tag-delete", "domain-delete", "functions-delete-action",
     "functions-delete-package", "functions-delete-trigger",
     "harness-runtime-rollback-checkpoint"}

\* The handlers of these ask for more than the schema requires, or for another
\* spelling of it.
MCMisfits ==
    {"apps-create-app-from-spec", "byoip-prefix-create",
     "db-cluster-update-firewall-rules", "dedicated-inference-update",
     "genai-custom-models-delete", "insights-alert-rule-create", "lb-create",
     "lb-update", "uptimecheck-alert-create", "uptimecheck-alert-update"}

\* They are the tools, and all of them, whose schema leaves out what the handler
\* insists on: what theorem SchemasFit asks of the tools of a server.
ASSUME SchemasOfMisfits ==
    \A t \in MCOffer : SchemaIsComplete(t) <=> t.name \notin MCMisfits
=============================================================================
