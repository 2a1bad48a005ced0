--------------------------- MODULE CatalogHarness ---------------------------
(***************************************************************************)
(* The tools of the harness runtime and its signals: what each handler     *)
(* asks of its arguments and which requests it sends to the DigitalOcean   *)
(* API (first the handlers, in the vocabulary of ToolContract, then what   *)
(* Tools() registers: the name, the hints, the arguments the schema        *)
(* requires, the handler).                                                 *)
(***************************************************************************)
EXTENDS ToolContract
-----------------------------------------------------------------------------
(* pkg/registry/harness-runtime/agent_config_tools.go                      *)

HarnessRuntimeListAgentConfigs ==
    ClientFirst(Checks({"PageSize", "Search"}, Reads))
HarnessRuntimeGetAgentConfig == ClientFirst(Demands({"ConfigID"}, Reads))
HarnessRuntimeCreateAgentConfig ==
    ClientFirst(Demands({"Manifest", "Name"}, Creates))
HarnessRuntimeDeleteAgentConfig == ClientFirst(Demands({"ConfigID"}, Deletes))
HarnessRuntimeListConfigSessions ==
    ClientFirst(Demands({"ConfigID"}, Checks({"PageSize"}, Reads)))

HarnessAgentConfigTools == {
    Tool("harness-runtime-list-agent-configs", HintsRead,
         {}, HarnessRuntimeListAgentConfigs),
    Tool("harness-runtime-get-agent-config", HintsRead,
         {"ConfigID"}, HarnessRuntimeGetAgentConfig),
    Tool("harness-runtime-create-agent-config", HintsCreate,
         {"Manifest", "Name"}, HarnessRuntimeCreateAgentConfig),
    Tool("harness-runtime-delete-agent-config", HintsDelete,
         {"ConfigID"}, HarnessRuntimeDeleteAgentConfig),
    Tool("harness-runtime-list-config-sessions", HintsRead,
         {"ConfigID"}, HarnessRuntimeListConfigSessions) }
-----------------------------------------------------------------------------
(* pkg/registry/harness-runtime/checkpoint_tools.go                        *)

HarnessRuntimeListCheckpoints ==
    ClientFirst(Demands({"SessionID"}, Checks({"PageSize"}, Reads)))
HarnessRuntimeGetCheckpoint ==
    ClientFirst(Demands({"CheckpointID", "SessionID"}, Reads))
HarnessRuntimeCreateCheckpoint == ClientFirst(Demands({"SessionID"}, Creates))
HarnessRuntimeDeleteCheckpoint ==
    ClientFirst(Demands({"CheckpointID", "SessionID"}, Deletes))
HarnessRuntimeRollbackCheckpoint ==
    ClientFirst(Demands({"CheckpointID", "SessionID"}, Restores))

HarnessCheckpointTools == {
    Tool("harness-runtime-list-checkpoints", HintsRead,
         {"SessionID"}, HarnessRuntimeListCheckpoints),
    Tool("harness-runtime-get-checkpoint", HintsRead,
         {"CheckpointID", "SessionID"}, HarnessRuntimeGetCheckpoint),
    Tool("harness-runtime-create-checkpoint", HintsCreate,
         {"SessionID"}, HarnessRuntimeCreateCheckpoint),
    Tool("harness-runtime-delete-checkpoint", HintsDelete,
         {"CheckpointID", "SessionID"}, HarnessRuntimeDeleteCheckpoint),
    Tool("harness-runtime-rollback-checkpoint", HintsDelete,
         {"CheckpointID", "SessionID"}, HarnessRuntimeRollbackCheckpoint) }
-----------------------------------------------------------------------------
(* pkg/registry/harness-runtime/connection_tools.go                        *)

HarnessRuntimeListConnections ==
    ClientFirst(Demands({"Provider"}, Checks({"Page", "PerPage"}, Reads)))
HarnessRuntimeCreateConnection ==
    ClientFirst(Demands({"ActorID", "Provider"}, Checks({"Scopes"}, Creates)))
HarnessRuntimeGetConnection ==
    ClientFirst(Demands({"ConnectionID", "Provider"}, Reads))
HarnessRuntimeDeleteConnection ==
    ClientFirst(Demands({"ConnectionID", "Provider"}, Deletes))
HarnessRuntimeStartProviderAuth == ClientFirst(Demands({"Provider"}, Creates))
HarnessRuntimePollProviderAuth ==
    ClientFirst(Demands({"PollURL", "Provider"}, Reads))
HarnessRuntimeListWebhookProviders == Reads

HarnessConnectionTools == {
    Tool("harness-runtime-list-connections", HintsRead,
         {"Provider"}, HarnessRuntimeListConnections),
    Tool("harness-runtime-create-connection", HintsCreate,
         {"ActorID", "Provider"}, HarnessRuntimeCreateConnection),
    Tool("harness-runtime-get-connection", HintsRead,
         {"ConnectionID", "Provider"}, HarnessRuntimeGetConnection),
    Tool("harness-runtime-delete-connection", HintsDelete,
         {"ConnectionID", "Provider"}, HarnessRuntimeDeleteConnection),
    Tool("harness-runtime-start-provider-auth", HintsCreate,
         {"Provider"}, HarnessRuntimeStartProviderAuth),
    Tool("harness-runtime-poll-provider-auth", HintsRead,
         {"PollURL", "Provider"}, HarnessRuntimePollProviderAuth),
    Tool("harness-runtime-list-webhook-providers", HintsRead,
         {}, HarnessRuntimeListWebhookProviders) }
-----------------------------------------------------------------------------
(* pkg/registry/harness-runtime/sandbox_tools.go                           *)

HarnessRuntimeListSandboxSizes == Reads
HarnessRuntimeValidatePolicy == ClientFirst(Demands({"Manifest"}, Reads))

HarnessSandboxTools == {
    Tool("harness-runtime-list-sandbox-sizes", HintsRead,
         {}, HarnessRuntimeListSandboxSizes),
    Tool("harness-runtime-validate-policy", HintsRead,
         {"Manifest"}, HarnessRuntimeValidatePolicy) }
-----------------------------------------------------------------------------
(* pkg/registry/harness-runtime/session_tools.go                           *)

HarnessRuntimeCreateSession ==
    ClientFirst(Demands({"ConfigID", "Name"}, Creates))
HarnessRuntimeGetSession == ClientFirst(Demands({"SessionID"}, Reads))
HarnessRuntimeListSessions == ClientFirst(Checks({"PageSize"}, Reads))
HarnessRuntimeDestroySession == ClientFirst(Demands({"SessionID"}, Deletes))
HarnessRuntimeSendInput ==
    ClientFirst(Demands({"SessionID"}, SomeOf({"Inputs", "Text"}, Starts)))
HarnessRuntimePauseSession == ClientFirst(Demands({"SessionID"}, Starts))
HarnessRuntimeResumeSession == ClientFirst(Demands({"SessionID"}, Starts))
HarnessRuntimePatchSession ==
    ClientFirst(Demands({"ResumeOnTopoff", "SessionID"}, Sets))
HarnessRuntimeResolveHITL ==
    ClientFirst(Demands({"Outcome", "RequestID", "SessionID"}, Starts))
HarnessRuntimeForkSession ==
    ClientFirst(Demands({"SessionID"}, Checks({"Count"}, Creates)))
HarnessRuntimeExecInSandbox ==
    ClientFirst(Demands({"Argv", "SessionID"}, Starts))
HarnessRuntimeGetIngressURL == ClientFirst(Demands({"SessionID"}, Reads))
HarnessRuntimeCancelTurn == ClientFirst(Demands({"SessionID"}, Starts))

HarnessSessionTools == {
    Tool("harness-runtime-create-session", HintsCreate,
         {"ConfigID", "Name"}, HarnessRuntimeCreateSession),
    Tool("harness-runtime-get-session", HintsRead,
         {"SessionID"}, HarnessRuntimeGetSession),
    Tool("harness-runtime-list-sessions", HintsRead,
         {}, HarnessRuntimeListSessions),
    Tool("harness-runtime-destroy-session", HintsDelete,
         {"SessionID"}, HarnessRuntimeDestroySession),
    Tool("harness-runtime-send-input", HintsAction,
         {"SessionID"}, HarnessRuntimeSendInput),
    Tool("harness-runtime-pause-session", HintsAction,
         {"SessionID"}, HarnessRuntimePauseSession),
    Tool("harness-runtime-resume-session", HintsAction,
         {"SessionID"}, HarnessRuntimeResumeSession),
    Tool("harness-runtime-patch-session", HintsToggle,
         {"ResumeOnTopoff", "SessionID"}, HarnessRuntimePatchSession),
    Tool("harness-runtime-resolve-hitl", HintsAction,
         {"Outcome", "RequestID", "SessionID"}, HarnessRuntimeResolveHITL),
    Tool("harness-runtime-fork-session", HintsCreate,
         {"SessionID"}, HarnessRuntimeForkSession),
    Tool("harness-runtime-exec-in-sandbox", HintsAction,
         {"Argv", "SessionID"}, HarnessRuntimeExecInSandbox),
    Tool("harness-runtime-get-ingress-url", HintsRead,
         {"SessionID"}, HarnessRuntimeGetIngressURL),
    Tool("harness-runtime-cancel-turn", HintsAction,
         {"SessionID"}, HarnessRuntimeCancelTurn) }
-----------------------------------------------------------------------------
(* pkg/registry/harness-runtime/template_tools.go                          *)

HarnessRuntimeListTemplates == ClientFirst(Checks({"PageSize"}, Reads))
HarnessRuntimeGetTemplate == ClientFirst(Demands({"TemplateID"}, Reads))
HarnessRuntimeCreateTemplate ==
    ClientFirst(Demands({"BaseTemplate", "Name", "SourceOCIRef"}, Creates))
HarnessRuntimeUpdateTemplate ==
    ClientFirst(Demands({"TemplateID"},
      SomeOf({"BaseTemplate", "SourceOCIRef"}, Sets)))
HarnessRuntimeDeleteTemplate == ClientFirst(Demands({"TemplateID"}, Deletes))
HarnessRuntimeListTemplateBuilds ==
    ClientFirst(Demands({"TemplateID"}, Checks({"PageSize"}, Reads)))
HarnessRuntimeGetTemplateBuild ==
    ClientFirst(Demands({"BuildID", "TemplateID"}, Reads))

HarnessTemplateTools == {
    Tool("harness-runtime-list-templates", HintsRead,
         {}, HarnessRuntimeListTemplates),
    Tool("harness-runtime-get-template", HintsRead,
         {"TemplateID"}, HarnessRuntimeGetTemplate),
    Tool("harness-runtime-create-template", HintsCreate,
         {"BaseTemplate", "Name", "SourceOCIRef"},
           HarnessRuntimeCreateTemplate),
    Tool("harness-runtime-update-template", HintsToggle,
         {"TemplateID"}, HarnessRuntimeUpdateTemplate),
    Tool("harness-runtime-delete-template", HintsDelete,
         {"TemplateID"}, HarnessRuntimeDeleteTemplate),
    Tool("harness-runtime-list-template-builds", HintsRead,
         {"TemplateID"}, HarnessRuntimeListTemplateBuilds),
    Tool("harness-runtime-get-template-build", HintsRead,
         {"BuildID", "TemplateID"}, HarnessRuntimeGetTemplateBuild) }
-----------------------------------------------------------------------------
(* pkg/registry/harness-runtime/trigger_tools.go                           *)

HarnessRuntimeListTriggers == ClientFirst(Checks({"PageSize"}, Reads))
HarnessRuntimeCreateTrigger ==
    ClientFirst(Demands({"Kind", "Name", "PromptTemplate", "SessionMode"},
      Checks({"OutputMode"}, SomeOf({"BoundSessionID", "SessionTemplate"},
      Creates))))
HarnessRuntimeGetTrigger == ClientFirst(Demands({"TriggerID"}, Reads))
HarnessRuntimeUpdateTrigger ==
    ClientFirst(Demands({"TriggerID"}, Checks({"BoundSessionID"}, SomeOf({
      "BoundSessionID", "CronExpr", "Email", "Name", "OutputMode",
      "PromptTemplate", "SessionMode", "SessionTemplate", "SlackWebhookURL",
      "Timezone"}, Sets))))
HarnessRuntimeDeleteTrigger == ClientFirst(Demands({"TriggerID"}, Deletes))
HarnessRuntimePauseTrigger == Demands({"TriggerID"}, Sets)
HarnessRuntimeResumeTrigger == Demands({"TriggerID"}, Sets)
HarnessRuntimeRotateTriggerSecret ==
    ClientFirst(Demands({"TriggerID"}, Starts))
HarnessRuntimeListTriggerExecutions ==
    ClientFirst(Demands({"TriggerID"}, Checks({"PageSize"}, Reads)))
HarnessRuntimeGetTriggerExecution ==
    ClientFirst(Demands({"ExecutionID", "TriggerID"}, Reads))
HarnessRuntimeCancelExecution ==
    ClientFirst(Demands({"ExecutionID", "TriggerID"}, Starts))
HarnessRuntimeGetTriggerBySession == ClientFirst(Demands({"SessionID"}, Reads))
HarnessRuntimeListReusableSessions == ClientFirst(Checks({"PageSize"}, Reads))

HarnessTriggerTools == {
    Tool("harness-runtime-list-triggers", HintsRead,
         {}, HarnessRuntimeListTriggers),
    Tool("harness-runtime-create-trigger", HintsCreate,
         {"Kind", "Name", "PromptTemplate", "SessionMode"},
           HarnessRuntimeCreateTrigger),
    Tool("harness-runtime-get-trigger", HintsRead,
         {"TriggerID"}, HarnessRuntimeGetTrigger),
    Tool("harness-runtime-update-trigger", HintsToggle,
         {"TriggerID"}, HarnessRuntimeUpdateTrigger),
    Tool("harness-runtime-delete-trigger", HintsDelete,
         {"TriggerID"}, HarnessRuntimeDeleteTrigger),
    Tool("harness-runtime-pause-trigger", HintsAction,
         {"TriggerID"}, HarnessRuntimePauseTrigger),
    Tool("harness-runtime-resume-trigger", HintsAction,
         {"TriggerID"}, HarnessRuntimeResumeTrigger),
    Tool("harness-runtime-rotate-trigger-secret", HintsAction,
         {"TriggerID"}, HarnessRuntimeRotateTriggerSecret),
    Tool("harness-runtime-list-trigger-executions", HintsRead,
         {"TriggerID"}, HarnessRuntimeListTriggerExecutions),
    Tool("harness-runtime-get-trigger-execution", HintsRead,
         {"ExecutionID", "TriggerID"}, HarnessRuntimeGetTriggerExecution),
    Tool("harness-runtime-cancel-execution", HintsAction,
         {"ExecutionID", "TriggerID"}, HarnessRuntimeCancelExecution),
    Tool("harness-runtime-get-trigger-by-session", HintsRead,
         {"SessionID"}, HarnessRuntimeGetTriggerBySession),
    Tool("harness-runtime-list-reusable-sessions", HintsRead,
         {}, HarnessRuntimeListReusableSessions) }
-----------------------------------------------------------------------------
(* pkg/registry/harness-runtime/workspace_tools.go                         *)

HarnessRuntimeCreateWorkspace ==
    ClientFirst(Demands({"SizeGibibytes"}, Creates))
HarnessRuntimeListWorkspaces == ClientFirst(Checks({"PageSize"}, Reads))
HarnessRuntimeGetWorkspace == ClientFirst(Demands({"WorkspaceID"}, Reads))
HarnessRuntimeDeleteWorkspace == ClientFirst(Demands({"WorkspaceID"}, Deletes))
HarnessRuntimeCreateWorkspaceTransfer ==
    ClientFirst(Demands({"Direction", "Path", "SessionID"}, Creates))
HarnessRuntimeGetWorkspaceTransfer ==
    ClientFirst(Demands({"SessionID", "TransferID"}, Reads))
HarnessRuntimeCancelWorkspaceTransfer ==
    ClientFirst(Demands({"SessionID", "TransferID"}, Starts))
HarnessRuntimeCommitWorkspaceUpload ==
    ClientFirst(Demands({"SessionID", "TransferID"}, Starts))
HarnessRuntimeCreateWorkspacePartURLs ==
    ClientFirst(Demands({"PartNumbers", "SessionID", "TransferID"}, Creates))

HarnessWorkspaceTools == {
    Tool("harness-runtime-create-workspace", HintsCreate,
         {"SizeGibibytes"}, HarnessRuntimeCreateWorkspace),
    Tool("harness-runtime-list-workspaces", HintsRead,
         {}, HarnessRuntimeListWorkspaces),
    Tool("harness-runtime-get-workspace", HintsRead,
         {"WorkspaceID"}, HarnessRuntimeGetWorkspace),
    Tool("harness-runtime-delete-workspace", HintsDelete,
         {"WorkspaceID"}, HarnessRuntimeDeleteWorkspace),
    Tool("harness-runtime-create-workspace-transfer", HintsCreate,
         {"Direction", "Path", "SessionID"},
           HarnessRuntimeCreateWorkspaceTransfer),
    Tool("harness-runtime-get-workspace-transfer", HintsRead,
         {"SessionID", "TransferID"}, HarnessRuntimeGetWorkspaceTransfer),
    Tool("harness-runtime-cancel-workspace-transfer", HintsAction,
         {"SessionID", "TransferID"}, HarnessRuntimeCancelWorkspaceTransfer),
    Tool("harness-runtime-commit-workspace-upload", HintsAction,
         {"SessionID", "TransferID"}, HarnessRuntimeCommitWorkspaceUpload),
    Tool("harness-runtime-create-workspace-part-urls", HintsCreate,
         {"PartNumbers", "SessionID", "TransferID"},
           HarnessRuntimeCreateWorkspacePartURLs) }
-----------------------------------------------------------------------------
(* pkg/registry/signals/signals_tools.go                                   *)

SignalsListConsents == Reads
SignalsGetAgentConsent ==
    ClientFirst(SomeOf({"AgentID", "EnvironmentID"}, Reads))
SignalsSetAgentConsent ==
    ClientFirst(Demands({"Enabled"}, SomeOf({"AgentID", "EnvironmentID"},
      Sets)))
SignalsGetInferenceConsent == Reads
SignalsSetInferenceConsent == ClientFirst(Demands({"Enabled"}, Sets))
SignalsListAgentSessions ==
    ClientFirst(SomeOf({"AgentID", "EnvironmentID"}, Reads))
SignalsListSessionDialogues == ClientFirst(Demands({"SessionID"}, Reads))
SignalsCreateExport ==
    ClientFirst(SomeOf({"AgentID", "EnvironmentID"}, Creates))
SignalsListExports == Reads
SignalsGetExport == ClientFirst(Demands({"ExportID"}, Reads))
SignalsGetExportDownload == ClientFirst(Demands({"ExportID"}, Reads))
SignalsGetExportOptions == Reads

SignalsTools == {
    Tool("signals-list-consents", HintsRead, {}, SignalsListConsents),
    Tool("signals-get-agent-consent", HintsRead, {}, SignalsGetAgentConsent),
    Tool("signals-set-agent-consent", HintsToggle,
         {"Enabled"}, SignalsSetAgentConsent),
    Tool("signals-get-inference-consent", HintsRead,
         {}, SignalsGetInferenceConsent),
    Tool("signals-set-inference-consent", HintsToggle,
         {"Enabled"}, SignalsSetInferenceConsent),
    Tool("signals-list-agent-sessions", HintsRead,
         {}, SignalsListAgentSessions),
    Tool("signals-list-session-dialogues", HintsRead,
         {"SessionID"}, SignalsListSessionDialogues),
    Tool("signals-create-export", HintsCreate, {}, SignalsCreateExport),
    Tool("signals-list-exports", HintsRead, {}, SignalsListExports),
    Tool("signals-get-export", HintsRead, {"ExportID"}, SignalsGetExport),
    Tool("signals-get-export-download", HintsRead,
         {"ExportID"}, SignalsGetExportDownload),
    Tool("signals-get-export-options", HintsRead, {}, SignalsGetExportOptions) }
=============================================================================
