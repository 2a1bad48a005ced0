-------------------------- MODULE CatalogInsights ---------------------------
(***************************************************************************)
(* The tools of Insights, uptime checks and alert policies: what each      *)
(* handler asks of its arguments and which requests it sends to the        *)
(* DigitalOcean API (first the handlers, in the vocabulary of              *)
(* ToolContract, then what Tools() registers: the name, the hints, the     *)
(* arguments the schema requires, the handler).                            *)
(***************************************************************************)
EXTENDS ToolContract
-----------------------------------------------------------------------------
(* pkg/registry/insights/alert_instance_tools.go                           *)

InsightsAlertInstanceGet == Demands({"ID"}, Reads)
InsightsAlertInstanceList == Reads

AlertInstanceTools == {
    Tool("insights-alert-instance-get", HintsRead,
         {"ID"}, InsightsAlertInstanceGet),
    Tool("insights-alert-instance-list", HintsRead,
         {}, InsightsAlertInstanceList) }
-----------------------------------------------------------------------------
(* pkg/registry/insights/alert_policy_tools.go                             *)

AlertPolicyGet == Demands({"UUID"}, Reads)
AlertPolicyList == Reads
AlertPolicyCreate ==
    Asserts({"Compare", "Description", "Type", "Value", "Window"},
      Brittle({"Alerts"}, Creates))
AlertPolicyUpdate ==
    Demands({"UUID"},
      Asserts({"Compare", "Description", "Type", "Value", "Window"},
      Brittle({"Alerts"}, Sets)))
AlertPolicyDelete == Demands({"UUID"}, Deletes)

AlertPolicyTools == {
    Tool("alert-policy-get", HintsRead, {"UUID"}, AlertPolicyGet),
    Tool("alert-policy-list", HintsRead, {}, AlertPolicyList),
    Tool("alert-policy-create", HintsCreate,
         {"Compare", "Description", "Type", "Value", "Window"},
           AlertPolicyCreate),
    Tool("alert-policy-update", HintsToggle,
         {"Compare", "Description", "Type", "UUID", "Value", "Window"},
           AlertPolicyUpdate),
    Tool("alert-policy-delete", HintsDelete, {"UUID"}, AlertPolicyDelete) }
-----------------------------------------------------------------------------
(* pkg/registry/insights/alert_rule_tools.go                               *)

InsightsAlertRuleGet == Demands({"ID"}, Reads)
InsightsAlertRuleList == Reads
InsightsAlertRuleCreate ==
    Demands({"Metric", "Name", "NotificationChannels", "Operator"}, Creates)
InsightsAlertRuleUpdate == Demands({"ID", "Metric", "Name", "Operator"}, Sets)
InsightsAlertRuleDelete == Demands({"ID"}, Deletes)

AlertRuleTools == {
    Tool("insights-alert-rule-get", HintsRead, {"ID"}, InsightsAlertRuleGet),
    Tool("insights-alert-rule-list", HintsRead, {}, InsightsAlertRuleList),
    Tool("insights-alert-rule-create", HintsCreate,
         {"Metric", "Name", "Operator"}, InsightsAlertRuleCreate),
    Tool("insights-alert-rule-update", HintsToggle,
         {"ID", "Metric", "Name", "Operator"}, InsightsAlertRuleUpdate),
    Tool("insights-alert-rule-delete", HintsDelete,
         {"ID"}, InsightsAlertRuleDelete) }
-----------------------------------------------------------------------------
(* pkg/registry/insights/dashboard_tools.go                                *)

InsightsDashboardGet == Demands({"UUID"}, Reads)
InsightsDashboardList == Reads
InsightsDashboardCreate == Demands({"Spec"}, Creates)
InsightsDashboardUpdate == Demands({"Spec", "UUID"}, Sets)
InsightsDashboardDelete == Demands({"UUID"}, Deletes)
InsightsDashboardGetSchema == Reads

DashboardTools == {
    Tool("insights-dashboard-get", HintsRead, {"UUID"}, InsightsDashboardGet),
    Tool("insights-dashboard-list", HintsRead, {}, InsightsDashboardList),
    Tool("insights-dashboard-create", HintsCreate,
         {"Spec"}, InsightsDashboardCreate),
    Tool("insights-dashboard-update", HintsOverwrite,
         {"Spec", "UUID"}, InsightsDashboardUpdate),
    Tool("insights-dashboard-delete", HintsDelete,
         {"UUID"}, InsightsDashboardDelete),
    Tool("insights-dashboard-get-schema", HintsRead,
         {}, InsightsDashboardGetSchema) }
-----------------------------------------------------------------------------
(* pkg/registry/insights/notification_channel_tools.go                     *)

InsightsNotificationChannelGet == Demands({"ID"}, Reads)
InsightsNotificationChannelList == Reads
InsightsNotificationChannelCreate ==
    Demands({"Name"}, SomeOf({"EmailTo", "SlackChannel", "WebhookURL"},
      Creates))
InsightsNotificationChannelUpdate == Demands({"ID", "Name"}, Sets)
InsightsNotificationChannelDelete == Demands({"ID"}, Deletes)

NotificationChannelTools == {
    Tool("insights-notification-channel-get", HintsRead,
         {"ID"}, InsightsNotificationChannelGet),
    Tool("insights-notification-channel-list", HintsRead,
         {}, InsightsNotificationChannelList),
    Tool("insights-notification-channel-create", HintsCreate,
         {"Name"}, InsightsNotificationChannelCreate),
    Tool("insights-notification-channel-update", HintsToggle,
         {"ID", "Name"}, InsightsNotificationChannelUpdate),
    Tool("insights-notification-channel-delete", HintsDelete,
         {"ID"}, InsightsNotificationChannelDelete) }
-----------------------------------------------------------------------------
(* pkg/registry/insights/query_tools.go                                    *)

InsightsQuery == Demands({"Query", "Region"}, Reads)
InsightsQueryRange ==
    Demands({"End", "Query", "Region", "Start", "Step"}, Reads)
InsightsQuerySeries == Demands({"Region"}, Reads)
InsightsQueryLabels == Demands({"Region"}, Reads)
InsightsQueryLabelValues == Demands({"Label", "Region"}, Reads)
InsightsLogsSearch == Demands({"From", "Region", "To"}, Reads)
InsightsSpansSearch == Demands({"From", "Region", "To"}, Reads)
InsightsTracesSearch == Demands({"From", "Region", "To"}, Reads)
InsightsTraceGet == Demands({"Region", "TraceID"}, Reads)

QueryTools == {
    Tool("insights-query", HintsRead, {"Query", "Region"}, InsightsQuery),
    Tool("insights-query-range", HintsRead,
         {"End", "Query", "Region", "Start", "Step"}, InsightsQueryRange),
    Tool("insights-query-series", HintsRead, {"Region"}, InsightsQuerySeries),
    Tool("insights-query-labels", HintsRead, {"Region"}, InsightsQueryLabels),
    Tool("insights-query-label-values", HintsRead,
         {"Label", "Region"}, InsightsQueryLabelValues),
    Tool("insights-logs-search", HintsRead,
         {"From", "Region", "To"}, InsightsLogsSearch),
    Tool("insights-spans-search", HintsRead,
         {"From", "Region", "To"}, InsightsSpansSearch),
    Tool("insights-traces-search", HintsRead,
         {"From", "Region", "To"}, InsightsTracesSearch),
    Tool("insights-trace-get", HintsRead,
         {"Region", "TraceID"}, InsightsTraceGet) }
-----------------------------------------------------------------------------
(* pkg/registry/insights/resource_tools.go                                 *)

InsightsResourceGet == Demands({"ResourceURN"}, Reads)
InsightsResourceList == Reads
InsightsResourceUpdateSignals ==
    Demands({"ResourceURN"}, SomeOf({"Logs", "Metrics", "Traces"}, Sets))

ResourceTools == {
    Tool("insights-resource-get", HintsRead,
         {"ResourceURN"}, InsightsResourceGet),
    Tool("insights-resource-list", HintsRead, {}, InsightsResourceList),
    Tool("insights-resource-update-signals", HintsToggle,
         {"ResourceURN"}, InsightsResourceUpdateSignals) }
-----------------------------------------------------------------------------
(* pkg/registry/insights/uptime_alert_tools.go                             *)

UptimecheckAlertGet == Demands({"AlertID", "CheckID"}, Reads)
UptimecheckAlertList == Demands({"CheckID"}, Reads)
UptimecheckAlertCreate ==
    Demands({"CheckID"}, Asserts({"Comparison", "Name", "Period", "Type"},
      Checks({"SlackDetails"}, Creates)))
UptimecheckAlertUpdate ==
    Demands({"AlertID", "CheckID"},
      Asserts({"Comparison", "Name", "Period", "Type"},
      Checks({"SlackDetails"}, Sets)))
UptimecheckAlertDelete == Demands({"AlertID", "CheckID"}, Deletes)

UptimeCheckAlertTools == {
    Tool("uptimecheck-alert-get", HintsRead,
         {"AlertID", "CheckID"}, UptimecheckAlertGet),
    Tool("uptimecheck-alert-list", HintsRead,
         {"CheckID"}, UptimecheckAlertList),
    Tool("uptimecheck-alert-create", HintsCreate,
         {"CheckID", "Emails", "Name", "Period", "SlackDetails", "Type"},
           UptimecheckAlertCreate),
    Tool("uptimecheck-alert-update", HintsToggle,

           {"AlertID", "CheckID", "Emails", "Name", "Period", "SlackDetails", "Type"},
           UptimecheckAlertUpdate),
    Tool("uptimecheck-alert-delete", HintsDelete,
         {"AlertID", "CheckID"}, UptimecheckAlertDelete) }
-----------------------------------------------------------------------------
(* pkg/registry/insights/uptime_tools.go                                   *)

UptimecheckGet == Demands({"ID"}, Reads)
UptimecheckGetState == Demands({"ID"}, Reads)
UptimecheckList == Reads
UptimecheckCreate == Asserts({"Enabled", "Name", "Target", "Type"}, Creates)
UptimecheckUpdate ==
    Demands({"ID"}, Asserts({"Enabled", "Name", "Target", "Type"}, Sets))
UptimecheckDelete == Demands({"ID"}, Deletes)

UptimeTools == {
    Tool("uptimecheck-get", HintsRead, {"ID"}, UptimecheckGet),
    Tool("uptimecheck-get-state", HintsRead, {"ID"}, UptimecheckGetState),
    Tool("uptimecheck-list", HintsRead, {}, UptimecheckList),
    Tool("uptimecheck-create", HintsCreate,
         {"Enabled", "Name", "Target", "Type"}, UptimecheckCreate),
    Tool("uptimecheck-update", HintsToggle,
         {"Enabled", "ID", "Name", "Target", "Type"}, UptimecheckUpdate),
    Tool("uptimecheck-delete", HintsDelete, {"ID"}, UptimecheckDelete) }
=============================================================================
