--------------------------- MODULE CatalogAccount ---------------------------
(***************************************************************************)
(* The tools of the account, regions and documentation: what each handler  *)
(* asks of its arguments and which requests it sends to the DigitalOcean   *)
(* API (first the handlers, in the vocabulary of ToolContract, then what   *)
(* Tools() registers: the name, the hints, the arguments the schema        *)
(* requires, the handler).                                                 *)
(***************************************************************************)
EXTENDS ToolContract
-----------------------------------------------------------------------------
(* pkg/registry/account/account_tools.go                                   *)

AccountGetInformation == Reads

AccountTools == {
    Tool("account-get-information", HintsRead, {}, AccountGetInformation) }
-----------------------------------------------------------------------------
(* pkg/registry/account/action_tools.go                                    *)

ActionGet == Demands({"ID"}, Reads)
ActionList == Reads

AccountActionTools == {
    Tool("action-get", HintsRead, {"ID"}, ActionGet),
    Tool("action-list", HintsRead, {}, ActionList) }
-----------------------------------------------------------------------------
(* pkg/registry/account/balance_tools.go                                   *)

BalanceGet == Reads

BalanceTools == {
    Tool("balance-get", HintsRead, {}, BalanceGet) }
-----------------------------------------------------------------------------
(* pkg/registry/account/billing_tools.go                                   *)

BillingHistoryList == Reads

BillingTools == {
    Tool("billing-history-list", HintsRead, {}, BillingHistoryList) }
-----------------------------------------------------------------------------
(* pkg/registry/account/invoice_tools.go                                   *)

InvoiceList == Reads
GetInvoice == Demands({"InvoiceUUID"}, Reads)

InvoiceTools == {
    Tool("invoice-list", HintsRead, {}, InvoiceList),
    Tool("get-invoice", HintsRead, {"InvoiceUUID"}, GetInvoice) }
-----------------------------------------------------------------------------
(* pkg/registry/account/keys_tools.go                                      *)

KeyCreate == Asserts({"Name", "PublicKey"}, Creates)
KeyDelete == Asserts({"ID"}, Deletes)
KeyGet == Demands({"ID"}, Reads)
KeyList == Reads

SSHKeysTools == {
    Tool("key-create", HintsAction, {"Name", "PublicKey"}, KeyCreate),
    Tool("key-delete", HintsDelete, {"ID"}, KeyDelete),
    Tool("key-get", HintsRead, {"ID"}, KeyGet),
    Tool("key-list", HintsRead, {}, KeyList) }
-----------------------------------------------------------------------------
(* pkg/registry/common/region_tools.go                                     *)

RegionList == Reads

RegionTools == {
    Tool("region-list", HintsRead, {}, RegionList) }
-----------------------------------------------------------------------------
(* pkg/registry/docs/docs_tools.go                                         *)

DocsSearch == NoClient(Demands({"Query"}, Direct(Reads)))
DocsGetPage ==
    NoClient(Demands({"URL"}, Checks({"MaxLength", "StartIndex"}, Direct(
      Reads))))
DocsFindForService ==
    NoClient(Demands({"Service"}, May(Direct(Reads)) ++ Direct(Reads)))
DocsGetQuickstart == NoClient(Demands({"Service"}, Direct(Reads)))
DocsTroubleshoot ==
    NoClient(Demands({"Symptom"}, Direct(Reads) ++ May(Direct(Reads))))
DocsGetRelated == NoClient(Demands({"URL"}, Direct(Reads)))

DocsTools == {
    Tool("docs-search", HintsRead, {"Query"}, DocsSearch),
    Tool("docs-get-page", HintsRead, {"URL"}, DocsGetPage),
    Tool("docs-find-for-service", HintsRead, {"Service"}, DocsFindForService),
    Tool("docs-get-quickstart", HintsRead, {"Service"}, DocsGetQuickstart),
    Tool("docs-troubleshoot", HintsRead, {"Symptom"}, DocsTroubleshoot),
    Tool("docs-get-related", HintsRead, {"URL"}, DocsGetRelated) }
=============================================================================
