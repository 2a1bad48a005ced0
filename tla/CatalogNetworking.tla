------------------------- MODULE CatalogNetworking --------------------------
(***************************************************************************)
(* The tools of networking: what each handler asks of its arguments and    *)
(* which requests it sends to the DigitalOcean API (first the handlers, in *)
(* the vocabulary of ToolContract, then what Tools() registers: the name,  *)
(* the hints, the arguments the schema requires, the handler).             *)
(***************************************************************************)
EXTENDS ToolContract
-----------------------------------------------------------------------------
(* pkg/registry/networking/byoip_prefix_tools.go                           *)

BYOIPPrefixGet == Demands({"UUID"}, Reads)
BYOIPPrefixList == Reads
BYOIPPrefixResourcesGet == Demands({"UUID"}, Reads)
BYOIPPrefixCreate == Demands({"prefix", "region", "signature"}, Creates)
BYOIPPrefixDelete == Demands({"UUID"}, Deletes)

BYOIPPrefixTools == {
    Tool("byoip-prefix-get", HintsRead, {"UUID"}, BYOIPPrefixGet),
    Tool("byoip-prefix-list", HintsRead, {}, BYOIPPrefixList),
    Tool("byoip-prefix-resources-get", HintsRead,
         {"UUID"}, BYOIPPrefixResourcesGet),
    Tool("byoip-prefix-create", HintsCreate,
         {"Prefix", "Region", "Signature"}, BYOIPPrefixCreate),
    Tool("byoip-prefix-delete", HintsDelete, {"UUID"}, BYOIPPrefixDelete) }
-----------------------------------------------------------------------------
(* pkg/registry/networking/certificate_tools.go                            *)

CertificateGet == Demands({"ID"}, Reads)
CertificateList == Reads
CustomCertificateCreate ==
    Asserts({"CertificateChain", "LeafCertificate", "Name", "PrivateKey"},
      Creates)
LetsEncryptCertificateCreate == Asserts({"DnsNames", "Name"}, Creates)
CertificateDelete == Asserts({"ID"}, Deletes)

CertificateTools == {
    Tool("certificate-get", HintsRead, {"ID"}, CertificateGet),
    Tool("certificate-list", HintsRead, {}, CertificateList),
    Tool("custom-certificate-create", HintsCreate,
         {"CertificateChain", "LeafCertificate", "Name", "PrivateKey"},
           CustomCertificateCreate),
    Tool("lets-encrypt-certificate-create", HintsCreate,
         {"DnsNames", "Name"}, LetsEncryptCertificateCreate),
    Tool("certificate-delete", HintsDelete, {"ID"}, CertificateDelete) }
-----------------------------------------------------------------------------
(* pkg/registry/networking/domains_tools.go                                *)

DomainGet == Demands({"Name"}, Reads)
DomainList == Reads
DomainRecordGet == Demands({"Domain", "RecordID"}, Reads)
DomainRecordList == Demands({"Domain"}, Reads)
DomainCreate == Asserts({"IPAddress", "Name"}, Creates)
DomainDelete == Asserts({"Name"}, Unnames)
DomainRecordCreate == Asserts({"Data", "Domain", "Name", "Type"}, Creates)
DomainRecordDelete == Asserts({"Domain", "RecordID"}, Deletes)
DomainRecordEdit ==
    Asserts({"Data", "Domain", "Name", "RecordID", "Type"}, Sets)

DomainsTools == {
    Tool("domain-get", HintsRead, {"Name"}, DomainGet),
    Tool("domain-list", HintsRead, {}, DomainList),
    Tool("domain-record-get", HintsRead,
         {"Domain", "RecordID"}, DomainRecordGet),
    Tool("domain-record-list", HintsRead, {"Domain"}, DomainRecordList),
    Tool("domain-create", HintsCreate, {"IPAddress", "Name"}, DomainCreate),
    Tool("domain-delete", HintsDelete, {"Name"}, DomainDelete),
    Tool("domain-record-create", HintsCreate,
         {"Data", "Domain", "Name", "Type"}, DomainRecordCreate),
    Tool("domain-record-delete", HintsDelete,
         {"Domain", "RecordID"}, DomainRecordDelete),
    Tool("domain-record-edit", HintsToggle,
         {"Data", "Domain", "Name", "RecordID", "Type"}, DomainRecordEdit) }
-----------------------------------------------------------------------------
(* pkg/registry/networking/firewall_tools.go                               *)

FirewallGet == Demands({"ID"}, Reads)
FirewallList == Reads
FirewallCreate ==
    Asserts({"InboundPortRange", "InboundProtocol", "InboundSource", "Name",
      "OutboundDestination", "OutboundPortRange", "OutboundProtocol"},
      Creates)
FirewallDelete == Asserts({"ID"}, Deletes)
FirewallAddDroplets == Asserts({"DropletIDs", "ID"}, Sets)
FirewallAddTags == Asserts({"ID", "Tags"}, Sets)
FirewallRemoveDroplets == Asserts({"DropletIDs", "ID"}, Sets)
FirewallRemoveTags == Asserts({"ID", "Tags"}, Sets)
FirewallAddRules ==
    Asserts({"ID"}, Brittle({"InboundRules", "OutboundRules"},
      SomeOf({"InboundRules", "OutboundRules"}, Sets)))
FirewallRemoveRules ==
    Asserts({"ID"}, Brittle({"InboundRules", "OutboundRules"},
      SomeOf({"InboundRules", "OutboundRules"}, Sets)))

FirewallTools == {
    Tool("firewall-get", HintsRead, {"ID"}, FirewallGet),
    Tool("firewall-list", HintsRead, {}, FirewallList),
    Tool("firewall-create", HintsCreate,
         {"InboundPortRange", "InboundProtocol", "InboundSource", "Name",
           "OutboundDestination", "OutboundPortRange", "OutboundProtocol"},
           FirewallCreate),
    Tool("firewall-delete", HintsDelete, {"ID"}, FirewallDelete),
    Tool("firewall-add-droplets", HintsToggle,
         {"DropletIDs", "ID"}, FirewallAddDroplets),
    Tool("firewall-add-tags", HintsToggle, {"ID", "Tags"}, FirewallAddTags),
    Tool("firewall-remove-droplets", HintsToggle,
         {"DropletIDs", "ID"}, FirewallRemoveDroplets),
    Tool("firewall-remove-tags", HintsToggle,
         {"ID", "Tags"}, FirewallRemoveTags),
    Tool("firewall-add-rules", HintsToggle, {"ID"}, FirewallAddRules),
    Tool("firewall-remove-rules", HintsToggle, {"ID"}, FirewallRemoveRules) }
-----------------------------------------------------------------------------
(* pkg/registry/networking/load_balancers_tools.go                         *)

\* A regional one: a GLOBAL one needs neither region nor rules.
LBCreate ==
    Demands({"ForwardingRules", "Name", "Region"},
      Brittle({"ForwardingRules"}, Creates))
LBDelete == Asserts({"LoadBalancerID"}, Deletes)
LBDeleteCache == Asserts({"LoadBalancerID"}, Deletes)
LBGet == Demands({"LoadBalancerID"}, Reads)
LBList == Reads
LBAddDroplets == Demands({"DropletIDs", "LoadBalancerID"}, Sets)
LBRemoveDroplets == Demands({"DropletIDs", "LoadBalancerID"}, Sets)
\* A regional one: a GLOBAL one needs neither region nor rules.
LBUpdate ==
    Demands({"LoadBalancerID", "Name", "Region", "Type"},
      Brittle({"ForwardingRules"}, Sets))
LBAddFwdRules ==
    Demands({"ForwardingRules", "LoadBalancerID"},
      Brittle({"ForwardingRules"}, Sets))
LBRemoveFwdRules ==
    Demands({"ForwardingRules", "LoadBalancerID"},
      Brittle({"ForwardingRules"}, Sets))

LoadBalancersTools == {
    Tool("lb-create", HintsCreate, {"Name"}, LBCreate),
    Tool("lb-delete", HintsDelete, {"LoadBalancerID"}, LBDelete),
    Tool("lb-delete-cache", HintsDelete, {"LoadBalancerID"}, LBDeleteCache),
    Tool("lb-get", HintsRead, {"LoadBalancerID"}, LBGet),
    Tool("lb-list", HintsRead, {}, LBList),
    Tool("lb-add-droplets", HintsToggle,
         {"DropletIDs", "LoadBalancerID"}, LBAddDroplets),
    Tool("lb-remove-droplets", HintsToggle,
         {"DropletIDs", "LoadBalancerID"}, LBRemoveDroplets),
    Tool("lb-update", HintsToggle,
         {"LoadBalancerID", "Name", "Type"}, LBUpdate),
    Tool("lb-add-fwd-rules", HintsToggle,
         {"ForwardingRules", "LoadBalancerID"}, LBAddFwdRules),
    Tool("lb-remove-fwd-rules", HintsToggle,
         {"ForwardingRules", "LoadBalancerID"}, LBRemoveFwdRules) }
-----------------------------------------------------------------------------
(* pkg/registry/networking/reserved_ips_tools.go                           *)

ReservedIPGet == Demands({"IP"}, Reads)
ReservedIPList == Asserts({"Type"}, Values({"Type"}, Reads))
ReservedIPReserve == Asserts({"Region", "Type"}, Values({"Type"}, Creates))
ReservedIPRelease == Asserts({"IP", "Type"}, Values({"Type"}, Deletes))
ReservedIPAssign ==
    Asserts({"DropletID", "IP", "Type"}, Values({"Type"}, Sets))
ReservedIPUnassign == Asserts({"IP", "Type"}, Values({"Type"}, Sets))

ReservedIPTools == {
    Tool("reserved-ip-get", HintsRead, {"IP"}, ReservedIPGet),
    Tool("reserved-ip-list", HintsRead, {"Type"}, ReservedIPList),
    Tool("reserved-ip-reserve", HintsCreate,
         {"Region", "Type"}, ReservedIPReserve),
    Tool("reserved-ip-release", HintsDelete, {"IP", "Type"}, ReservedIPRelease),
    Tool("reserved-ip-assign", HintsToggle,
         {"DropletID", "IP", "Type"}, ReservedIPAssign),
    Tool("reserved-ip-unassign", HintsToggle,
         {"IP", "Type"}, ReservedIPUnassign) }
-----------------------------------------------------------------------------
(* pkg/registry/networking/vpc_peering_tools.go                            *)

VPCPeeringGet == Demands({"ID"}, Reads)
VPCPeeringList == Reads
VPCPeeringCreate == Asserts({"Name", "Vpc1", "Vpc2"}, Creates)
VPCPeeringDelete == Asserts({"ID"}, Deletes)

VPCPeeringTools == {
    Tool("vpc-peering-get", HintsRead, {"ID"}, VPCPeeringGet),
    Tool("vpc-peering-list", HintsRead, {}, VPCPeeringList),
    Tool("vpc-peering-create", HintsCreate,
         {"Name", "Vpc1", "Vpc2"}, VPCPeeringCreate),
    Tool("vpc-peering-delete", HintsDelete, {"ID"}, VPCPeeringDelete) }
-----------------------------------------------------------------------------
(* pkg/registry/networking/vpc_tools.go                                    *)

VPCGet == Demands({"ID"}, Reads)
VPCList == Reads
VPCCreate == Asserts({"Name", "Region"}, Creates)
VPCListMembers == Asserts({"ID"}, Reads)
VPCDelete == Asserts({"ID"}, Deletes)

VPCTools == {
    Tool("vpc-get", HintsRead, {"ID"}, VPCGet),
    Tool("vpc-list", HintsRead, {}, VPCList),
    Tool("vpc-create", HintsCreate, {"Name", "Region"}, VPCCreate),
    Tool("vpc-list-members", HintsRead, {"ID"}, VPCListMembers),
    Tool("vpc-delete", HintsDelete, {"ID"}, VPCDelete) }
=============================================================================
