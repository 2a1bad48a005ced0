--------------------------- MODULE CatalogStorage ---------------------------
(***************************************************************************)
(* The tools of volumes, NFS, Spaces and vector databases: what each       *)
(* handler asks of its arguments and which requests it sends to the        *)
(* DigitalOcean API (first the handlers, in the vocabulary of              *)
(* ToolContract, then what Tools() registers: the name, the hints, the     *)
(* arguments the schema requires, the handler).                            *)
(***************************************************************************)
EXTENDS ToolContract
-----------------------------------------------------------------------------
(* pkg/registry/volumes/volume.go                                          *)

VolumeCreate ==
    ClientErrorIsResult(Demands({"Name", "Region", "SizeGigaBytes"}, Creates))
VolumeList == ClientErrorIsResult(Reads)
VolumeGet == ClientErrorIsResult(Demands({"ID"}, Reads))
VolumeDelete == ClientErrorIsResult(Demands({"ID"}, Deletes))
VolumeSnapshotCreate ==
    ClientErrorIsResult(Demands({"Name", "VolumeID"}, Creates))
VolumeSnapshotList == ClientErrorIsResult(Demands({"VolumeID"}, Reads))
VolumeSnapshotGet == ClientErrorIsResult(Demands({"ID"}, Reads))
VolumeSnapshotDelete == ClientErrorIsResult(Demands({"ID"}, Deletes))

VolumeTools == {
    Tool("volume-create", HintsCreate,
         {"Name", "Region", "SizeGigaBytes"}, VolumeCreate),
    Tool("volume-list", HintsRead, {}, VolumeList),
    Tool("volume-get", HintsRead, {"ID"}, VolumeGet),
    Tool("volume-delete", HintsDelete, {"ID"}, VolumeDelete),
    Tool("volume-snapshot-create", HintsCreate,
         {"Name", "VolumeID"}, VolumeSnapshotCreate),
    Tool("volume-snapshot-list", HintsRead, {"VolumeID"}, VolumeSnapshotList),
    Tool("volume-snapshot-get", HintsRead, {"ID"}, VolumeSnapshotGet),
    Tool("volume-snapshot-delete", HintsDelete, {"ID"}, VolumeSnapshotDelete) }
-----------------------------------------------------------------------------
(* pkg/registry/volumes/volume_actions.go                                  *)

VolumeAttach == ClientErrorIsResult(Demands({"DropletID", "VolumeID"}, Sets))
VolumeDetach == ClientErrorIsResult(Demands({"DropletID", "VolumeID"}, Sets))
VolumeActionGet ==
    ClientErrorIsResult(Demands({"ActionID", "VolumeID"}, Reads))
VolumeActionList == ClientErrorIsResult(Demands({"VolumeID"}, Reads))
VolumeResize ==
    ClientErrorIsResult(Demands({"Region", "SizeGigaBytes", "VolumeID"}, Sets))

VolumeActionsTools == {
    Tool("volume-attach", HintsToggle, {"DropletID", "VolumeID"}, VolumeAttach),
    Tool("volume-detach", HintsToggle, {"DropletID", "VolumeID"}, VolumeDetach),
    Tool("volume-action-get", HintsRead,
         {"ActionID", "VolumeID"}, VolumeActionGet),
    Tool("volume-action-list", HintsRead, {"VolumeID"}, VolumeActionList),
    Tool("volume-resize", HintsToggle,
         {"Region", "SizeGigaBytes", "VolumeID"}, VolumeResize) }
-----------------------------------------------------------------------------
(* pkg/registry/nfs/nfs.go                                                 *)

NFSFileShareCreate ==
    ClientErrorIsResult(Demands({"Name", "Region", "SizeGibibytes"}, Creates))
NFSFileShareList == ClientErrorIsResult(Reads)
NFSFileShareGet == ClientErrorIsResult(Demands({"ID"}, Reads))
NFSFileShareDelete == ClientErrorIsResult(Demands({"ID"}, Deletes))
NFSSnapshotList == ClientErrorIsResult(Reads)
NFSSnapshotGet == ClientErrorIsResult(Demands({"ID"}, Reads))
NFSSnapshotDelete == ClientErrorIsResult(Demands({"ID"}, Deletes))

NfsTools == {
    Tool("nfs-file-share-create", HintsCreate,
         {"Name", "Region", "SizeGibibytes"}, NFSFileShareCreate),
    Tool("nfs-file-share-list", HintsRead, {}, NFSFileShareList),
    Tool("nfs-file-share-get", HintsRead, {"ID"}, NFSFileShareGet),
    Tool("nfs-file-share-delete", HintsDelete, {"ID"}, NFSFileShareDelete),
    Tool("nfs-snapshot-list", HintsRead, {}, NFSSnapshotList),
    Tool("nfs-snapshot-get", HintsRead, {"ID"}, NFSSnapshotGet),
    Tool("nfs-snapshot-delete", HintsDelete, {"ID"}, NFSSnapshotDelete) }
-----------------------------------------------------------------------------
(* pkg/registry/nfs/nfs_actions.go                                         *)

NFSResize == ClientErrorIsResult(Demands({"ShareID", "SizeGibibytes"}, Sets))
NFSSnapshot ==
    ClientErrorIsResult(Demands({"ShareID", "SnapshotName"}, Creates))
NFSAttach == ClientErrorIsResult(Demands({"ShareID", "VpcID"}, Sets))
NFSDetach == ClientErrorIsResult(Demands({"ShareID", "VpcID"}, Sets))
NFSReassign ==
    ClientErrorIsResult(Demands({"NewVpcID", "OldVpcID", "ShareID"}, Starts))
NFSSwitchPerformanceTier ==
    ClientErrorIsResult(Demands({"PerformanceTier", "ShareID"}, Sets))

NfsActionsTools == {
    Tool("nfs-resize", HintsToggle, {"ShareID", "SizeGibibytes"}, NFSResize),
    Tool("nfs-snapshot", HintsCreate, {"ShareID", "SnapshotName"}, NFSSnapshot),
    Tool("nfs-attach", HintsToggle, {"ShareID", "VpcID"}, NFSAttach),
    Tool("nfs-detach", HintsToggle, {"ShareID", "VpcID"}, NFSDetach),
    Tool("nfs-reassign", HintsAction,
         {"NewVpcID", "OldVpcID", "ShareID"}, NFSReassign),
    Tool("nfs-switch-performance-tier", HintsToggle,
         {"PerformanceTier", "ShareID"}, NFSSwitchPerformanceTier) }
-----------------------------------------------------------------------------
(* pkg/registry/spaces/cdn_tools.go                                        *)

SpacesCDNGet == Demands({"ID"}, Reads)
SpacesCDNList == Reads
SpacesCDNCreate == Asserts({"Origin", "TTL"}, Creates)
SpacesCDNDelete == Asserts({"ID"}, Deletes)
SpacesCDNFlushCache == Asserts({"Files", "ID"}, Sets)

CDNTools == {
    Tool("spaces-cdn-get", HintsRead, {"ID"}, SpacesCDNGet),
    Tool("spaces-cdn-list", HintsRead, {}, SpacesCDNList),
    Tool("spaces-cdn-create", HintsCreate, {"Origin", "TTL"}, SpacesCDNCreate),
    Tool("spaces-cdn-delete", HintsDelete, {"ID"}, SpacesCDNDelete),
    Tool("spaces-cdn-flush-cache", HintsToggle,
         {"Files", "ID"}, SpacesCDNFlushCache) }
-----------------------------------------------------------------------------
(* pkg/registry/spaces/keys_tools.go                                       *)

SpacesKeyList == Checks({"Page", "PerPage"}, Reads)
SpacesKeyGet == Demands({"AccessKey"}, Reads)
SpacesKeyCreate == Demands({"Name"}, Creates)
SpacesKeyUpdate == Demands({"AccessKey", "Name"}, Sets)
SpacesKeyDelete == Demands({"AccessKey"}, Deletes)

SpacesKeysTools == {
    Tool("spaces-key-list", HintsRead, {"Page", "PerPage"}, SpacesKeyList),
    Tool("spaces-key-get", HintsRead, {"AccessKey"}, SpacesKeyGet),
    Tool("spaces-key-create", HintsCreate, {"Name"}, SpacesKeyCreate),
    Tool("spaces-key-update", HintsToggle,
         {"AccessKey", "Name"}, SpacesKeyUpdate),
    Tool("spaces-key-delete", HintsDelete, {"AccessKey"}, SpacesKeyDelete) }
-----------------------------------------------------------------------------
(* pkg/registry/vectordb/vectordb.go                                       *)

VectorDBCreate ==
    ClientErrorIsResult(Demands({"Name", "ProjectId", "Region", "Size"},
      Creates))
VectorDBList == ClientErrorIsResult(Reads)
VectorDBGet == ClientErrorIsResult(Demands({"ID"}, Reads))
VectorDBResize == ClientErrorIsResult(Demands({"ID", "Size"}, Sets))
VectorDBDelete == ClientErrorIsResult(Demands({"ID"}, Deletes))
VectorDBGetCredentials == ClientErrorIsResult(Demands({"ID"}, Reads))

VectorDBTools == {
    Tool("vector-db-create", HintsCreate,
         {"Name", "ProjectId", "Region", "Size"}, VectorDBCreate),
    Tool("vector-db-list", HintsRead, {}, VectorDBList),
    Tool("vector-db-get", HintsRead, {"ID"}, VectorDBGet),
    Tool("vector-db-resize", HintsToggle, {"ID", "Size"}, VectorDBResize),
    Tool("vector-db-delete", HintsDelete, {"ID"}, VectorDBDelete),
    Tool("vector-db-get-credentials", HintsRead,
         {"ID"}, VectorDBGetCredentials) }
=============================================================================
