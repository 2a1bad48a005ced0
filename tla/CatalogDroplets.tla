-------------------------- MODULE CatalogDroplets ---------------------------
(***************************************************************************)
(* The tools of droplets, images and sizes: what each handler asks of its  *)
(* arguments and which requests it sends to the DigitalOcean API (first    *)
(* the handlers, in the vocabulary of ToolContract, then what Tools()      *)
(* registers: the name, the hints, the arguments the schema requires, the  *)
(* handler).                                                               *)
(***************************************************************************)
EXTENDS ToolContract
-----------------------------------------------------------------------------
(* pkg/registry/droplet/droplet_actions_tools.go                           *)

RebootDroplet == Asserts({"ID"}, Starts)
ResetDropletPassword == Asserts({"ID"}, Starts)
RebuildDropletBySlug == Asserts({"ID", "ImageSlug"}, Starts)
PowerCycleDropletsTag == Asserts({"Tag"}, Starts)
PowerOnDropletsTag == Asserts({"Tag"}, Sets)
PowerOffDropletsTag == Asserts({"Tag"}, Sets)
ShutdownDropletsTag == Asserts({"Tag"}, Sets)
EnableBackupsDropletsTag == Asserts({"Tag"}, Sets)
DisableBackupsDropletsTag == Asserts({"Tag"}, Sets)
SnapshotDropletsTag == Asserts({"Name", "Tag"}, Creates)
EnableIPv6DropletsTag == Asserts({"Tag"}, Sets)
EnablePrivateNetDropletsTag == Asserts({"Tag"}, Sets)
PowerCycleDroplet == Asserts({"ID"}, Starts)
PowerOnDroplet == Asserts({"ID"}, Sets)
PowerOffDroplet == Asserts({"ID"}, Sets)
ShutdownDroplet == Asserts({"ID"}, Sets)
RestoreDroplet == Asserts({"ID", "ImageID"}, Starts)
ResizeDroplet == Asserts({"ID", "Size"}, Sets)
RebuildDroplet == Asserts({"ID", "ImageID"}, Starts)
RenameDroplet == Asserts({"ID", "Name"}, Sets)
ChangeKernelDroplet == Asserts({"ID", "KernelID"}, Sets)
EnableIPv6Droplet == Asserts({"ID"}, Sets)
EnableBackupsDroplet == Asserts({"ID"}, Sets)
DisableBackupsDroplet == Asserts({"ID"}, Sets)
SnapshotDroplet == Asserts({"ID", "Name"}, Creates)

DropletActionsTools == {
    Tool("reboot-droplet", HintsAction, {"ID"}, RebootDroplet),
    Tool("reset-droplet-password", HintsAction, {"ID"}, ResetDropletPassword),
    Tool("rebuild-droplet-by-slug", HintsReplace,
         {"ID", "ImageSlug"}, RebuildDropletBySlug),
    Tool("power-cycle-droplets-tag", HintsAction,
         {"Tag"}, PowerCycleDropletsTag),
    Tool("power-on-droplets-tag", HintsToggle, {"Tag"}, PowerOnDropletsTag),
    Tool("power-off-droplets-tag", HintsToggle, {"Tag"}, PowerOffDropletsTag),
    Tool("shutdown-droplets-tag", HintsToggle, {"Tag"}, ShutdownDropletsTag),
    Tool("enable-backups-droplets-tag", HintsToggle,
         {"Tag"}, EnableBackupsDropletsTag),
    Tool("disable-backups-droplets-tag", HintsToggle,
         {"Tag"}, DisableBackupsDropletsTag),
    Tool("snapshot-droplets-tag", HintsCreate,
         {"Name", "Tag"}, SnapshotDropletsTag),
    Tool("enable-ipv6-droplets-tag", HintsToggle,
         {"Tag"}, EnableIPv6DropletsTag),
    Tool("enable-private-net-droplets-tag", HintsToggle,
         {"Tag"}, EnablePrivateNetDropletsTag),
    Tool("power-cycle-droplet", HintsAction, {"ID"}, PowerCycleDroplet),
    Tool("power-on-droplet", HintsToggle, {"ID"}, PowerOnDroplet),
    Tool("power-off-droplet", HintsToggle, {"ID"}, PowerOffDroplet),
    Tool("shutdown-droplet", HintsToggle, {"ID"}, ShutdownDroplet),
    Tool("restore-droplet", HintsReplace, {"ID", "ImageID"}, RestoreDroplet),
    Tool("resize-droplet", HintsToggle, {"ID", "Size"}, ResizeDroplet),
    Tool("rebuild-droplet", HintsReplace, {"ID", "ImageID"}, RebuildDroplet),
    Tool("rename-droplet", HintsToggle, {"ID", "Name"}, RenameDroplet),
    Tool("change-kernel-droplet", HintsToggle,
         {"ID", "KernelID"}, ChangeKernelDroplet),
    Tool("enable-ipv6-droplet", HintsToggle, {"ID"}, EnableIPv6Droplet),
    Tool("enable-backups-droplet", HintsToggle, {"ID"}, EnableBackupsDroplet),
    Tool("disable-backups-droplet", HintsToggle, {"ID"}, DisableBackupsDroplet),
    Tool("snapshot-droplet", HintsCreate, {"ID", "Name"}, SnapshotDroplet) }
-----------------------------------------------------------------------------
(* pkg/registry/droplet/droplet_tools.go                                   *)

DropletCreate ==
    Asserts({"Name", "Region", "Size"}, Brittle({"SSHKeys", "Tags"},
      OneOf({"ImageID", "ImageSlug"}, Creates)))
DropletDelete == Asserts({"ID"}, Deletes)
DropletEnablePrivateNet == Asserts({"ID"}, Sets)
DropletKernels == Asserts({"ID"}, Reads)
DropletGet == Demands({"ID"}, Reads)
DropletBackupPolicy == Demands({"ID"}, Reads)
DropletAction == Demands({"ActionID", "DropletID"}, Reads)
DropletList == Reads

DropletTools == {
    Tool("droplet-create", HintsCreate,
         {"Name", "Region", "Size"}, DropletCreate),
    Tool("droplet-delete", HintsDelete, {"ID"}, DropletDelete),
    Tool("droplet-enable-private-net", HintsToggle,
         {"ID"}, DropletEnablePrivateNet),
    Tool("droplet-kernels", HintsRead, {"ID"}, DropletKernels),
    Tool("droplet-get", HintsRead, {"ID"}, DropletGet),
    Tool("droplet-backup-policy", HintsRead, {"ID"}, DropletBackupPolicy),
    Tool("droplet-action", HintsRead, {"ActionID", "DropletID"}, DropletAction),
    Tool("droplet-list", HintsRead, {}, DropletList) }
-----------------------------------------------------------------------------
(* pkg/registry/droplet/image_actions_tools.go                             *)

ImageActionTransfer == Demands({"ID", "Region"}, Sets)
ImageActionConvert == Demands({"ID"}, Sets)
ImageActionGet == Demands({"ActionID", "ImageID"}, Reads)

ImageActionsTools == {
    Tool("image-action-transfer", HintsToggle,
         {"ID", "Region"}, ImageActionTransfer),
    Tool("image-action-convert", HintsToggle, {"ID"}, ImageActionConvert),
    Tool("image-action-get", HintsRead,
         {"ActionID", "ImageID"}, ImageActionGet) }
-----------------------------------------------------------------------------
(* pkg/registry/droplet/images_tools.go                                    *)

ImageList == Reads
ImageGet == Demands({"ID"}, Reads)
ImageCreate == Demands({"Name", "Region", "Url"}, Creates)
ImageUpdate == Demands({"ID", "Name"}, Sets)
ImageDelete == Demands({"ID"}, Deletes)

ImageTools == {
    Tool("image-list", HintsRead, {}, ImageList),
    Tool("image-get", HintsRead, {"ID"}, ImageGet),
    Tool("image-create", HintsCreate, {"Name", "Region", "Url"}, ImageCreate),
    Tool("image-update", HintsToggle, {"ID", "Name"}, ImageUpdate),
    Tool("image-delete", HintsDelete, {"ID"}, ImageDelete) }
-----------------------------------------------------------------------------
(* pkg/registry/droplet/sizes_tools.go                                     *)

SizeList == Reads

SizesTools == {
    Tool("size-list", HintsRead, {}, SizeList) }
=============================================================================
