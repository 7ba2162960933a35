# TLA+ models of the ppcluster Cinder CSI driver

The driver lets a Kubernetes cluster on *physical* nodes use volumes of OpenStack
Cinder. A node is no virtual machine of Nova, so the controller plugin makes Cinder
attachments itself and asks an HTTP bridge on the node to connect the block device.
The modules in this directory model that system, TLC checks small instances of them,
and TLAPS proves most of their safety properties for every size.

    tlc -config ControllerAttachFaults.cfg MCControllerAttach     # check a model
    tlapm ControllerAttachProofs.tla                              # check the proofs

File references below are relative to `src/`. Shorthand: *controllerserver*, *nodeserver*,
*utils*, *server* are in `pkg/ppcinder/`, *openstack_volume* and *physical_volume* in
`pkg/ppcinder/openstackphy/`, *mount* is `pkg/mount/mount.go`, *bridge* is
`third_party/iscsi-cinder-briage/main.py`.

## 1. The system

### Components

| Component | State it keeps | Operations | Model |
|---|---|---|---|
| Controller plugin (controllerserver, openstack_volume, physical_volume) | none of its own: what a call leaves behind is in Cinder and in the bridges. One shared variable, `op.blockstorage.Microversion` | ControllerPublishVolume, ControllerUnpublishVolume, DeleteVolume, CreateVolume, ListVolumes, ControllerGetVolume, ValidateVolumeCapabilities | `ControllerAttach`, `Provision`, `Listing`; of ControllerGetVolume the published nodes; ValidateVolumeCapabilities is not modelled |
| Node plugin (nodeserver, mount) | none: mounts, devices and file systems of the node | NodeStageVolume, NodePublishVolume, NodeUnpublishVolume, NodeUnstageVolume; NodeGetVolumeStats and NodeGetInfo only read | `NodeServer` |
| Bridge (bridge) | block devices of its node, through `rbd` and os-brick | attach, detach, connector, ecsnode_id | `Bridge` |
| Cinder (external) | volumes with status, attachments | attachments.Create/Update/Complete/Get/Delete, volumes.Create/Get/List/BeginDetaching/Delete | `Cinder`, the variable `volume` of `Provision`, the pages of `Listing` |
| CSI sidecars, kubelet (external) | VolumeAttachment, PersistentVolume, the pods of a node | call the plugins, repeat, give up at `--timeout` (deploy/controller.yaml) | the `Call...` actions and `DeadlineExpires` |
| gRPC server, driver set-up, identity server, command line | none | start-up, constant answers | not modelled |

### Interactions

A publication runs sidecar → controller → Cinder (volumes.Get) → bridge (connector, node id)
→ Cinder (attachments.Create) → bridge (attach) → Cinder (attachments.Update, Complete,
volumes.Get until the volume is listed on the node) → sidecar, with the device path in the
publish context. The kubelet hands this path to NodeStageVolume, which formats and mounts
what is behind it. A detachment goes the other way: begin-detaching, volumes.Get,
attachments.Get, bridge (detach), attachments.Delete, volumes.Get until the volume is no
longer listed. Every arrow is a request that may fail, with or without effect.

### What is hard about it

* **Handlers interleave.** gRPC runs each call in a goroutine, no handler takes a lock,
  and all share the client's microversion.
* **Handlers outlive their callers.** They use `context.Background()`, so after
  `--timeout` the sidecar repeats the call beside the one that still runs.
* **Several services, no transaction.** AttachVolume undoes only some of its failures
  (openstack_volume:98-126), and the process exits (`klog.Fatalf`, physical_volume:91)
  when a bridge cannot be reached, between any two requests of all other handlers.
* **Remembered data gets old.** A device path is remembered by the sidecar through
  reboots; `Attachments[0]` is whichever attachment is first; blkid's answer is used by a
  later mkfs.
* **Waiting.** The wait loops poll a bounded number of times; retries are the sidecars'.

### What makes each component correct

* *Attach and detach*: a volume belongs to one node at a time; a node has a device only while
  Cinder knows about it, because nothing else remembers the device; success means attached
  or detached; a handler touches the attachment of its own node; a volume is not deleted
  under a device; calls that are repeated succeed in the end.
* *CreateVolume*: one volume per name, large enough, and a repeated call finds it.
* *Node plugin*: a pod sees its own volume, of its full size; data is never formatted;
  pods come, and when they go nothing of their volume stays mounted.
* *Both together*: nothing is detached under a mount, no two nodes use a volume at a time, and
  what a pod wrote is there when the volume comes to the next node.
* *ListVolumes*: a volume that stays is listed, once, whatever is created and deleted between two pages.

PROJECT.json lists, under `hazards`, each place in the code that puts one of these at risk.

## 2. The modules

| Module | Extends | Contents |
|---|---|---|
| `StorageCluster` | | volumes, nodes, device paths, `None` |
| `Cinder` | `StorageCluster` | external service: statuses, attachments, what is reserved for whom |
| `Bridge` | `StorageCluster` | devices of the nodes, `Connect`, `Disconnect` for rbd and os-brick |
| `ControllerAttach` | `Cinder`, `Bridge` | the core: publish, unpublish, delete as handlers over the two services |
| `ExclusiveVolume` | | the abstract promise of attach and detach: acquire, connect, grant, revoke, disconnect, free |
| `NodeServer` | `Bridge` | the node plugin on every node, with kubelets and the controller side as its environment |
| `Driver` | `Cinder`, `Bridge` | composition: instances of `ControllerAttach` and `NodeServer` over the same devices |
| `PodStorage` | `StorageCluster` | the abstract promise of the whole driver to pods |
| `Provision` | | CreateVolume and size rounding |
| `Listing` | | ListVolumes and its paging |
| `MC...` | the module | constants and symmetry for TLC |
| `...Proofs` | the module, `TLAPS` | theorems; those of `ControllerAttach` build on each other: `ControllerAttachProofs`, `ControllerDetachProofs`, then `ControllerPromiseProofs`; `NodeStorageProofs` builds on `NodeServerProofs`, and `DriverProofs` on both |

**Convention.** A definition `X_Something` beside a definition `X` is `X` with a plausible
mistake (`Poll_OffByOne`, `OnError_ReleasesAnyway`). No behaviour of the specification uses it;
it takes the place of `X` to show that a property notices the mistake.

### ControllerAttach

A handler is a slot of `call`: a record with the name of its next request (`pc`) and the
locals of the Go function (`volume`, `node`, `server` for the instance id, `att` for the
attachment, `path` for the device, `tries` of the wait loop) and `waiting`, whether the sidecar still
waits. One action is one request with its answer and all that the handler does up to the
next request, so that handlers interleave exactly at their requests.

| Code | Actions |
|---|---|
| ControllerPublishVolume: AttachVolume, WaitDiskAttached, GetAttachmentDiskPath | `GetVolume`, `Create`, `ConnectVolume`, `Update`, `Complete`, `WaitAttached`, `GetPath` |
| rollback of AttachVolume | `UndoConnect`, `UndoCreate` |
| ControllerUnpublishVolume: DetachVolume, WaitDiskDetached | `Begin`, `ReadAttachments`, `GetAttachment`, `DisconnectVolume`, `Release`, `WaitDetached` |
| DeleteVolume | `DiskIsUsed`, `Delete` |
| error returns | `RequestRefused` (the service's state forbids the request), `RequestFails` (anything else, with or without effect), both continue with `ErrorPath` |
| GetVolumesByName of a CreateVolume | `LookupByName` (the microversion) |
| `klog.Fatalf`, loss of the process | `Restart`; also the third disjunct of `ReadAttachments`, an index into an empty list |

`pv` is what the sidecars believe; `status` and `attachment` are Cinder's, `device` the
bridges'. The three reads at the start of AttachVolume (GetVolume, GetConnector,
GetNodeIdForECS) are one action: the first may say that the volume is gone, the others are
constants of the node. The error of GetNodeIdForECS is only logged, so with `"nodeId"` in
`Faulty` the server may be `None`.

A volume starts as *creating*, because CreateVolume answers before Cinder has built it, and
becomes *available* or *error* at any time (`CinderWorks`); a publication that comes before is refused
and repeated. `PublishedNodeIds` is what ControllerGetVolume and ListVolumes report.

### NodeServer

All nodes. `staging[n][v]` is what is mounted at the staging path, `target[n][v]` the stack of
mounts at the target path (newest first), `dirs[n][v]` which of the two paths exist, `disk` and `grown` what is on a volume, `context`
the device path in the publish context, `lost` the volumes that somebody deleted in Cinder. An action is one look at the node or one
command, so that handlers interleave at them.

| Code | Actions |
|---|---|
| NodeStageVolume: GetVolume, IsLikelyNotMountPointAttach, FormatAndMount, NeedResize, Resize | `Stage`, `Probe` (blkid), `Mkfs`, `MountStaging`, `Resize` |
| NodePublishVolume: file system volumes | `Publish`, `BindStaging` |
| NodePublishVolume: block volumes | `Publish`, `FindDevice`, `BindDevice` |
| NodeUnpublishVolume, NodeUnstageVolume: GetVolume, UnmountPath | `CheckMount`, `Umount`, `Recheck`, `Remove`, at the target path or the staging path (`Place`) |
| error returns, an exit of the plugin | `Refused` (a command that cannot do its work), `Fails` (anything else, with or without the effect of the command, `Command`) |

UnmountPath is mount-utils' `CleanupMountPoint` (k8s.io/mount-utils v0.32.2 in go.mod), which is not in the repository and modelled as follows.
A path that does not exist counts as cleaned. One that shows no mount (`ShowsMount`) is removed at once; otherwise umount takes the newest
mount away (`Below`: a path that is not mounted any more is no error), the path is looked at again, and only if it shows no mount it is
removed, which fails while something is mounted there (`CanRemove`). The question whether the path exists and
the first look at its mount are one action. The plugin makes the paths itself when they are missing (`Make`); a kubelet that
makes or removes them as well is not needed and not modelled.

Every handler asks Cinder for its volume first (`Found`) and fails when it is lost, also
NodeUnpublishVolume and NodeUnstageVolume, whose volume then stays mounted.

The controller side is an environment: `Connects`, `Attach`, `Revoke`, `Disconnects`. It is assumed to
connect a volume only while it is attached nowhere, to hand over a path that has the
volume behind it, and to revoke it only after the kubelet has unstaged the volume.

### Driver, PodStorage and the two refinements

`Driver` discharges this assumption. Its steps are those of `ControllerAttach` and the `Nodewise` steps of
`NodeServer`; both see the same `device`. The publish context of the kubelet is computed from the sidecar's
`pv` (`Context`), and `lost` from Cinder's status. The one conjunct that is neither plugin's is
`DetachesUnstaged`: the attach-detach controller of Kubernetes does not detach a volume that a kubelet still
reports in use. `ImplementsNodeServer` says that every behaviour of `Driver` is one of
`NodeServer`, environment assumptions included, so what is checked of `NodeServer` holds with the real controller
plugin. `ImplementsPodStorage` maps *content* to `disk` and *users* to the nodes whose kubelet
is in phase *running*. Both hold with failures that AttachVolume rolls back (`RolledBack`). With others they do
not, since `PublishedPath` does not: an attachment that an interrupted call left behind keeps its path, the rollback of
the next call unmaps the device behind it (`rbd unmap <image>` takes any mapping of the image), and the call that succeeds
then may find the old attachment first.

### Listing

`ListVolumes` is a page: Cinder's volumes behind the marker (`Page`), and the token that the code cuts out of the link to
the next page (`NextToken`). openstack_volume:208 hands the whole URL to `url.ParseQuery`, which takes everything
before the first `=` as the name of a parameter. The marker is lost when it is the first parameter,
that is without a limit, and found otherwise, because `limit` precedes it. A marker that was deleted is an
error of Cinder's (`MarkerUnknown`). As the external-attacher does, the lister starts again on every error. `volumes` are newest
first, as Cinder sorts by default.

### Provision

`Lookup` (GetVolumesByName and what CreateVolume makes of its result), `Create`,
`CreateRefused` and `RequestFails`, over the names and sizes of Cinder's volumes. `GiB` is a constant, so that
rounding is checked with a unit of 4. Overflow of int64 is not modelled: Kubernetes quantities
that large are outside of what Cinder has.

### ExclusiveVolume and the refinement

`ImplementsExclusive` says that `ControllerAttach` implements `ExclusiveVolume`, with
*holder* the node of the volume's attachments, *connected* the nodes with a device, and *granted* whether
the sidecars have it as attached. A volume thus changes hands only in the order revoke, disconnect, free, acquire.

## 3. The runs

| Run | Instance | Distinct states | Shows |
|---|---|---|---|
| `attach_faults` | 1 volume, 2 nodes, 1 call, any 2 failures, 1 exit, CreateVolume beside | 28 777 | safety of attach, detach, delete, and the refinement of `ExclusiveVolume` |
| `attach_overlap` | 1 rbd volume, 2 nodes, 2 calls that may overlap | 451 777 | NoOrphanDevice and SingleNodeAttached do not need the sidecars' discipline |
| `attach_rolled_back` | 2 volumes, 2 nodes, 2 paths, 2 calls, 2 rolled-back failures, fair | 110 817 | the path in the publish context is the volume's; publications, detachments and deletions succeed in the end |
| `overlap_lost` | as attach_overlap, iSCSI | violation | a volume is deleted under a device |
| `node_pods` | 1 node, 3 volumes (file system, block without a serial id, from a source), 2 calls, 1 failure with or without effect, 1 lost volume, fair | 163 662 | pods see their volume, grown, data is not formatted; they get and get rid of it in the end |
| `node_overlap` | 1 node, 2 volumes (file system, block with a serial id), 2 overlapping calls, 2 failures or deadlines, 1 reboot, fair | 1 098 395 | type invariant; a pod that is to go goes, whatever handlers run between the steps of UnmountPath |
| `node_reboot` | 1 node, 2 volumes, 1 reboot | violation | a stale device path is another volume's |
| `driver` | 2 file system volumes, 2 nodes, 2 paths, 2 + 2 calls, 1 + 1 failures | 453 404 | nothing is detached under a mount; the refinements of `NodeServer` and `PodStorage` |
| `listing` | 4 volumes, limits 0, 1, 2, 4, pages of at most 3, 1 failure | 61 048 | listings with a limit are complete; all are without repetition, and end |
| `provision_late` | 2 names, 4 sizes, overlapping calls, 1 failure, 1 exit | 95 413 | claims get what they asked for |
| `provision_liveness` | 2 names, 2 failures, 2 exits | 1 434 | one volume per name; claims are bound in the end |
| `provision_overlap` | 1 name, overlapping calls | violation | two volumes of one name |

### Bounds

`MaxFaults`, `MaxRestarts`, `MaxReboots` bound what goes wrong; `MaxMounts` bounds the mounts that
repeated publications stack; `AttachSteps`, `DetachSteps`, `ProbeSteps` are the loop limits
(15, 13 and 15 in the code; 1 or 2 here, which has a first, a repeated and a last poll); `Calls` is the number of
calls at a time. Two failures are enough for a failed request, a failed
rollback, and a repeated call that fails again. Two nodes are needed to see a volume on the wrong one, two
volumes to see a path of another one. With overlapping handlers there are 4 attachments and 3 paths:
two handlers hold one of each and the rest is left over from earlier calls. When all are taken,
further publications wait, so the bound limits how much is left over and hides nothing before.

`NodeServer` needs one node where nothing moves (nodes share only what is on a volume), and `Driver` has two, so that
volumes move. Its second volume is there for the paths: each node has as many as there are volumes, and a path
that one volume gave up is taken by the other. Four volumes and pages of one, two and three give
`Listing` first, middle, full last, short last and empty pages; a limit of 4 is cut by
`MaxLimit`, 0 is none. `MaxLosses` is 1: volumes are lost independently.

Attachment ids are used again once nobody refers to them, which no comparison can tell from
fresh ones.

`CHECK_DEADLOCK FALSE` stands in the configurations of `ControllerAttach` and `Provision`,
because these systems do stop: all volumes are deleted, or all claims bound; so does `Driver`. `NodeServer` and
`Listing` are checked for deadlock.

Symmetry is used in the runs of safety properties only; the constants it permutes have no
order, and `EcsNode` maps each node to a value made of the node.

### Fairness

`WF` of each handler: the Go runtime runs it, and every request gets an answer or an error.
`WF` of the repetition of a call: sidecars and kubelet repeat a call until it
succeeds. `WF` of Cinder finishing a creation (with success or not) and a deletion. `WF` of the next page of a listing.
No strong fairness, none for failures, users, deadlines, exits.
Failures are bounded, that is, services recover.

What the properties except, since the code does not give it:

* `PodRuns` and `PodGoes`: volumes in `lost`. NodeUnpublishVolume and NodeUnstageVolume fail with NotFound
  (nodeserver:230-252), and the pod of such a volume cannot go.
* `PodRuns`: block volumes without a serial id (`Block \ Serial`). The names that mount:133-145 looks for are those of virtual disks,
  whose serial Nova sets. rbd, iSCSI and FC devices of a physical node have none of them, so that no pod with a block volume ever runs
  there. `node_pods` has such a volume (`Serial` is empty), and checks that its pod goes. Only in `node_overlap` a volume has a
  serial id, so that `BindDevice` is run at all; no run claims that such a volume is found on a physical node.
* `PodGoes`: a target path with a directory of the host bound to it. A publication that its kubelet gave up on may bind the bare
  staging directory after the volume was unmounted from it. It does not look like a mount, is not unmounted, and keeps the path busy.
* `PodGoes`: a reboot, after which the kubelet starts the pod again.
* `Published`: volumes that Cinder could not build. CreateVolume answers with them, and nothing replaces them.
* `CompleteWithLimit`: listings without a limit, of which only the first page is returned (openstack_volume:208).

`Driver` states no fairness: `Published` is what
`PodRuns` starts from, `PodGoes` what `Unpublished` waits for, and their conjunction is not checked end to end.

`Published`, `Unpublished` and `Removed` are checked for the failures that AttachVolume undoes: of getVolume, of the connection and of
the update of the attachment (`RolledBack`). The first poll of a wait loop always succeeds with these, so `AttachSteps` and `DetachSteps`
are 1 there; polls that run into their limit are in `attach_faults`. They do **not** hold for others, which is the code's behaviour and listed as hazards:

* an error of attachments.Complete, an exit between attachments.Create and Complete, or a lost
  answer leaves an attachment behind; ControllerUnpublishVolume is then refused by
  begin-detaching, which wants a volume in use, until a publication to the same node succeeds;
* an error in DetachVolume after begin-detaching leaves the volume *detaching*, and every
  later call is refused;
* an error of GetNodeIdForECS makes an attachment without a server that no loop recognises;
* GetVolumesByName of a CreateVolume sets the microversion to 3.34 between Create and Complete of an AttachVolume.

### The findings

* `overlap_lost`: a publish handler for node 1 that was given up on connects the device again and
  completes after the detach of its successor. A publication to node 2 has meanwhile been refused,
  and its detachment takes `Attachments[0]`, node 1's, sends the disconnection to node 2 and
  releases the attachment. The volume is deleted while node 1 has its device. It takes overlapping calls
  and a transport (iSCSI, FC) whose disconnect succeeds when nothing is connected: `rbd unmap` fails
  instead, which is why `NoOrphanDevice` holds in `attach_overlap` (and is proved, section 4).
* `node_reboot`: `context` survives a reboot, devices do not; the next volume attached gets the path
  and is formatted or mounted in place of the first.
* `provision_overlap`: lookup and creation are two requests; two overlapping handlers both create.

## 4. The proofs

`ControllerAttachProofs` (no bound on nodes, volumes, calls, failures, exits; with overlap):

* `TypeCorrect`: `Spec => []TypeOK`. `TypeOK` is inductive because `CallRecord` says which fields
  a running call has set. The proof classifies a handler's step by what it asks of
  Cinder (`CinderRequest`), of the bridge (`BridgeRequest`) and by what it does to
  the call (`CallStep`: proceeds, returns, polls).
* `SingleNodeCorrect`: `Spec => []SingleNodeAttached`. The property alone is not inductive: a new attachment
  may be made where Cinder believes the volume free. `SingleNodeInv` adds `FreeUnheld` (a
  volume that is available, deleting or deleted has no attachment), `OwnServer` (an attachment is known by its
  node's id or by none) and `CallServer` (so is what a handler is about to ask for). Then Cinder's
  rule, which reserves an attached volume again only for the same server, and the
  injectivity of `EcsNode` (`ControllerAssumption`) give the step.

* `NoOrphanDeviceOverlapping`, `DevicesOnOneNodeOverlapping`, `DeletedNotMappedOverlapping`: the invariants about devices without
  the sidecars' discipline, under `OnlyRbd` (volumes of Ceph, whose `rbd unmap` fails when nothing is mapped) and finitely many
  attachments and paths; any overlap, failures, exits, and CreateVolume calls beside. `overlap_lost` shows that `OnlyRbd` cannot be
  dropped. `OverlapInv` counts: an attachment is `Bare` while a handler is about to connect it, or has disconnected
  it and is about to release it, and a node has at most one device for each attachment that is not (`BackedDevices`). A
  disconnection makes one attachment bare. It succeeds only where there is a device, hence an attachment of the handler's node, and by
  `SingleNodeAttached` and `OfVolume` the attachment that the handler picked, whosever it was, is of this node as well. `Fresh`
  says that a handler which connects is alone with its attachment, since nothing lists it yet. `StaysBacked` is the rest:
  no other step makes an attachment bare, and only bare ones are released.

`ControllerDetachProofs` (`ASSUME ~Deadlines`, a finite number of attachments and paths; any failures, exits, transports,
and CreateVolume calls beside): `NoOrphanDevice`, `DevicesOnOneNode`, `DetachFindsAttachment`, `ReleasesOwn`,
`AttachedIsAttached`, `DeletedNotMapped` and `UnpublishTruthful`, all from one inductive invariant, `DetachInv`. Without `~Deadlines` several
of them are false (`overlap_lost`). None of them is inductive, since what is left of a call that failed is not
known from the calls that run. The parts of `DetachInv`:

* `Covered`: a node has at most as many devices of a volume as attachments. This is the argument against
  orphans. `Spare`, one less, is what a handler has before it connects, and again after it disconnects;
  a handler that releases an attachment has one to spare, so that counting goes on afterwards. That
  a device is connected more than once (`rbd map`) makes the count necessary: it is not enough that there is *an* attachment.
* `ServiceInv`: an attachment that was made without a server id is the only one of its volume, because nobody may
  reserve the volume again; a volume in use or detaching has a listed attachment, hence `Attachments[0]`.
* `ViewInv`: what is listed is for the node the sidecars have in mind, and nothing is listed of what they have as detached.
* `SlotInv`, `OneHandler`: a handler is awaited, and the only one of its volume. `LocalStep` then reduces a step to
  the volume it is about. There is one lemma per request for what it does to the services (`...Effect`), whether it
  is answered with success or not.

`ControllerPromiseProofs` (same assumptions): `ImplementsExclusiveCorrect`, `Spec => ImplementsExclusive`. Under `DetachInv` every step
is, for the volume it is about, one of `ExclusiveVolume`'s or a stutter (`AbstractStep`), and other volumes do not see it (`OneVolume`).

In the same module, `PublishedPathCorrect`, `Spec => []PublishedPath`, under `RolledBack`: sidecars wait for their calls, no
request fails but those whose failure AttachVolume undoes (`CleanedUp`), the plugin does not exit, and no CreateVolume runs
beside. Section 2 says why it is false for other failures. `PublishInv` adds to `DetachInv`:

* `VolumeInv`: a volume has one attachment at most, with a server id, and outside of a call only if its last publication succeeded;
* `PathInv`: a handler starts from a volume without attachment, the path that it carries from the bridge to
  attachments.Update and Complete is one of the volume's, and it never disconnects in vain. No publication can thus find the
  attachment of an earlier one, whose path is old.

Its second part, `Sight`, says what a node sees of a step of the controller plugin: nothing, or one thing of one volume
(`NodeStep`): a first device comes, a device of a volume that is not attached goes, the path is handed over, it is
revoked, or the volume is deleted.

`NodeServerProofs`:

* `TypeCorrect`: `Spec => []TypeOK`, without further assumptions, with overlapping handlers and reboots.
* `PodSeesVolumeCorrect`, `StagedOwnCorrect`, `GrownBeforeUseCorrect` and `NeverFormatsDataCorrect`, under
  `~Deadlines` and `MaxReboots = 0`. `node_reboot` shows that the second is needed. `PodInv` adds that the path
  in the publish context is the volume's (`MountInv`), that a handler works with the path of the present context and
  is awaited in the phase its request belongs to, and that a volume about to be formatted is as blank as blkid found it
  (`SlotInv`): nobody else can write to it meanwhile, because it is attached to one node (`OneNode`) and has one handler.

`NodeStorageProofs` (same two assumptions): `ImplementsStorageCorrect`, `NodeServer` implements `PodStorage`. `StorageInv` adds to `PodInv` that
nothing is mounted for a volume before it is staged and after it is unstaged, that a path at which something is mounted exists (so that
UnmountPath does not take a mounted path for one that was cleaned before), and that what is staged, or about to be mounted, has a
file system (`UsedInv`, `FormattedInv`). A step then starts or stops the one user of a volume, formats or writes, or does
not show (`Stores`).

`DriverProofs` (`RolledBack`: the failures that AttachVolume undoes, finite sets), about both plugins for any number of volumes, nodes and calls.
`Driver` itself has no exits of the plugins, no calls that are given up on, no reboots and no CreateVolume beside; with an exit or a
CreateVolume between attachments.Create and Complete, `ImplementsNodeServer` fails for the same reason as `PublishedPath`. The theorems are:

* `ImplementsNodeServerCorrect`: `Spec => ImplementsNodeServer`. `DriverInv` is the conjunction of
  `PublishInv` and `StorageInv`, which circle: `StorageInv` is preserved because the controller side takes only steps that
  `NodeServer` expects (`ControllerSees`), and this is so because a volume that is not attached is not mounted (`MountedTold`),
  which is part of `StorageInv` of the state before. Each kind of `Sight` becomes one action of the environment of `NodeServer`;
  that of a revocation needs `DetachesUnstaged`.
* `MountedWhereAttachedCorrect`: `Spec => []MountedWhereAttached`, from `MountedTold` and `AttachedFacts`.
* `ImplementsPodStorageCorrect`: `Spec => ImplementsPodStorage`, from `Stores`.

The theorems about `ControllerAttach` and `NodeServer` are used through instances (`CP`, `NP`) of their proof modules.
`SameController` and `SameNode` say that these and the instances of `Driver` are the same.

`ProvisionProofs`:

* `RoundUpSizeCovers`: the rounding returns the least number of units that holds the bytes.
* `CapacityCorrect`: `Spec => []CapacityCovers`, from `CapacityInv` (types, running calls have a name,
  bound claims have an id), also with overlap.
* `OneVolumeCorrect`: `ASSUME ~Deadlines PROVE Spec => []OneVolumePerName`. `NameInv` adds that every handler is
  awaited, no two have the same name, and one about to create has found no volume of its
  name. The run `provision_overlap` shows that the assumption is needed.

`ListingProofs` (no bound on volumes, limits, pages and failures):

* `CompleteWithLimitCorrect` and `NeverListedTwice`: `Spec => []CompleteWithLimit` (every limit but 0) and `Spec => []ListedOnce` (every limit). Neither is inductive, since
  what the next page adds depends on where its token is. `ListInv` says that no volume that follows the token is listed,
  and that every volume that stayed is listed or follows the token, while Cinder knows the token. `UsedOnce` adds that a volume
  has one place and that identifiers do not come back: a deleted token stays unknown, and
  the listing starts again. `BehindMarker`, `PageContents` and `NextPage` say what Cinder's answer and the token are in
  terms of places (`At`), `AddPage` what a page adds to a list. A creation moves all places, a
  deletion those behind it, and neither changes what follows what (`CreateKeeps`, `DeleteKeeps`).

Leaves of all proofs are small enough for a tenth of the prover's usual time (`tlapm --stretch 0.1`).

Assumptions: those named in the modules (`ClusterAssumption`, `BridgeAssumption`,
`ControllerAssumption`, `NodeAssumption`, `DriverAssumption`, `ListingAssumption`, `ProvisionAssumption`). What `Cinder` and `Bridge` say of code outside
of the repository is assumed throughout.

Only model-checked: liveness (fairness and ENABLED are beyond the prover), `ListingEnds` among it. With overlapping calls, the types,
`SingleNodeAttached`, the three device invariants above (Ceph) and `CapacityCovers` are proved, and `PodGoes` is checked; the other invariants are
false or are checked, and proved, for sidecars that wait.

## 5. What the models assume and leave out

* Cinder: a volume without attachments may be reserved by anyone, one with attachments only for the
  same instance id; only completed attachments are listed; begin-detaching wants a volume in
  use; a deletion is accepted for an available one.
* Bridge: `rbd map` makes a new device each time, `rbd unmap` removes one and fails when there is
  none; os-brick connects and disconnects idempotently. A connect that is answered with an error leaves no device; one whose answer does
  not arrive ends the plugin (`Restart`), with or without a device.
* Node: mkfs refuses a mounted device, mount a staging path that is mounted; a mounted device
  is not disconnected; bind mounts stack; umount of a path without a mount is no error; a path at which something is mounted is not removed.
* Kubernetes: a kubelet calls in the order stage, publish, unpublish, unstage, a volume is
  detached only after it is unstaged, and the lister of volumes starts again on an error.
* Block volumes are looked up by a serial id (`Serial`), which no device of a physical node has: its volume is never published (section 3).
* blkid and mkfs are two commands. A handler that its kubelet gave up on, and that stops between them for the whole life of a pod, would
  format what the pod wrote: `NeverFormatsData`, `PodSeesVolume` and the refinements are checked and proved for a kubelet that waits.

Not modelled, and why:

* topology, volume types, tags, capabilities: data that no state change depends on; ValidateVolumeCapabilities compares
  a request with a constant;
* NodeGetVolumeStats, NodeGetInfo, the identity server: reads and constants;
* gRPC server, driver set-up, command line, authentication: sequential start-up. `Serve` starts one goroutine, and `Wait`
  waits on a group that nobody decrements (server:94); the process ends by a signal, so there is no behaviour to check;
* the ioctl for the size of a device: one system call;
* `ScanForAttach`, `GetMountFs`: no caller;
* the microversion of the Go client as a data race: it is a string that the handlers write without a lock, modelled as
  one atomic variable.

## 6. Plan

Done, in this order: the shared modules, attach and detach with its abstract specification, the node
plugin, provisioning, first theorems; volumes under construction, lost volumes, several nodes, the composition and its two
refinements, ListVolumes; proofs of the types and of what
pods find in `NodeServer`, of everything about devices in `ControllerAttach`, of both refinements of single plugins, and of
what `Driver` promises; proofs about `Listing`.

Left:

1. End-to-end liveness in `Driver`: with two volumes and two nodes the state graph without symmetry is too large for TLC.
