----------------------------- MODULE NodeServer -----------------------------
(***************************************************************************)
(* The node plugin: NodeStageVolume, NodePublishVolume, NodeUnpublishVolume*)
(* and NodeUnstageVolume of nodeserver.go with the mount helpers of        *)
(* mount.go, on every node.                                                *)
(*                                                                         *)
(* The handlers keep no state and take no lock.  What they read and change *)
(* is the node's: its block devices, the mount at the staging path of a    *)
(* volume, the mounts at its target path, which stack, and whether the two *)
(* paths exist.  What is on a volume moves with it from node to node.  An  *)
(* action is one look at or change of the node, because mkfs, mount and    *)
(* umount are commands of their own and another handler may run between    *)
(* them.                                                                   *)
(*                                                                         *)
(* The environment is the kubelet of each node, which repeats a call until *)
(* it succeeds and may give up waiting for one that still runs, the        *)
(* controller side, which attaches and detaches (Driver shows that         *)
(* ControllerAttach does what is assumed of it here), a Cinder that may    *)
(* lose a volume, and reboots.                                             *)
(***************************************************************************)
EXTENDS Naturals, Sequences, FiniteSets, Bridge

CONSTANTS
    Block,          \* the volumes used as raw block devices
    Serial,         \* the volumes whose device shows up in /dev/disk/by-id
    FromSource,     \* the volumes made from a snapshot or another volume
    Calls,          \* slots for calls that run at the same time
    ProbeSteps,     \* polls of GetDevicePath (operationFinishSteps)
    MaxFaults,      \* bound on failing commands and requests, and on deadlines
    MaxReboots,     \* bound on reboots of a node
    MaxLosses,      \* bound on the volumes that disappear from Cinder
    MaxMounts,      \* bound on the mounts at a target path that is published again
    Deadlines       \* TRUE: the kubelet may give up on a call that still runs

VARIABLES
    context,        \* node -> volume -> DevicePath of its publish context, None: no such
    disk,           \* volume -> what is on it
    grown,          \* volume -> its file system is as large as the volume
    lost,           \* the volumes that Cinder does not know any more
    staging,        \* node -> volume -> the volume mounted at its staging path
    target,         \* node -> volume -> what is mounted at its target path, newest first
    dirs,           \* node -> volume -> which of its two paths exist
    call,           \* slot -> the local state of its handler
    kubelet,        \* node -> volume -> what the kubelet has achieved, or is about to
    faults,
    reboots

vars == <<device, context, disk, grown, lost, staging, target, dirs, call, kubelet, faults,
          reboots>>

\* What a target path may show: a volume, or the empty directory of the host
\* that a staging path is when nothing is mounted there.
HostDir == "hostDir"

\* The paths that the kubelet chooses for a volume, and that the plugin makes and
\* removes: a directory, or a file for a block device.
Places == {"staging", "target"}

ASSUME NodeAssumption ==
    /\ HostDir \notin Volumes
    /\ Block \subseteq Volumes
    /\ Serial \subseteq Volumes
    /\ FromSource \subseteq Volumes
    /\ ProbeSteps \in Nat \ {0}
    /\ MaxFaults \in Nat
    /\ MaxReboots \in Nat
    /\ MaxLosses \in Nat
    /\ MaxMounts \in Nat \ {0}
    /\ Deadlines \in BOOLEAN

StagePC == {"stage", "probe", "mkfs", "mount", "resize"}
PublishPC == {"publish", "findDevice", "bindDevice", "bindStaging"}
CleanupPC == {"unpublish", "unstage"}
Requests == StagePC \cup PublishPC \cup CleanupPC

\* The steps of UnmountPath, at the target path or at the staging path.
Cleanup == {"check", "umount", "recheck", "remove"}

\* What the kubelet does for a volume of a pod, in the order it does it.
Phases == {"idle", "staging", "publishing", "running", "unpublishing", "unstaging"}

Idle == [pc |-> "idle", node |-> None, volume |-> None, path |-> None, tries |-> 0,
         step |-> "check", waiting |-> FALSE]

TypeOK ==
    /\ BridgeTypeOK
    /\ context \in [Nodes -> [Volumes -> Paths \cup {None}]]
    /\ disk \in [Volumes -> {"blank", "empty", "data"}]
    /\ grown \in [Volumes -> BOOLEAN]
    /\ lost \subseteq Volumes
    /\ staging \in [Nodes -> [Volumes -> Volumes \cup {None}]]
    /\ target \in [Nodes -> [Volumes -> Seq(Volumes \cup {HostDir})]]
    /\ dirs \in [Nodes -> [Volumes -> SUBSET Places]]
    /\ call \in [Calls -> [pc : Requests \cup {"idle"}, node : Nodes \cup {None},
                           volume : Volumes \cup {None}, path : Paths \cup {None},
                           tries : 0 .. ProbeSteps - 1, step : Cleanup, waiting : BOOLEAN]]
    /\ kubelet \in [Nodes -> [Volumes -> Phases]]
    /\ faults \in 0 .. MaxFaults
    /\ reboots \in 0 .. MaxReboots

Init ==
    /\ BridgeInit
    /\ context = [n \in Nodes |-> [v \in Volumes |-> None]]
    /\ disk = [v \in Volumes |-> IF v \in FromSource THEN "data" ELSE "blank"]
    /\ grown = [v \in Volumes |-> v \notin FromSource]
    /\ lost = {}
    /\ staging = [n \in Nodes |-> [v \in Volumes |-> None]]
    /\ target = [n \in Nodes |-> [v \in Volumes |-> <<>>]]
    /\ dirs = [n \in Nodes |-> [v \in Volumes |-> {}]]
    /\ call = [c \in Calls |-> Idle]
    /\ kubelet = [n \in Nodes |-> [v \in Volumes |-> "idle"]]
    /\ faults = 0
    /\ reboots = 0

-----------------------------------------------------------------------------
mounts == <<staging, target, dirs>>
storage == <<disk, grown>>
cluster == <<context, lost>>
node == <<device, storage, mounts>>
bounds == <<faults, reboots>>

Goto(c, pc) ==
    /\ call' = [call EXCEPT ![c].pc = pc]
    /\ UNCHANGED kubelet

\* The handler returns; a kubelet that still waits goes on to phase.
Answer(c, phase) ==
    /\ call' = [call EXCEPT ![c] = Idle]
    /\ kubelet' = IF call[c].waiting
                  THEN [kubelet EXCEPT ![call[c].node][call[c].volume] = phase]
                  ELSE kubelet

Fail(c) == Answer(c, kubelet[call[c].node][call[c].volume])

\* A command that cannot do its work changes nothing.
Refused(c) == Fail(c) /\ UNCHANGED node

\* Every handler asks Cinder for its volume first, and fails if it is gone.
\* NodeUnpublishVolume then looks for an ephemeral volume of that name, which
\* nothing ever makes.
Found(c) == call[c].volume \notin lost

Staged(c) == staging[call[c].node][call[c].volume]

Exists(c, place) == place \in dirs[call[c].node][call[c].volume]

Make(c, place) ==
    /\ dirs' = [dirs EXCEPT ![call[c].node][call[c].volume] = @ \cup {place}]
    /\ UNCHANGED <<device, storage, staging, target>>

RemovePath(c, place) ==
    /\ dirs' = [dirs EXCEPT ![call[c].node][call[c].volume] = @ \ {place}]
    /\ UNCHANGED <<device, storage, staging, target>>

\* The volume behind the device path that a handler was given, if there is one.
Behind(c) == IF call[c].path = None THEN None ELSE device[call[c].node][call[c].path]

\* A device is in use while a file system on it is mounted.
Mounted(n, v) ==
    \E u \in Volumes :
        staging[n][u] = v \/ \E i \in DOMAIN target[n][u] : target[n][u][i] = v

\* IsLikelyNotMountPointAttach compares the device of a path with that of its
\* parent, so a directory of the host bound to the path escapes it.
LooksMounted(n, v) == target[n][v] # <<>> /\ Head(target[n][v]) # HostDir

-----------------------------------------------------------------------------
(* NodeStageVolume *)

\* What is left to do once the staging path has a mount: only a volume made from
\* another one has its file system resized.
Stage_OnlyMakesPath(c) ==
    LET v == call[c].volume IN
    /\ call[c].pc = "stage"
    /\ IF ~Found(c) THEN Refused(c)
       ELSE /\ Answer(c, "publishing")
            /\ IF v \in Block THEN UNCHANGED node ELSE Make(c, "staging")
    /\ UNCHANGED <<cluster, bounds>>

Stage_MountsAgain(c) ==
    LET v == call[c].volume IN
    /\ call[c].pc = "stage"
    /\ IF ~Found(c) THEN Refused(c)
       ELSE IF v \in Block THEN Answer(c, "publishing") /\ UNCHANGED node
       ELSE Make(c, "staging") /\ Goto(c, "probe")
    /\ UNCHANGED <<cluster, bounds>>

Stage_SkipsResize(c) ==
    LET v == call[c].volume IN
    /\ call[c].pc = "stage"
    /\ IF ~Found(c) THEN Refused(c)
       ELSE IF v \notin Block /\ Staged(c) = None THEN Make(c, "staging") /\ Goto(c, "probe")
       ELSE Answer(c, "publishing") /\ UNCHANGED node
    /\ UNCHANGED <<cluster, bounds>>

Stage(c) ==
    LET v == call[c].volume IN
    /\ call[c].pc = "stage"
    /\ IF ~Found(c) THEN Refused(c)
       ELSE IF v \notin Block /\ Staged(c) = None THEN Make(c, "staging") /\ Goto(c, "probe")
       ELSE /\ IF v \in FromSource \ Block THEN Goto(c, "resize") ELSE Answer(c, "publishing")
            /\ UNCHANGED node
    /\ UNCHANGED <<cluster, bounds>>

\* FormatAndMount: what blkid says of the device decides whether mkfs runs.
Probe_AlwaysFormats(c) ==
    /\ call[c].pc = "probe"
    /\ IF Behind(c) = None THEN Fail(c) ELSE Goto(c, "mkfs")
    /\ UNCHANGED <<node, cluster, bounds>>

Probe(c) ==
    /\ call[c].pc = "probe"
    /\ IF Behind(c) = None THEN Fail(c)
       ELSE IF disk[Behind(c)] = "blank" THEN Goto(c, "mkfs")
       ELSE Goto(c, "mount")
    /\ UNCHANGED <<node, cluster, bounds>>

\* mkfs refuses a device that is mounted.
CanFormat(c) == Behind(c) # None /\ ~Mounted(call[c].node, Behind(c))

Format(c) ==
    /\ call[c].pc = "mkfs"
    /\ CanFormat(c)
    /\ disk' = [disk EXCEPT ![Behind(c)] = "empty"]
    /\ grown' = [grown EXCEPT ![Behind(c)] = TRUE]
    /\ UNCHANGED <<device, mounts>>

Mkfs(c) ==
    /\ call[c].pc = "mkfs"
    /\ IF CanFormat(c) THEN Format(c) /\ Goto(c, "mount") ELSE Refused(c)
    /\ UNCHANGED <<cluster, bounds>>

\* mount needs its device and its directory, and refuses a place where something is
\* mounted already.
CanMount(c) == Behind(c) # None /\ Staged(c) = None /\ Exists(c, "staging")

MountVolume(c) ==
    /\ call[c].pc = "mount"
    /\ CanMount(c)
    /\ staging' = [staging EXCEPT ![call[c].node][call[c].volume] = Behind(c)]
    /\ UNCHANGED <<device, storage, target, dirs>>

MountStaging(c) ==
    /\ call[c].pc = "mount"
    /\ IF CanMount(c)
       THEN /\ MountVolume(c)
            /\ IF call[c].volume \in FromSource THEN Goto(c, "resize") ELSE Answer(c, "publishing")
       ELSE Refused(c)
    /\ UNCHANGED <<cluster, bounds>>

\* NeedResize and Resize of the device at the path of the publish context.
CanGrow(c) == Behind(c) # None

Grow(c) ==
    /\ call[c].pc = "resize"
    /\ CanGrow(c)
    /\ grown' = [grown EXCEPT ![Behind(c)] = TRUE]
    /\ UNCHANGED <<device, disk, mounts>>

Resize(c) ==
    /\ call[c].pc = "resize"
    /\ IF CanGrow(c) THEN Grow(c) /\ Answer(c, "publishing") ELSE Refused(c)
    /\ UNCHANGED <<cluster, bounds>>

-----------------------------------------------------------------------------
(* NodePublishVolume *)

\* A file system volume is bound from its staging path, unless something is
\* mounted at the target path already; a block volume is looked up first.
Publish(c) ==
    LET v == call[c].volume IN
    /\ call[c].pc = "publish"
    /\ IF ~Found(c) THEN Refused(c)
       ELSE IF v \in Block THEN Goto(c, "findDevice") /\ UNCHANGED node
       ELSE IF LooksMounted(call[c].node, v) THEN Answer(c, "running") /\ UNCHANGED node
       ELSE Make(c, "target") /\ Goto(c, "bindStaging")
    /\ UNCHANGED <<cluster, bounds>>

\* A new mount at a target path hides the ones below it.
Bind(c, what) ==
    /\ target' = [target EXCEPT ![call[c].node][call[c].volume] = <<what>> \o @]
    /\ UNCHANGED <<device, storage, staging, dirs>>

CanBindDir(c) == Exists(c, "staging") /\ Exists(c, "target")

BindDir(c) ==
    /\ call[c].pc = "bindStaging"
    /\ CanBindDir(c)
    /\ Bind(c, IF Staged(c) = None THEN HostDir ELSE Staged(c))

BindStaging(c) ==
    /\ call[c].pc = "bindStaging"
    /\ IF CanBindDir(c) THEN BindDir(c) /\ Answer(c, "running") ELSE Refused(c)
    /\ UNCHANGED <<cluster, bounds>>

\* One poll of GetDevicePath for a device that carries the volume's id in its name,
\* as the disks of virtual machines do.
Appears(c) ==
    call[c].volume \in Serial /\ Mapped(call[c].node, call[c].volume) # {}

FindDevice_OffByOne(c) ==
    /\ call[c].pc = "findDevice"
    /\ IF Appears(c) THEN Make(c, "target") /\ Goto(c, "bindDevice")
       ELSE /\ UNCHANGED node
            /\ IF call[c].tries < ProbeSteps
               THEN call' = [call EXCEPT ![c].tries = @ + 1] /\ UNCHANGED kubelet
               ELSE Fail(c)
    /\ UNCHANGED <<cluster, bounds>>

\* When the device is found, the file to bind it to is made.
FindDevice(c) ==
    /\ call[c].pc = "findDevice"
    /\ IF Appears(c) THEN Make(c, "target") /\ Goto(c, "bindDevice")
       ELSE /\ UNCHANGED node
            /\ IF call[c].tries + 1 < ProbeSteps
               THEN call' = [call EXCEPT ![c].tries = @ + 1] /\ UNCHANGED kubelet
               ELSE Fail(c)
    /\ UNCHANGED <<cluster, bounds>>

\* The device is bound whether or not there is a mount already; the link by id is
\* followed when it is bound.  When that fails, the file is removed, unless a device
\* is bound to it.
CanBindBlock(c) ==
    Mapped(call[c].node, call[c].volume) # {} /\ Exists(c, "target")

BindBlock(c) ==
    /\ call[c].pc = "bindDevice"
    /\ CanBindBlock(c)
    /\ Bind(c, call[c].volume)

DropFile(c) ==
    /\ call[c].pc = "bindDevice"
    /\ IF target[call[c].node][call[c].volume] = <<>>
       THEN RemovePath(c, "target") ELSE UNCHANGED node

BindDevice(c) ==
    /\ call[c].pc = "bindDevice"
    /\ IF CanBindBlock(c)
       THEN BindBlock(c) /\ Answer(c, "running")
       ELSE DropFile(c) /\ Fail(c)
    /\ UNCHANGED <<cluster, bounds>>

-----------------------------------------------------------------------------
(* NodeUnpublishVolume and NodeUnstageVolume: after the question to Cinder,  *)
(* UnmountPath is the same for the target path and for the staging path.  It *)
(* looks for a mount, has the newest one taken away, looks again and removes *)
(* the path, which fails when something is mounted there after all.          *)

At(c, step) == call[c].pc \in CleanupPC /\ call[c].step = step

Continue(c, step) ==
    /\ call' = [call EXCEPT ![c].step = step]
    /\ UNCHANGED kubelet

Place(c) == IF call[c].pc = "unpublish" THEN "target" ELSE "staging"

\* What is mounted at the path, and whether IsLikelyNotMountPoint sees it.
Covered(c) ==
    IF call[c].pc = "unpublish"
    THEN target[call[c].node][call[c].volume] # <<>> ELSE Staged(c) # None

ShowsMount(c) ==
    IF call[c].pc = "unpublish"
    THEN LooksMounted(call[c].node, call[c].volume) ELSE Staged(c) # None

Cleaned(c) == Answer(c, IF call[c].pc = "unpublish" THEN "unstaging" ELSE "idle")

CheckMount_NeedsPath(c) ==
    /\ At(c, "check")
    /\ IF ~Found(c) \/ ~Exists(c, Place(c)) THEN Fail(c)
       ELSE Continue(c, IF ShowsMount(c) THEN "umount" ELSE "remove")
    /\ UNCHANGED <<node, cluster, bounds>>

CheckMount_LeavesStaging(c) ==
    /\ At(c, "check")
    /\ IF ~Found(c) THEN Fail(c)
       ELSE IF ~Exists(c, Place(c)) \/ Place(c) = "staging" THEN Cleaned(c)
       ELSE Continue(c, IF ShowsMount(c) THEN "umount" ELSE "remove")
    /\ UNCHANGED <<node, cluster, bounds>>

\* A path that does not exist has been cleaned up before.
CheckMount(c) ==
    /\ At(c, "check")
    /\ IF ~Found(c) THEN Fail(c)
       ELSE IF ~Exists(c, Place(c)) THEN Cleaned(c)
       ELSE Continue(c, IF ShowsMount(c) THEN "umount" ELSE "remove")
    /\ UNCHANGED <<node, cluster, bounds>>

\* umount takes the newest mount away; where nothing is mounted any more, it counts
\* as done.
Below(stack) == IF stack = <<>> THEN stack ELSE Tail(stack)

TakeOff(c) ==
    LET n == call[c].node
        v == call[c].volume
    IN
    /\ At(c, "umount")
    /\ Exists(c, Place(c))
    /\ IF call[c].pc = "unpublish"
       THEN /\ target' = [target EXCEPT ![n][v] = Below(@)]
            /\ UNCHANGED staging
       ELSE staging' = [staging EXCEPT ![n][v] = None] /\ UNCHANGED target
    /\ UNCHANGED <<device, storage, dirs>>

Umount(c) ==
    /\ At(c, "umount")
    /\ IF Exists(c, Place(c)) THEN TakeOff(c) /\ Continue(c, "recheck") ELSE Refused(c)
    /\ UNCHANGED <<cluster, bounds>>

Recheck(c) ==
    /\ At(c, "recheck")
    /\ IF Exists(c, Place(c)) /\ ~ShowsMount(c) THEN Continue(c, "remove") ELSE Fail(c)
    /\ UNCHANGED <<node, cluster, bounds>>

CanRemove(c) == Exists(c, Place(c)) /\ ~Covered(c)

Delete(c) == At(c, "remove") /\ CanRemove(c) /\ RemovePath(c, Place(c))

Remove(c) ==
    /\ At(c, "remove")
    /\ IF CanRemove(c) THEN Delete(c) /\ Cleaned(c) ELSE Refused(c)
    /\ UNCHANGED <<cluster, bounds>>

\* The command that a handler is about to give.
Command(c) ==
    \/ Format(c) \/ MountVolume(c) \/ Grow(c) \/ BindDir(c) \/ BindBlock(c) \/ DropFile(c)
    \/ TakeOff(c) \/ Delete(c)

\* A request to Cinder or a command fails, or the plugin exits.  The command may have
\* done its work all the same.
Fails(c) ==
    /\ call[c].pc # "idle"
    /\ faults < MaxFaults
    /\ faults' = faults + 1
    /\ Fail(c)
    /\ UNCHANGED node \/ Command(c)
    /\ UNCHANGED <<cluster, reboots>>

-----------------------------------------------------------------------------
(* The kubelets *)

\* A call for a volume carries the device path of its publish context.  Calls of
\* different kubelets do not wait for one another.
Start(c, n, v, pc) ==
    /\ call[c] = Idle
    /\ \A d \in Calls : call[d].waiting => <<call[d].node, call[d].volume>> # <<n, v>>
    /\ call' = [call EXCEPT ![c] =
          [Idle EXCEPT !.pc = pc, !.node = n, !.volume = v, !.path = context[n][v],
                       !.waiting = TRUE]]
    /\ UNCHANGED <<node, cluster, bounds>>

CallStage(c, n, v) ==
    /\ context[n][v] # None
    /\ kubelet[n][v] \in {"idle", "staging"}
    /\ Start(c, n, v, "stage")
    /\ kubelet' = [kubelet EXCEPT ![n][v] = "staging"]

CallPublish(c, n, v) ==
    /\ kubelet[n][v] = "publishing"
    /\ Len(target[n][v]) < MaxMounts
    /\ Start(c, n, v, "publish")
    /\ UNCHANGED kubelet

\* The pod is to go, whether or not it ever ran.
CallUnpublish(c, n, v) ==
    /\ kubelet[n][v] \in {"publishing", "running", "unpublishing"}
    /\ Start(c, n, v, "unpublish")
    /\ kubelet' = [kubelet EXCEPT ![n][v] = "unpublishing"]

CallUnstage(c, n, v) ==
    /\ kubelet[n][v] \in {"staging", "unstaging"}
    /\ Start(c, n, v, "unstage")
    /\ kubelet' = [kubelet EXCEPT ![n][v] = "unstaging"]

DeadlineExpires(c) ==
    /\ Deadlines
    /\ call[c].waiting
    /\ faults < MaxFaults
    /\ faults' = faults + 1
    /\ call' = [call EXCEPT ![c].waiting = FALSE]
    /\ UNCHANGED <<node, cluster, kubelet, reboots>>

\* The pod writes to what it finds at the target path.
PodWrites(n, v) ==
    /\ kubelet[n][v] = "running"
    /\ LooksMounted(n, v)
    /\ disk' = [disk EXCEPT ![Head(target[n][v])] = "data"]
    /\ UNCHANGED <<device, grown, mounts, cluster, call, kubelet, bounds>>

-----------------------------------------------------------------------------
(* The controller side, Cinder and the nodes themselves *)

\* A volume gets a device on a node while it is attached nowhere.
Connects(n, v) ==
    /\ \A m \in Nodes : context[m][v] = None /\ Mapped(m, v) = {}
    /\ \E p \in Paths : Connect(n, v, p)
    /\ UNCHANGED <<storage, mounts, cluster, call, kubelet, bounds>>

\* ControllerPublishVolume succeeds, and hands the path of the device over.
Attach(n, v) ==
    /\ \A m \in Nodes : context[m][v] = None
    /\ \E p \in Mapped(n, v) : context' = [context EXCEPT ![n][v] = p]
    /\ UNCHANGED <<node, lost, call, kubelet, bounds>>

\* A volume is to be detached only after the kubelet has unstaged it.
Revoke(n, v) ==
    /\ context[n][v] # None
    /\ kubelet[n][v] = "idle"
    /\ context' = [context EXCEPT ![n][v] = None]
    /\ UNCHANGED <<node, lost, call, kubelet, bounds>>

\* A mounted device is busy.
Disconnects(n, v) ==
    /\ context[n][v] = None
    /\ ~Mounted(n, v)
    /\ Disconnect(n, v)
    /\ UNCHANGED <<storage, mounts, cluster, call, kubelet, bounds>>

\* Somebody deletes the volume, in use or not.
Lose(v) ==
    /\ v \notin lost
    /\ Cardinality(lost) < MaxLosses
    /\ lost' = lost \cup {v}
    /\ UNCHANGED <<node, context, call, kubelet, bounds>>

\* Mounts and devices are gone, directories and publish contexts are not: the
\* controller side still takes the volumes for attached, and the kubelet starts its
\* pods again.
Reboot(n) ==
    /\ reboots < MaxReboots
    /\ reboots' = reboots + 1
    /\ device' = [device EXCEPT ![n] = [p \in Paths |-> None]]
    /\ staging' = [staging EXCEPT ![n] = [v \in Volumes |-> None]]
    /\ target' = [target EXCEPT ![n] = [v \in Volumes |-> <<>>]]
    /\ call' = [c \in Calls |-> IF call[c].node = n THEN Idle ELSE call[c]]
    /\ kubelet' = [kubelet EXCEPT ![n] =
          [v \in Volumes |-> IF kubelet[n][v] = "idle" THEN "idle" ELSE "staging"]]
    /\ UNCHANGED <<storage, dirs, cluster, faults>>

Handler(c) ==
    \/ Stage(c) \/ Probe(c) \/ Mkfs(c) \/ MountStaging(c) \/ Resize(c)
    \/ Publish(c) \/ BindStaging(c) \/ FindDevice(c) \/ BindDevice(c)
    \/ CheckMount(c) \/ Umount(c) \/ Recheck(c) \/ Remove(c)

Kubelet(c, n, v) ==
    CallStage(c, n, v) \/ CallPublish(c, n, v) \/ CallUnpublish(c, n, v) \/ CallUnstage(c, n, v)

\* What the node plugins and the kubelets do, and what the rest of the system does.
Nodewise ==
    \/ \E c \in Calls : Handler(c) \/ Fails(c) \/ DeadlineExpires(c)
    \/ \E c \in Calls, n \in Nodes, v \in Volumes : Kubelet(c, n, v)
    \/ \E n \in Nodes, v \in Volumes : PodWrites(n, v)

Environment ==
    \/ \E n \in Nodes, v \in Volumes :
          Connects(n, v) \/ Attach(n, v) \/ Revoke(n, v) \/ Disconnects(n, v)
    \/ \E v \in Volumes : Lose(v)
    \/ \E n \in Nodes : Reboot(n)

Next == Nodewise \/ Environment

Spec == Init /\ [][Next]_vars

-----------------------------------------------------------------------------
(* Safety *)

\* What is mounted at the staging path of a volume is that volume
\* (nodeserver.go:54, "Do not trust the path provided by cinder, get the real
\* path on node").
StagedOwn == \A n \in Nodes, v \in Volumes : staging[n][v] \in {v, None}

\* A pod that runs sees its own volume, and not an empty directory of the host
\* that takes its writes: a publication succeeds only when staging has mounted
\* the volume, or its device was found, and nothing has unmounted it since.
PodSeesVolume ==
    \A n \in Nodes, v \in Volumes :
        kubelet[n][v] = "running" => LooksMounted(n, v) /\ Head(target[n][v]) = v

\* A volume made from a snapshot or another volume has a file system of its own
\* size when its pod runs, even if the resize failed when it was mounted first.
GrownBeforeUse ==
    \A n \in Nodes, v \in Volumes \ Block : kubelet[n][v] = "running" => grown[v]

\* No volume that a pod has written to is ever formatted again, on whichever node
\* it is staged: blkid and mkfs are two steps, and what is true of the first need
\* not be of the second.
NeverFormatsData ==
    [][\A v \in Volumes : disk[v] = "data" => disk'[v] = "data"]_vars

-----------------------------------------------------------------------------
(* Liveness: handlers keep running, and the kubelet repeats what has failed. *)

Retry(c, n, v) ==
    \/ kubelet[n][v] = "staging" /\ CallStage(c, n, v)
    \/ CallPublish(c, n, v)
    \/ kubelet[n][v] = "unpublishing" /\ CallUnpublish(c, n, v)
    \/ kubelet[n][v] = "unstaging" /\ CallUnstage(c, n, v)

Fairness ==
    /\ \A c \in Calls : WF_vars(Handler(c))
    /\ \A n \in Nodes, v \in Volumes : WF_vars(\E c \in Calls : Retry(c, n, v))

FairSpec == Spec /\ Fairness

\* A pod gets its volume in the end, whichever command failed before and whether
\* or not it had taken effect, unless it is to go or Cinder has lost the volume.
\* Block volumes whose device has no name in /dev/disk/by-id that the code knows
\* (mount.go:133-144, the serials of virtual disks) are excepted: GetDevicePath never
\* finds them, and their pods wait for ever.
PodRuns ==
    \A n \in Nodes, v \in Volumes \ (Block \ Serial) :
        kubelet[n][v] = "staging"
            ~> kubelet[n][v] \in {"running", "unpublishing", "unstaging"} \/ v \in lost

\* A volume whose pod is to go is unmounted in the end and its paths are removed,
\* also when its publication never succeeded, when umount or the removal took effect
\* and its answer was lost, and when handlers that the kubelet gave up on run between
\* the steps of UnmountPath.  What Cinder has lost stays mounted, and so does a bare
\* directory of the host that a late publication has bound: it does not look like a
\* mount, so it is not unmounted, and what is below it is busy.  When a node reboots,
\* its pods start again instead.
PodGoes ==
    \A n \in Nodes, v \in Volumes :
        kubelet[n][v] = "unpublishing"
            ~> \/ kubelet[n][v] = "idle"
               \/ reboots > 0 /\ kubelet[n][v] = "staging"
               \/ v \in lost
               \/ \E i \in DOMAIN target[n][v] : target[n][v][i] = HostDir
=============================================================================
