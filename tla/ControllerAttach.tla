-------------------------- MODULE ControllerAttach --------------------------
(***************************************************************************)
(* The controller plugin's attach and detach path: ControllerPublishVolume,*)
(* ControllerUnpublishVolume and DeleteVolume of controllerserver.go, with *)
(* AttachVolume, DetachVolume, the two wait loops and DeleteVolume of      *)
(* openstack_volume.go and the bridge client of physical_volume.go.        *)
(*                                                                         *)
(* Every gRPC call is a handler of its own that sends one request after    *)
(* the other to Cinder and to the bridge of the node.  An action is one    *)
(* request with its answer, so the handlers interleave at their requests.  *)
(* A request may fail, after or without having taken effect, and the       *)
(* plugin may exit between any two requests (postHTTPUrl ends the process  *)
(* when a bridge cannot be reached).  No handler keeps anything: what is   *)
(* left of a call is what Cinder and the bridges remember.                 *)
(*                                                                         *)
(* The callers are the CSI sidecars (external-attacher and -provisioner).  *)
(* They keep one call per volume, repeat a call until it succeeds, and     *)
(* give up waiting at a deadline (deploy/controller.yaml, --timeout); the  *)
(* handler they gave up on keeps running, because it uses                  *)
(* context.Background() and not the context of the call.                   *)
(***************************************************************************)
EXTENDS Naturals, Cinder, Bridge

CONSTANTS
    EcsNode,        \* node -> the id its bridge answers to /ecsnode_id
    Calls,          \* slots for calls that run at the same time
    AttachSteps,    \* polls of WaitDiskAttached (diskAttachSteps)
    DetachSteps,    \* polls of WaitDiskDetached (diskDetachSteps)
    Faulty,         \* the kinds of request that may fail
    MaxFaults,      \* bound on failing requests
    MaxRestarts,    \* bound on exits of the plugin
    Deadlines,      \* TRUE: a sidecar may give up on a call that still runs
    Provisioning    \* TRUE: CreateVolume calls run beside the modelled ones

VARIABLES
    call,           \* slot -> the local state of its handler
    microversion,   \* op.blockstorage.Microversion, shared by all handlers
    pv,             \* volume -> what the sidecars believe of it
    faults,         \* requests that have failed
    restarts        \* exits of the plugin

vars == <<status, attachment, device, call, microversion, pv, faults, restarts>>

PublishPC == {"getVolume", "createAttachment", "connect", "update", "complete",
              "waitAttached", "getPath", "undoConnect", "undoCreate"}
UnpublishPC == {"beginDetaching", "readAttachments", "getAttachment",
                "disconnect", "release", "waitDetached"}
DeletePC == {"diskIsUsed", "delete"}
Requests == PublishPC \cup UnpublishPC \cup DeletePC

Microversions == {"none", "3.34", "3.54"}
Phases == {"detached", "attaching", "attached", "detaching", "deleting", "deleted"}

ASSUME ControllerAssumption ==
    /\ EcsNode \in [Nodes -> Servers]
    /\ \A m, n \in Nodes : EcsNode[m] = EcsNode[n] => m = n
    /\ None \notin Servers \cup Attachments
    /\ AttachSteps \in Nat \ {0}
    /\ DetachSteps \in Nat \ {0}
    /\ Faulty \subseteq Requests \cup {"nodeId"}
    /\ MaxFaults \in Nat
    /\ MaxRestarts \in Nat
    /\ Deadlines \in BOOLEAN
    /\ Provisioning \in BOOLEAN

Idle == [pc |-> "idle", volume |-> None, node |-> None, server |-> None,
         att |-> None, path |-> None, tries |-> 0, waiting |-> FALSE]

\* A call that runs has a volume, a call for a node has a node, and no wait loop
\* polls more often than it may.
CallFields ==
    [pc : Requests \cup {"idle"}, volume : Volumes \cup {None},
     node : Nodes \cup {None}, server : Servers \cup {None},
     att : Attachments \cup {None}, path : Paths \cup {None},
     tries : Nat, waiting : BOOLEAN]

CallRecord ==
    {r \in CallFields : /\ r.pc # "idle" => r.volume \in Volumes
                        /\ r.pc \in PublishPC \cup UnpublishPC => r.node \in Nodes
                        /\ r.tries < AttachSteps \/ r.tries < DetachSteps}

Detached == [phase |-> "detached", node |-> None, path |-> None]

\* The sidecars know the node of a volume that is neither detached nor deleted.
ViewFields == [phase : Phases, node : Nodes \cup {None}, path : Paths \cup {None}]

Views ==
    {w \in ViewFields : w.phase \in {"attaching", "attached", "detaching"} => w.node \in Nodes}

TypeOK ==
    /\ CinderTypeOK
    /\ BridgeTypeOK
    /\ call \in [Calls -> CallRecord]
    /\ microversion \in Microversions
    /\ pv \in [Volumes -> Views]
    /\ faults \in Nat
    /\ restarts \in Nat

Init ==
    /\ CinderInit
    /\ BridgeInit
    /\ call = [c \in Calls |-> Idle]
    /\ microversion = "none"
    /\ pv = [v \in Volumes |-> Detached]
    /\ faults = 0
    /\ restarts = 0

-----------------------------------------------------------------------------
(* What the requests of a handler leave alone. *)

backend == <<status, attachment, device>>
bounds == <<faults, restarts>>

\* The next request of handler c, and its return with what the sidecar
\* records if it still waits for the answer.
Goto(c, pc) == call' = [call EXCEPT ![c].pc = pc]

Answer(c, view) ==
    /\ call' = [call EXCEPT ![c] = Idle]
    /\ pv' = IF call[c].waiting THEN [pv EXCEPT ![call[c].volume] = view] ELSE pv

Fail(c) == Answer(c, pv[call[c].volume])

Deleted(c) == status[call[c].volume] = "deleted"

\* The attachments of its own node that a handler sees in volumes.Get:
\* diskIsAttached compares the ServerID with the node's id.
OwnListed(c) ==
    {a \in Listed(call[c].volume) : attachment[a].server = EcsNode[call[c].node]}

-----------------------------------------------------------------------------
(* ControllerPublishVolume *)

\* One more poll of a wait loop, or its timeout.
Poll_OffByOne(c, steps) ==
    IF call[c].tries < steps
    THEN call' = [call EXCEPT ![c].tries = @ + 1] /\ UNCHANGED pv
    ELSE Fail(c)

Poll(c, steps) ==
    IF call[c].tries + 1 < steps
    THEN call' = [call EXCEPT ![c].tries = @ + 1] /\ UNCHANGED pv
    ELSE Fail(c)

\* GetVolume, GetConnector and GetNodeIdForECS, whose error is only logged:
\* the instance id is then the empty string.
GetVolume_FirstEcsNode(c) ==
    /\ call[c].pc = "getVolume"
    /\ IF Deleted(c)
       THEN Fail(c)
       ELSE /\ call' = [call EXCEPT ![c] =
                           [@ EXCEPT !.pc = "createAttachment",
                                     !.server = EcsNode[CHOOSE n \in Nodes : TRUE]]]
            /\ UNCHANGED pv
    /\ UNCHANGED <<backend, microversion, bounds>>

GetVolume(c) ==
    /\ call[c].pc = "getVolume"
    /\ IF Deleted(c)
       THEN Fail(c)
       ELSE /\ \E s \in {EcsNode[call[c].node]}
                        \cup (IF "nodeId" \in Faulty THEN {None} ELSE {}) :
                 call' = [call EXCEPT ![c] =
                             [@ EXCEPT !.pc = "createAttachment", !.server = s]]
            /\ UNCHANGED pv
    /\ UNCHANGED <<backend, microversion, bounds>>

Create(c) ==
    /\ call[c].pc = "createAttachment"
    /\ \E a \in Attachments :
         /\ \A d \in Calls : call[d].att # a
         /\ CreateAttachment(a, call[c].volume, call[c].node, call[c].server)
         /\ call' = [call EXCEPT ![c] = [@ EXCEPT !.pc = "connect", !.att = a]]
    /\ microversion' = "3.54"
    /\ UNCHANGED <<device, pv, bounds>>

ConnectVolume(c) ==
    /\ call[c].pc = "connect"
    /\ \E p \in Paths :
         /\ Connect(call[c].node, call[c].volume, p)
         /\ call' = [call EXCEPT ![c] = [@ EXCEPT !.pc = "update", !.path = p]]
    /\ UNCHANGED <<status, attachment, microversion, pv, bounds>>

Update_NoMountpoint(c) ==
    /\ call[c].pc = "update"
    /\ UpdateAttachment(call[c].att, call[c].volume, None)
    /\ Goto(c, "complete")
    /\ UNCHANGED <<device, microversion, pv, bounds>>

Update(c) ==
    /\ call[c].pc = "update"
    /\ UpdateAttachment(call[c].att, call[c].volume, call[c].path)
    /\ Goto(c, "complete")
    /\ UNCHANGED <<device, microversion, pv, bounds>>

\* Cinder knows the complete action from 3.44 on.
Complete(c) ==
    /\ call[c].pc = "complete"
    /\ microversion = "3.54"
    /\ CompleteAttachment(call[c].att, call[c].volume)
    /\ call' = [call EXCEPT ![c] = [@ EXCEPT !.pc = "waitAttached", !.tries = 0]]
    /\ UNCHANGED <<device, microversion, pv, bounds>>

\* One poll of diskIsAttached; a volume that is gone counts as not attached.
WaitAttached(c) ==
    /\ call[c].pc = "waitAttached"
    /\ \/ /\ ~Deleted(c) /\ OwnListed(c) # {}
          /\ Goto(c, "getPath")
          /\ UNCHANGED pv
       \/ /\ Deleted(c) \/ OwnListed(c) = {}
          /\ Poll(c, AttachSteps)
    /\ UNCHANGED <<backend, microversion, bounds>>

GetPath(c) ==
    /\ call[c].pc = "getPath"
    /\ \/ /\ status[call[c].volume] = "in-use"
          /\ \E a \in OwnListed(c) :
               Answer(c, [phase |-> "attached", node |-> call[c].node,
                          path |-> attachment[a].path])
       \/ /\ status[call[c].volume] # "in-use" \/ OwnListed(c) = {}
          /\ Fail(c)
    /\ UNCHANGED <<backend, microversion, bounds>>

\* The rollback of AttachVolume; its caller is answered with an error.
UndoConnect(c) ==
    /\ call[c].pc = "undoConnect"
    /\ Disconnect(call[c].node, call[c].volume)
    /\ Goto(c, "undoCreate")
    /\ UNCHANGED <<status, attachment, microversion, pv, bounds>>

UndoCreate(c) ==
    /\ call[c].pc = "undoCreate"
    /\ ReleaseAttachment(call[c].att, call[c].volume)
    /\ Fail(c)
    /\ UNCHANGED <<device, microversion, bounds>>

-----------------------------------------------------------------------------
(* ControllerUnpublishVolume; whatever is "not found" counts as detached. *)

Begin(c) ==
    /\ call[c].pc = "beginDetaching"
    /\ microversion' = "3.54"
    /\ \/ /\ BeginDetaching(call[c].volume)
          /\ Goto(c, "readAttachments")
          /\ UNCHANGED pv
       \/ /\ Deleted(c)
          /\ Answer(c, Detached)
          /\ UNCHANGED <<status, attachment>>
    /\ UNCHANGED <<device, bounds>>

\* volume.Attachments[0] of an empty list is a panic, and nothing recovers it:
\* the plugin exits.
ReadAttachments(c) ==
    /\ call[c].pc = "readAttachments"
    /\ \/ /\ Deleted(c)
          /\ Answer(c, Detached)
          /\ UNCHANGED microversion
       \/ /\ ~Deleted(c)
          /\ \E a \in Listed(call[c].volume) :
               call' = [call EXCEPT ![c] = [@ EXCEPT !.pc = "getAttachment", !.att = a]]
          /\ UNCHANGED <<microversion, pv>>
       \/ /\ ~Deleted(c) /\ Listed(call[c].volume) = {}
          /\ call' = [d \in Calls |-> Idle]
          /\ microversion' = "none"
          /\ UNCHANGED pv
    /\ UNCHANGED <<backend, bounds>>

GetAttachment_ReleasesFirst(c) ==
    /\ call[c].pc = "getAttachment"
    /\ IF call[c].att \in Held(call[c].volume)
       THEN Goto(c, "release") /\ UNCHANGED pv
       ELSE Answer(c, Detached)
    /\ UNCHANGED <<backend, microversion, bounds>>

GetAttachment(c) ==
    /\ call[c].pc = "getAttachment"
    /\ IF call[c].att \in Held(call[c].volume)
       THEN Goto(c, "disconnect") /\ UNCHANGED pv
       ELSE Answer(c, Detached)
    /\ UNCHANGED <<backend, microversion, bounds>>

DisconnectVolume(c) ==
    /\ call[c].pc = "disconnect"
    /\ Disconnect(call[c].node, call[c].volume)
    /\ Goto(c, "release")
    /\ UNCHANGED <<status, attachment, microversion, pv, bounds>>

Release(c) ==
    /\ call[c].pc = "release"
    /\ \/ /\ ReleaseAttachment(call[c].att, call[c].volume)
          /\ call' = [call EXCEPT ![c] = [@ EXCEPT !.pc = "waitDetached", !.tries = 0]]
          /\ UNCHANGED pv
       \/ /\ call[c].att \notin Held(call[c].volume)
          /\ Answer(c, Detached)
          /\ UNCHANGED <<status, attachment>>
    /\ UNCHANGED <<device, microversion, bounds>>

\* One poll of WaitDiskDetached.
SeesDetached_Inverted(c) == Deleted(c) \/ OwnListed(c) # {}

SeesDetached_NoWait(c) == TRUE

SeesDetached(c) == Deleted(c) \/ OwnListed(c) = {}

WaitDetached(c) ==
    /\ call[c].pc = "waitDetached"
    /\ \/ /\ SeesDetached(c)
          /\ Answer(c, Detached)
       \/ /\ ~SeesDetached(c)
          /\ Poll(c, DetachSteps)
    /\ UNCHANGED <<backend, microversion, bounds>>

-----------------------------------------------------------------------------
(* DeleteVolume *)

DeletedView == [Detached EXCEPT !.phase = "deleted"]

DiskIsUsed_Inverted(c) ==
    /\ call[c].pc = "diskIsUsed"
    /\ \/ /\ Deleted(c)
          /\ Answer(c, DeletedView)
       \/ /\ ~Deleted(c)
          /\ \E a \in Listed(call[c].volume) : attachment[a].server # None
          /\ Goto(c, "delete")
          /\ UNCHANGED pv
       \/ /\ ~Deleted(c)
          /\ ~\E a \in Listed(call[c].volume) : attachment[a].server # None
          /\ Fail(c)
    /\ UNCHANGED <<backend, microversion, bounds>>

\* Only the first attachment listed is looked at.
DiskIsUsed(c) ==
    /\ call[c].pc = "diskIsUsed"
    /\ \/ /\ Deleted(c)
          /\ Answer(c, DeletedView)
       \/ /\ ~Deleted(c)
          /\ \/ Listed(call[c].volume) = {}
             \/ \E a \in Listed(call[c].volume) : attachment[a].server = None
          /\ Goto(c, "delete")
          /\ UNCHANGED pv
       \/ /\ ~Deleted(c)
          /\ \E a \in Listed(call[c].volume) : attachment[a].server # None
          /\ Fail(c)
    /\ UNCHANGED <<backend, microversion, bounds>>

Delete(c) ==
    /\ call[c].pc = "delete"
    /\ \/ /\ DeleteVolume(call[c].volume)
          /\ Answer(c, DeletedView)
       \/ /\ Deleted(c)
          /\ Answer(c, DeletedView)
          /\ UNCHANGED <<status, attachment>>
    /\ UNCHANGED <<device, microversion, bounds>>

-----------------------------------------------------------------------------
(* Requests that do not succeed *)

\* What a handler does when its request is answered with an error: AttachVolume
\* gives up what it has obtained, every other error ends the call.
OnError_ReleasesAnyway(pc) ==
    CASE pc = "connect" -> "undoCreate"
      [] pc = "update" -> "undoConnect"
      [] pc = "undoConnect" -> "undoCreate"
      [] pc = "disconnect" -> "release"
      [] OTHER -> "idle"

OnError_IgnoresBegin(pc) ==
    CASE pc = "connect" -> "undoCreate"
      [] pc = "update" -> "undoConnect"
      [] pc = "beginDetaching" -> "readAttachments"
      [] OTHER -> "idle"

OnError_IgnoresConnect(pc) ==
    CASE pc = "connect" -> "update"
      [] pc = "update" -> "undoConnect"
      [] OTHER -> "idle"

OnError_KeepsAttachment(pc) ==
    IF pc = "update" THEN "undoConnect" ELSE "idle"

OnError(pc) ==
    CASE pc = "connect" -> "undoCreate"
      [] pc = "update" -> "undoConnect"
      [] OTHER -> "idle"

ErrorPath(c) ==
    IF OnError(call[c].pc) = "idle"
    THEN Fail(c)
    ELSE Goto(c, OnError(call[c].pc)) /\ UNCHANGED pv

\* The services refuse what the state of the volume, of the attachment or of
\* the node does not allow.
Refused(c) ==
    LET v == call[c].volume
        pc == call[c].pc
    IN  \/ pc = "createAttachment"
           /\ (~CanReserve(v, call[c].server) \/ call[c].server = None)
        \/ pc \in {"update", "complete", "undoCreate"} /\ call[c].att \notin Held(v)
        \/ pc = "complete" /\ microversion # "3.54"
        \/ pc = "beginDetaching" /\ status[v] \notin {"in-use", "deleted"}
        \/ pc \in {"undoConnect", "disconnect"} /\ CannotDisconnect(call[c].node, v)
        \/ pc = "delete" /\ ~Deletable(v) /\ status[v] # "deleted"

\* What a request that is answered with an error may have done all the same.
\* A bridge that fails to connect a volume leaves nothing behind.
Effect(c) ==
    LET v == call[c].volume
        pc == call[c].pc
    IN  \/ pc = "createAttachment"
           /\ \E a \in Attachments :
                /\ \A d \in Calls : call[d].att # a
                /\ CreateAttachment(a, v, call[c].node, call[c].server)
           /\ UNCHANGED device
        \/ pc = "update" /\ UpdateAttachment(call[c].att, v, call[c].path)
           /\ UNCHANGED device
        \/ pc = "complete" /\ microversion = "3.54" /\ CompleteAttachment(call[c].att, v)
           /\ UNCHANGED device
        \/ pc = "beginDetaching" /\ BeginDetaching(v) /\ UNCHANGED device
        \/ pc \in {"undoConnect", "disconnect"} /\ Disconnect(call[c].node, v)
           /\ UNCHANGED <<status, attachment>>
        \/ pc \in {"undoCreate", "release"} /\ ReleaseAttachment(call[c].att, v)
           /\ UNCHANGED device
        \/ pc = "delete" /\ DeleteVolume(v) /\ UNCHANGED device

SetsMicroversion(c) ==
    microversion' = IF call[c].pc \in {"createAttachment", "beginDetaching"}
                    THEN "3.54" ELSE microversion

RequestRefused(c) ==
    /\ Refused(c)
    /\ ErrorPath(c)
    /\ SetsMicroversion(c)
    /\ UNCHANGED <<backend, bounds>>

RequestFails(c) ==
    /\ call[c].pc \in Faulty
    /\ faults < MaxFaults
    /\ faults' = faults + 1
    /\ Effect(c) \/ UNCHANGED backend
    /\ ErrorPath(c)
    /\ SetsMicroversion(c)
    /\ UNCHANGED restarts

-----------------------------------------------------------------------------
(* The sidecars, the other handlers and the process *)

\* The call that a sidecar starts for volume v of node n at request pc, when
\* it waits for no other call of the volume.
Start(c, v, n, pc) ==
    /\ call[c] = Idle
    /\ \A d \in Calls : call[d].waiting => call[d].volume # v
    /\ call' = [call EXCEPT ![c] =
                   [Idle EXCEPT !.pc = pc, !.volume = v, !.node = n, !.waiting = TRUE]]
    /\ UNCHANGED <<backend, microversion, bounds>>

CallPublish(c, v, n) ==
    /\ \/ pv[v].phase = "detached"
       \/ pv[v].phase = "attaching" /\ pv[v].node = n
    /\ Start(c, v, n, "getVolume")
    /\ pv' = [pv EXCEPT ![v] = [phase |-> "attaching", node |-> n, path |-> None]]

CallUnpublish(c, v) ==
    /\ pv[v].phase \in {"attaching", "attached", "detaching"}
    /\ Start(c, v, pv[v].node, "beginDetaching")
    /\ pv' = [pv EXCEPT ![v].phase = "detaching"]

CallDelete(c, v) ==
    /\ pv[v].phase \in {"detached", "deleting"}
    /\ Start(c, v, None, "diskIsUsed")
    /\ pv' = [pv EXCEPT ![v].phase = "deleting"]

DeadlineExpires(c) ==
    /\ Deadlines
    /\ call[c].waiting
    /\ call' = [call EXCEPT ![c].waiting = FALSE]
    /\ UNCHANGED <<backend, microversion, pv, bounds>>

\* GetVolumesByName of a CreateVolume call.
LookupByName ==
    /\ Provisioning
    /\ microversion' = "3.34"
    /\ UNCHANGED <<backend, call, pv, bounds>>

\* The plugin exits, or the leader changes, and its sidecars call again.
Restart ==
    /\ restarts < MaxRestarts
    /\ restarts' = restarts + 1
    /\ call' = [c \in Calls |-> Idle]
    /\ microversion' = "none"
    /\ UNCHANGED <<backend, pv, faults>>

\* Cinder works on in the background: CreateVolume and DeleteVolume do not wait.
CinderWorks(v) ==
    /\ FinishCreation(v) \/ FinishDeletion(v)
    /\ UNCHANGED <<device, call, microversion, pv, bounds>>

Publish(c) ==
    \/ GetVolume(c) \/ Create(c) \/ ConnectVolume(c) \/ Update(c) \/ Complete(c)
    \/ WaitAttached(c) \/ GetPath(c) \/ UndoConnect(c) \/ UndoCreate(c)

Unpublish(c) ==
    \/ Begin(c) \/ ReadAttachments(c) \/ GetAttachment(c) \/ DisconnectVolume(c)
    \/ Release(c) \/ WaitDetached(c)

Handler(c) ==
    \/ Publish(c) \/ Unpublish(c) \/ DiskIsUsed(c) \/ Delete(c) \/ RequestRefused(c)

Next ==
    \/ \E c \in Calls : Handler(c) \/ RequestFails(c) \/ DeadlineExpires(c)
    \/ \E c \in Calls, v \in Volumes, n \in Nodes : CallPublish(c, v, n)
    \/ \E c \in Calls, v \in Volumes : CallUnpublish(c, v) \/ CallDelete(c, v)
    \/ \E v \in Volumes : CinderWorks(v)
    \/ LookupByName
    \/ Restart

Spec == Init /\ [][Next]_vars

-----------------------------------------------------------------------------
(* Safety *)

\* All attachments of a volume are for one node: the server id that a handler
\* hands to Cinder identifies its node, so a volume that is reserved for one
\* node is never attached to a second one, whoever retries or lingers.
SingleNodeAttached ==
    \A v \in Volumes : \A a, b \in Held(v) : attachment[a].node = attachment[b].node

\* A node has a block device of a volume only while Cinder knows of an
\* attachment of the volume to this node: attaching asks Cinder first, and
\* detaching and every rollback disconnect the device before they give the
\* attachment up.  Without the attachment nobody would remember the device.
NoOrphanDevice ==
    \A n \in Nodes, v \in Volumes :
        Mapped(n, v) # {} => \E a \in Held(v) : attachment[a].node = n

\* No volume has block devices on two nodes at a time: two nodes that mount it
\* would destroy its file system.
DevicesOnOneNode ==
    \A v \in Volumes : \A m, n \in Nodes :
        Mapped(m, v) # {} /\ Mapped(n, v) # {} => m = n

\* DetachVolume finds an attachment in the volume it reads after Cinder has
\* accepted begin-detaching: it indexes the list without looking at its length.
DetachFindsAttachment ==
    \A c \in Calls : call[c].pc = "readAttachments" =>
        status[call[c].volume] = "deleted" \/ Listed(call[c].volume) # {}

\* A handler disconnects and releases the attachment of the node it was called
\* for: it takes the first attachment of the list, whosever it is, and sends
\* the disconnection to the node of the call.
ReleasesOwn ==
    \A c \in Calls : call[c].pc \in {"undoConnect", "undoCreate", "disconnect", "release"}
                      /\ call[c].att \in Held(call[c].volume) =>
        attachment[call[c].att].node = call[c].node

\* What ControllerGetVolume and ListVolumes report as the nodes of a volume.
PublishedNodeIds(v) == {attachment[a].server : a \in Listed(v)}

\* A volume whose publication was answered with success is in use on its node,
\* and reported as published to it and to no other, until a detach is asked for.
AttachedIsAttached ==
    \A v \in Volumes : pv[v].phase = "attached" =>
        /\ status[v] = "in-use"
        /\ PublishedNodeIds(v) = {EcsNode[pv[v].node]}
        /\ Mapped(pv[v].node, v) # {}

\* The device path in the publish context is one behind which the node has the
\* volume: NodeStageVolume formats and mounts what it finds there.
PublishedPath ==
    \A v \in Volumes : pv[v].phase = "attached" => pv[v].path \in Mapped(pv[v].node, v)

\* A volume is not deleted while a node still has a device of it
\* (openstack_volume.go:65, "it's still attached to a node").
DeletedNotMapped ==
    \A v \in Volumes : status[v] = "deleted" => \A n \in Nodes : Mapped(n, v) = {}

\* When ControllerUnpublishVolume succeeds, Cinder lists no attachment of the
\* volume to the node any more.
UnpublishTruthful ==
    [][\A v \in Volumes :
         pv[v].phase = "detaching" /\ pv'[v].phase = "detached" =>
            ~\E a \in Listed(v)' : attachment'[a].node = pv[v].node]_vars

\* The node that a volume is attached to is that of its attachments: they are all
\* for the same one.
Holder(v) == IF Held(v) = {} THEN None
             ELSE attachment[CHOOSE a \in Held(v) : TRUE].node

Exclusive == INSTANCE ExclusiveVolume WITH
    holder <- [v \in Volumes |-> Holder(v)],
    connected <- [v \in Volumes |-> {n \in Nodes : Mapped(n, v) # {}}],
    granted <- [v \in Volumes |-> pv[v].phase = "attached"]

\* Attaching, detaching, failing and starting again implement ExclusiveVolume: a
\* volume changes hands only after its holder was asked to let go, its last
\* device was disconnected and its last attachment was released, in this order.
ImplementsExclusive == Exclusive!Spec

-----------------------------------------------------------------------------
(* Liveness.  A handler keeps running (the runtime schedules it, and every   *)
(* request is answered), and a sidecar repeats what has failed.              *)

Retry(c, v) ==
    \/ pv[v].phase = "attaching" /\ CallPublish(c, v, pv[v].node)
    \/ pv[v].phase = "detaching" /\ CallUnpublish(c, v)
    \/ pv[v].phase = "deleting" /\ CallDelete(c, v)

Fairness ==
    /\ \A c \in Calls : WF_vars(Handler(c))
    /\ \A v \in Volumes : WF_vars(\E c \in Calls : Retry(c, v))
    /\ \A v \in Volumes : WF_vars(CinderWorks(v))

FairSpec == Spec /\ Fairness

\* A volume that is to be attached is attached in the end, although CreateVolume
\* did not wait for it to be built, and although getVolume, the connection or the
\* update of the attachment failed before, each of which AttachVolume undoes
\* (openstack_volume.go:98-126); unless the volume cannot be built or its detachment
\* is asked for.
Published ==
    \A v \in Volumes :
        pv[v].phase = "attaching"
            ~> pv[v].phase \in {"attached", "detaching"} \/ status[v] = "error"

\* A volume that is in use when its detachment is asked for is detached in the
\* end.
Unpublished ==
    \A v \in Volumes :
        pv[v].phase = "detaching" /\ status[v] = "in-use" ~> pv[v].phase = "detached"

\* A volume that is to be deleted is gone in the end, also if it could not be
\* built: nothing is left of it that would make the service refuse.
Removed ==
    \A v \in Volumes : pv[v].phase = "deleting" ~> status[v] = "deleted"
=============================================================================
