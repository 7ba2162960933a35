------------------------------- MODULE Driver -------------------------------
(***************************************************************************)
(* The controller plugin and the node plugins together, over one Cinder    *)
(* and one set of bridges.                                                 *)
(*                                                                         *)
(* ControllerAttach and NodeServer share no variable but the block devices *)
(* of the nodes.  Everything else that one learns of the other it is told  *)
(* by the cluster: a node gets the device path in the publish context once *)
(* the volume counts as attached to it, and a detachment is asked for only *)
(* when the kubelet has unstaged the volume.  Neither plugin checks it.    *)
(***************************************************************************)
EXTENDS Naturals, Cinder, Bridge

CONSTANTS
    EcsNode, ControllerCalls, AttachSteps, DetachSteps, Faulty, ControllerFaults,
    Block, Serial, FromSource, NodeCalls, ProbeSteps, NodeFaults, MaxMounts

VARIABLES
    controllerCall, microversion, pv, controllerFaults,
    disk, grown, staging, target, dirs, nodeCall, kubelet, nodeFaults

controllerVars == <<status, attachment, device, controllerCall, microversion, pv,
                    controllerFaults>>
nodeVars == <<disk, grown, staging, target, dirs, nodeCall, kubelet, nodeFaults>>
vars == <<controllerVars, nodeVars>>

\* The publish context that the kubelet of a node finds for a volume: the answer
\* of the last publication, until a detachment is asked for.
Context ==
    [n \in Nodes |-> [v \in Volumes |->
        IF pv[v].phase = "attached" /\ pv[v].node = n THEN pv[v].path ELSE None]]

C == INSTANCE ControllerAttach WITH
    Calls <- ControllerCalls, call <- controllerCall,
    MaxFaults <- ControllerFaults, faults <- controllerFaults,
    MaxRestarts <- 0, restarts <- 0, Deadlines <- FALSE, Provisioning <- FALSE

N == INSTANCE NodeServer WITH
    Calls <- NodeCalls, call <- nodeCall,
    MaxFaults <- NodeFaults, faults <- nodeFaults,
    MaxReboots <- 0, reboots <- 0, Deadlines <- FALSE,
    context <- Context,
    lost <- {v \in Volumes : status[v] = "deleted"}, MaxLosses <- Cardinality(Volumes)

\* What the two plugins assume of their constants, for the values they get here.
ASSUME DriverAssumption ==
    /\ EcsNode \in [Nodes -> Servers]
    /\ \A m, n \in Nodes : EcsNode[m] = EcsNode[n] => m = n
    /\ None \notin Servers \cup Attachments
    /\ AttachSteps \in Nat \ {0} /\ DetachSteps \in Nat \ {0}
    /\ ProbeSteps \in Nat \ {0} /\ MaxMounts \in Nat \ {0}
    /\ ControllerFaults \in Nat /\ NodeFaults \in Nat
    /\ Faulty \subseteq C!Requests \cup {"nodeId"}
    /\ N!HostDir \notin Volumes
    /\ Block \subseteq Volumes /\ Serial \subseteq Volumes /\ FromSource \subseteq Volumes
    /\ IsFiniteSet(Volumes)

Init == C!Init /\ N!Init

\* A volume that a node was told of is detached only when its kubelet is through
\* with it.
DetachesUnstaged ==
    \A v \in Volumes :
        pv[v].phase = "attached" /\ pv'[v].phase # "attached"
            => kubelet[pv[v].node][v] = "idle"

ControllerSide == C!Next /\ DetachesUnstaged /\ UNCHANGED nodeVars

NodeSide == UNCHANGED controllerVars /\ N!Nodewise

Next == ControllerSide \/ NodeSide

Spec == Init /\ [][Next]_vars

-----------------------------------------------------------------------------
(* Safety *)

\* A volume is mounted only on the node to which its publication was answered with
\* success, while this node has a device of it and Cinder has it in use there and
\* nowhere else: no detachment, rollback or deletion goes ahead under a mount.
MountedWhereAttached ==
    \A n \in Nodes, v \in Volumes : N!Mounted(n, v) =>
        /\ pv[v].phase = "attached" /\ pv[v].node = n
        /\ status[v] = "in-use"
        /\ C!PublishedNodeIds(v) = {EcsNode[n]}
        /\ Mapped(n, v) # {}

\* The controller plugin does what NodeServer assumes of it: a device appears on a
\* node only while the volume is attached nowhere, the path handed over has the
\* volume behind it, and stays until the path is revoked and the volume unmounted.
ImplementsNodeServer == N!Spec

Storage == INSTANCE PodStorage WITH
    content <- disk,
    users <- [v \in Volumes |-> {n \in Nodes : kubelet[n][v] = "running"}]

\* Together the plugins keep the promise of PodStorage: pods on different nodes never
\* use a volume at the same time, each writes to its own volume and to nothing else,
\* and a volume that moves from node to node keeps what was written to it.
ImplementsPodStorage == Storage!Spec
=============================================================================
