---------------------------- MODULE DriverProofs ----------------------------
(* The controller plugin and the node plugins together keep the promise of   *)
(* PodStorage when the failures of attaching are rolled back, no plugin      *)
(* exits, no node reboots, no caller gives up and no CreateVolume is beside. *)
(* What the proofs about ControllerAttach and NodeServer have established    *)
(* for each of them is used here for both.                                   *)
EXTENDS Driver, FiniteSetTheorems, TLAPS

CP == INSTANCE ControllerPromiseProofs WITH
    Calls <- ControllerCalls, call <- controllerCall,
    MaxFaults <- ControllerFaults, faults <- controllerFaults,
    MaxRestarts <- 0, restarts <- 0, Deadlines <- FALSE, Provisioning <- FALSE

NP == INSTANCE NodeStorageProofs WITH
    Calls <- NodeCalls, call <- nodeCall,
    MaxFaults <- NodeFaults, faults <- nodeFaults,
    MaxReboots <- 0, reboots <- 0, Deadlines <- FALSE,
    context <- Context,
    lost <- {v \in Volumes : status[v] = "deleted"}, MaxLosses <- Cardinality(Volumes)

\* The failures that AttachVolume undoes, in a finite cluster.  Driver itself has no
\* exits, deadlines, reboots or CreateVolume calls.
RolledBack ==
    /\ Faulty \subseteq {"getVolume", "connect", "update"}
    /\ IsFiniteSet(Attachments) /\ IsFiniteSet(Paths)

\* What the two plugins have established, each for itself.
DriverInv == CP!PublishInv /\ NP!StorageInv

\* A step that NodeServer allows, whoever takes it.
NodesExpect == [NP!Next]_(NP!vars)


-----------------------------------------------------------------------------
(* The two instances of each plugin, that of Driver and that of its proofs,  *)
(* have the same definitions.                                                *)

LEMMA SameController == (C!Init <=> CP!Init) /\ (C!Next <=> CP!Next)
  BY DEF C!Answer, CP!Answer, C!Begin, CP!Begin, C!BeginDetaching, CP!BeginDetaching,
         C!BridgeInit, CP!BridgeInit, C!CallDelete, CP!CallDelete, C!CallPublish,
         CP!CallPublish, C!CallUnpublish, CP!CallUnpublish, C!CanReserve, CP!CanReserve,
         C!CannotDisconnect, CP!CannotDisconnect, C!CinderInit, CP!CinderInit, C!CinderWorks,
         CP!CinderWorks, C!Complete, CP!Complete, C!CompleteAttachment, CP!CompleteAttachment,
         C!Connect, CP!Connect, C!ConnectVolume, CP!ConnectVolume, C!Create, CP!Create,
         C!CreateAttachment, CP!CreateAttachment, C!DeadlineExpires, CP!DeadlineExpires,
         C!Deletable, CP!Deletable, C!Delete, CP!Delete, C!DeleteVolume, CP!DeleteVolume,
         C!Deleted, CP!Deleted, C!DeletedView, CP!DeletedView, C!Detached, CP!Detached,
         C!Disconnect, CP!Disconnect, C!DisconnectVolume, CP!DisconnectVolume, C!DiskIsUsed,
         CP!DiskIsUsed, C!Effect, CP!Effect, C!ErrorPath, CP!ErrorPath, C!Fail, CP!Fail,
         C!FinishCreation, CP!FinishCreation, C!FinishDeletion, CP!FinishDeletion,
         C!GetAttachment, CP!GetAttachment, C!GetPath, CP!GetPath, C!GetVolume, CP!GetVolume,
         C!Goto, CP!Goto, C!Handler, CP!Handler, C!Held, CP!Held, C!Idle, CP!Idle, C!Init,
         CP!Init, C!Listed, CP!Listed, C!LookupByName, CP!LookupByName, C!Mapped, CP!Mapped,
         C!Next, CP!Next, C!NoAttachment, CP!NoAttachment, C!OnError, CP!OnError, C!OwnListed,
         CP!OwnListed, C!Poll, CP!Poll, C!Publish, CP!Publish, C!ReadAttachments,
         CP!ReadAttachments, C!Refused, CP!Refused, C!Release, CP!Release, C!ReleaseAttachment,
         CP!ReleaseAttachment, C!RequestFails, CP!RequestFails, C!RequestRefused,
         CP!RequestRefused, C!Restart, CP!Restart, C!SeesDetached, CP!SeesDetached,
         C!SetsMicroversion, CP!SetsMicroversion, C!Start, CP!Start, C!UndoConnect,
         CP!UndoConnect, C!UndoCreate, CP!UndoCreate, C!Unpublish, CP!Unpublish, C!Update,
         CP!Update, C!UpdateAttachment, CP!UpdateAttachment, C!WaitAttached, CP!WaitAttached,
         C!WaitDetached, CP!WaitDetached, C!backend, CP!backend, C!bounds, CP!bounds

LEMMA SameNode ==
    (N!Init <=> NP!Init) /\ (N!Nodewise <=> NP!Nodewise) /\ (N!Next <=> NP!Next)
<1>1. N!Init <=> NP!Init
  BY DEF N!BridgeInit, NP!BridgeInit, N!Idle, NP!Idle, N!Init, NP!Init
<1>2. N!Nodewise <=> NP!Nodewise
  BY DEF N!Answer, NP!Answer, N!Appears, NP!Appears, N!At, NP!At, N!Behind, NP!Behind, N!Below,
         NP!Below, N!Bind, NP!Bind, N!BindBlock, NP!BindBlock, N!BindDevice, NP!BindDevice,
         N!BindDir, NP!BindDir, N!BindStaging, NP!BindStaging, N!CallPublish, NP!CallPublish,
         N!CallStage, NP!CallStage, N!CallUnpublish, NP!CallUnpublish, N!CallUnstage,
         NP!CallUnstage, N!CanBindBlock, NP!CanBindBlock, N!CanBindDir, NP!CanBindDir,
         N!CanFormat, NP!CanFormat, N!CanGrow, NP!CanGrow, N!CanMount, NP!CanMount, N!CanRemove,
         NP!CanRemove, N!CheckMount, NP!CheckMount, N!Cleaned, NP!Cleaned, N!CleanupPC,
         NP!CleanupPC, N!Command, NP!Command, N!Continue, NP!Continue, N!Covered, NP!Covered,
         N!DeadlineExpires, NP!DeadlineExpires, N!Delete, NP!Delete, N!DropFile, NP!DropFile,
         N!Exists, NP!Exists, N!Fail, NP!Fail, N!Fails, NP!Fails, N!FindDevice, NP!FindDevice,
         N!Format, NP!Format, N!Found, NP!Found, N!Goto, NP!Goto, N!Grow, NP!Grow, N!Handler,
         NP!Handler, N!HostDir, NP!HostDir, N!Idle, NP!Idle, N!Kubelet, NP!Kubelet,
         N!LooksMounted, NP!LooksMounted, N!Make, NP!Make, N!Mapped, NP!Mapped, N!Mkfs, NP!Mkfs,
         N!MountStaging, NP!MountStaging, N!MountVolume, NP!MountVolume, N!Mounted, NP!Mounted,
         N!Nodewise, NP!Nodewise, N!Place, NP!Place, N!PodWrites, NP!PodWrites, N!Probe, NP!Probe,
         N!Publish, NP!Publish, N!Recheck, NP!Recheck, N!Refused, NP!Refused, N!Remove, NP!Remove,
         N!RemovePath, NP!RemovePath, N!Resize, NP!Resize, N!ShowsMount, NP!ShowsMount, N!Stage,
         NP!Stage, N!Staged, NP!Staged, N!Start, NP!Start, N!TakeOff, NP!TakeOff, N!Umount,
         NP!Umount, N!bounds, NP!bounds, N!cluster, NP!cluster, N!mounts, NP!mounts, N!node,
         NP!node, N!storage, NP!storage
<1>3. N!Next <=> NP!Next
  BY <1>2
     DEF N!Cardinality, NP!Cardinality, N!IsFiniteSet, NP!IsFiniteSet, N!Attach, NP!Attach,
         N!Connect, NP!Connect, N!Connects, NP!Connects,
         N!Disconnect, NP!Disconnect, N!Disconnects, NP!Disconnects, N!Environment,
         NP!Environment, N!Idle, NP!Idle, N!Lose, NP!Lose, N!Mapped, NP!Mapped, N!Mounted,
         NP!Mounted, N!Next, NP!Next, N!Reboot, NP!Reboot, N!Revoke, NP!Revoke, N!bounds,
         NP!bounds, N!cluster, NP!cluster, N!mounts, NP!mounts, N!node, NP!node, N!storage,
         NP!storage
<1> QED BY <1>1, <1>2, <1>3

-----------------------------------------------------------------------------
(* What the proofs about each plugin give for the two together *)

LEMMA ControllerKeeps ==
    ASSUME RolledBack, CP!PublishInv, [CP!Next]_(CP!vars)
    PROVE  CP!PublishInv'
<1> USE DriverAssumption, ClusterAssumption, BridgeAssumption
    DEF CP!Transports, Transports, CP!Requests, C!Requests, CP!PublishPC, CP!UnpublishPC,
        CP!DeletePC, C!PublishPC, C!UnpublishPC, C!DeletePC
<1>1. CP!RolledBack
  BY DEF RolledBack, CP!RolledBack, CP!CleanedUp, IsFiniteSet, CP!IsFiniteSet
<1>2. CP!DetachInv'
  BY <1>1, CP!DetachStep DEF CP!RolledBack, CP!PublishInv
<1> QED BY <1>1, <1>2, CP!PublishStep

LEMMA ControllerSight ==
    ASSUME RolledBack, CP!PublishInv, [CP!Next]_(CP!vars)
    PROVE  \/ UNCHANGED device /\ \A u \in Volumes : CP!SameSight(u)
           \/ \E v \in Volumes : CP!NodeStep(v) /\ \A u \in Volumes \ {v} : CP!SameSight(u)
<1>0. CP!PublishInv'
  BY ControllerKeeps
<1> USE DriverAssumption, ClusterAssumption, BridgeAssumption
    DEF CP!Transports, Transports, CP!Requests, C!Requests, CP!PublishPC, CP!UnpublishPC,
        CP!DeletePC, C!PublishPC, C!UnpublishPC, C!DeletePC
<1>1. CP!RolledBack
  BY DEF RolledBack, CP!RolledBack, CP!CleanedUp, IsFiniteSet, CP!IsFiniteSet
<1> QED BY <1>0, <1>1, CP!Sight

LEMMA NodeKeeps ==
    ASSUME NP!StorageInv, [NP!Next]_(NP!vars)
    PROVE  NP!StorageInv'
<1> USE DriverAssumption, ClusterAssumption, BridgeAssumption
    DEF NP!Transports, Transports, NP!HostDir, N!HostDir
<1>1. Cardinality(Volumes) \in Nat
  BY FS_CardinalityType
<1> QED BY <1>1, NP!StorageStep

\* A volume is mounted only on a node that was told of it.
LEMMA MountedTold ==
    ASSUME NP!StorageInv, NEW n \in Nodes, NEW v \in Volumes, NP!Mounted(n, v)
    PROVE  Context[n][v] # None
<1> USE DriverAssumption, ClusterAssumption, BridgeAssumption
    DEF NP!Transports, Transports, NP!HostDir, N!HostDir
<1>1. Cardinality(Volumes) \in Nat
  BY FS_CardinalityType
<1> QED BY <1>1, NP!MountedAttached

-----------------------------------------------------------------------------
(* A step of the controller side is one that NodeServer expects *)

\* A volume in plain sight has the same publish contexts and exists as before.
LEMMA SameContext ==
    ASSUME NEW u \in Volumes, CP!SameSight(u)
    PROVE  /\ \A n \in Nodes : Context'[n][u] = Context[n][u]
           /\ (status'[u] = "deleted") <=> (status[u] = "deleted")
  BY DEF CP!SameSight, Context

LEMMA ControllerSees ==
    ASSUME RolledBack, DriverInv, ControllerSide
    PROVE  NodesExpect
<1> SUFFICES [NP!Next]_(NP!vars)
  BY DEF NodesExpect
<1> DEFINE gone == {u \in Volumes : status[u] = "deleted"}
<1> USE DEF NP!node, NP!storage, NP!mounts, NP!cluster, NP!bounds
<1>0. /\ [CP!Next]_(CP!vars)
      /\ UNCHANGED <<disk, grown, staging, target, dirs, nodeCall, kubelet, nodeFaults>>
  BY SameController DEF ControllerSide, nodeVars
<1>1. CASE UNCHANGED device /\ \A u \in Volumes : CP!SameSight(u)
  <2>1. Context' = Context
    BY <1>1, SameContext DEF Context
  <2>2. gone' = gone
    BY <1>1, SameContext
  <2> QED BY <1>0, <1>1, <2>1, <2>2 DEF NP!vars
<1>2. ASSUME NEW v \in Volumes, CP!NodeStep(v), \A u \in Volumes \ {v} : CP!SameSight(u)
      PROVE  [NP!Next]_(NP!vars)
  <2>1. \A u \in Volumes \ {v}, n \in Nodes : Context'[n][u] = Context[n][u]
    BY <1>2, SameContext
  <2>2. \A u \in Volumes \ {v} : (status'[u] = "deleted") <=> (status[u] = "deleted")
    BY <1>2, SameContext
  <2>3. ASSUME CP!SameSight(v)
        PROVE  Context' = Context /\ gone' = gone
    <3>1. \A u \in Volumes : CP!SameSight(u)
      BY <1>2, <2>3
    <3>2. Context' = Context
      BY <3>1, SameContext DEF Context
    <3>3. gone' = gone
      BY <3>1, SameContext
    <3> QED BY <3>2, <3>3
  <2>4. ASSUME NEW n \in Nodes, NEW p, Context'[n][v] = p,
               \A m \in Nodes \ {n} : Context'[m][v] = Context[m][v]
        PROVE  Context' = [Context EXCEPT ![n][v] = p]
    <3>1. Context' = [m \in Nodes |-> [u \in Volumes |-> Context'[m][u]]]
      BY DEF Context
    <3>2. Context = [m \in Nodes |-> [u \in Volumes |-> Context[m][u]]]
      BY DEF Context
    <3>3. \A m \in Nodes, u \in Volumes :
             Context'[m][u] = IF m = n /\ u = v THEN p ELSE Context[m][u]
      BY <2>1, <2>4
    <3> HIDE DEF Context
    <3> QED BY <3>1, <3>2, <3>3
  <2>5. (UNCHANGED status) => gone' = gone
    OBVIOUS
  <2>6. pv[v].phase # "attached" => \A m \in Nodes : Context[m][v] = None
    BY DEF Context
  <2>7. CASE UNCHANGED device /\ CP!SameSight(v)
    BY <1>0, <2>3, <2>7 DEF NP!vars
  <2>8. ASSUME NEW n \in Nodes, NEW p \in Paths, CP!Connect(n, v, p), CP!SameSight(v),
               pv[v].phase # "attached", \A m \in Nodes : CP!Mapped(m, v) = {}
        PROVE  [NP!Next]_(NP!vars)
    <3>1. NP!Connect(n, v, p) /\ \A m \in Nodes : NP!Mapped(m, v) = {}
      BY <2>8 DEF CP!Connect, NP!Connect, CP!Mapped, NP!Mapped
    <3>2. NP!Connects(n, v)
      BY <1>0, <2>3, <2>6, <2>8, <3>1 DEF NP!Connects
    <3> QED BY <3>2 DEF NP!Next, NP!Environment
  <2>9. ASSUME NEW n \in Nodes, CP!Disconnect(n, v), CP!SameSight(v), pv[v].phase # "attached"
        PROVE  [NP!Next]_(NP!vars)
    <3>1. NP!Disconnect(n, v)
      BY <2>9 DEF CP!Disconnect, NP!Disconnect, CP!Mapped, NP!Mapped
    <3>2. ~NP!Mounted(n, v)
      BY <2>6, <2>9, MountedTold DEF DriverInv
    <3>3. NP!Disconnects(n, v)
      BY <1>0, <2>3, <2>6, <2>9, <3>1, <3>2 DEF NP!Disconnects
    <3> QED BY <3>3 DEF NP!Next, NP!Environment
  <2>10. ASSUME NEW n \in Nodes, n = pv'[v].node, pv'[v].path \in CP!Mapped(n, v),
                UNCHANGED <<device, status>>,
                pv[v].phase # "attached", pv'[v].phase = "attached"
         PROVE  [NP!Next]_(NP!vars)
    <3>1. pv'[v].path \in NP!Mapped(n, v)
      BY <2>10 DEF CP!Mapped, NP!Mapped
    <3>2. /\ Context'[n][v] = pv'[v].path
          /\ \A m \in Nodes \ {n} : Context'[m][v] = Context[m][v]
      BY <2>10 DEF Context
    <3>3. Context' = [Context EXCEPT ![n][v] = pv'[v].path]
      BY <2>4, <3>2
    <3>4. NP!Attach(n, v)
      BY <1>0, <2>5, <2>6, <2>10, <3>1, <3>3 DEF NP!Attach
    <3> QED BY <3>4 DEF NP!Next, NP!Environment
  <2>11. CASE /\ UNCHANGED <<device, status>>
              /\ pv[v].phase = "attached" /\ pv'[v].phase # "attached"
    <3>1. PICK n \in Nodes : n = pv[v].node
      BY <2>11 DEF DriverInv, CP!PublishInv, CP!DetachInv, CP!TypeOK, CP!Views
    <3>2. pv[v].path \in CP!Mapped(n, v)
      BY <2>11, <3>1 DEF DriverInv, CP!PublishInv, CP!VolumeInv
    <3>3. Context[n][v] # None
      BY <2>11, <3>1, <3>2, ClusterAssumption DEF CP!Mapped, Context
    <3>4. kubelet[n][v] = "idle"
      BY <2>11, <3>1 DEF ControllerSide, DetachesUnstaged
    <3>5. /\ Context'[n][v] = None
          /\ \A m \in Nodes \ {n} : Context'[m][v] = Context[m][v]
      BY <2>11, <3>1 DEF Context
    <3>6. Context' = [Context EXCEPT ![n][v] = None]
      BY <2>4, <3>5
    <3>7. NP!Revoke(n, v)
      BY <1>0, <2>5, <2>11, <3>3, <3>4, <3>6 DEF NP!Revoke
    <3> QED BY <3>7 DEF NP!Next, NP!Environment
  <2>12. CASE UNCHANGED <<device, pv>> /\ status[v] # "deleted" /\ status'[v] = "deleted"
    <3>1. Context' = Context
      BY <2>12 DEF Context
    <3>2. v \notin gone /\ gone' = gone \cup {v}
      BY <2>2, <2>12
    <3>3. Cardinality(gone) < Cardinality(Volumes)
      <4>1. IsFiniteSet(Volumes) /\ gone \in SUBSET Volumes /\ gone # Volumes
        BY <3>2, DriverAssumption
      <4> HIDE DEF gone
      <4>2. /\ Cardinality(gone) <= Cardinality(Volumes)
            /\ Cardinality(gone) # Cardinality(Volumes)
        BY <4>1, FS_Subset
      <4>3. Cardinality(gone) \in Nat /\ Cardinality(Volumes) \in Nat
        BY <4>1, FS_Subset, FS_CardinalityType
      <4> QED BY <4>2, <4>3
    <3>4. NP!Lose(v)
      BY <1>0, <2>12, <3>1, <3>2, <3>3
         DEF NP!Lose, NP!Cardinality, NP!IsFiniteSet, Cardinality, IsFiniteSet
    <3> QED BY <3>4 DEF NP!Next, NP!Environment
  <2> QED BY <1>2, <2>7, <2>8, <2>9, <2>10, <2>11, <2>12 DEF CP!NodeStep
<1> QED BY <1>0, <1>1, <1>2, ControllerSight DEF DriverInv

-----------------------------------------------------------------------------
(* The two together *)

LEMMA DriverStep ==
    ASSUME RolledBack, DriverInv, [Next]_vars
    PROVE  DriverInv' /\ NodesExpect
<1>1. CASE ControllerSide
  BY <1>1, SameController, ControllerKeeps, ControllerSees, NodeKeeps
     DEF ControllerSide, DriverInv, NodesExpect
<1>2. CASE UNCHANGED controllerVars /\ (N!Nodewise \/ UNCHANGED nodeVars)
  <2>1. UNCHANGED CP!vars
    BY <1>2 DEF controllerVars, CP!vars
  <2>2. NodesExpect
    <3>1. CASE N!Nodewise
      BY <3>1, SameNode DEF NodesExpect, NP!Next
    <3>2. CASE UNCHANGED nodeVars
      BY <1>2, <3>2 DEF controllerVars, nodeVars, NP!vars, Context, NodesExpect
    <3> QED BY <1>2, <3>1, <3>2
  <2> QED BY <2>1, <2>2, ControllerKeeps, NodeKeeps DEF DriverInv, NodesExpect
<1> QED BY <1>1, <1>2 DEF Next, NodeSide, vars

LEMMA DriverInit ==
    ASSUME RolledBack, Init
    PROVE  DriverInv /\ NP!Init
<1>1. CP!PublishInv
  <2> USE DriverAssumption, ClusterAssumption, BridgeAssumption
      DEF CP!Transports, Transports, CP!Requests, C!Requests, CP!PublishPC, CP!UnpublishPC,
          CP!DeletePC, C!PublishPC, C!UnpublishPC, C!DeletePC
  <2>1. CP!RolledBack
    BY DEF RolledBack, CP!RolledBack, CP!CleanedUp, IsFiniteSet, CP!IsFiniteSet
  <2> QED BY <2>1, SameController, CP!PublishInit DEF Init
<1>2. NP!StorageInv /\ NP!Init
  <2> USE DriverAssumption, ClusterAssumption, BridgeAssumption
      DEF NP!Transports, Transports, NP!HostDir, N!HostDir
  <2>1. Cardinality(Volumes) \in Nat
    BY FS_CardinalityType
  <2> QED BY <2>1, SameNode, NP!StorageInit DEF Init
<1> QED BY <1>1, <1>2 DEF DriverInv

LEMMA DriverInvariant ==
    ASSUME RolledBack
    PROVE  Spec => []DriverInv
  BY DriverInit, DriverStep, PTL DEF Spec

-----------------------------------------------------------------------------
(* What follows *)

\* The controller plugin does what the node plugins take for granted: a device
\* appears on a node only while the volume is attached nowhere, its path is handed
\* over as long as the volume is behind it, and it goes only when nothing of it is
\* mounted.
THEOREM ImplementsNodeServerCorrect ==
    ASSUME RolledBack
    PROVE  Spec => ImplementsNodeServer
<1>1. Init => N!Init
  BY DEF Init
<1>2. DriverInv /\ [Next]_vars => [N!Next]_(N!vars)
  BY DriverStep, SameNode DEF NodesExpect, N!vars, NP!vars
<1> QED BY <1>1, <1>2, DriverInvariant, PTL DEF Spec, ImplementsNodeServer, N!Spec

LEMMA MountedFacts ==
    ASSUME DriverInv
    PROVE  MountedWhereAttached
<1> SUFFICES ASSUME NEW n \in Nodes, NEW v \in Volumes, N!Mounted(n, v)
             PROVE  /\ pv[v].phase = "attached" /\ pv[v].node = n
                    /\ status[v] = "in-use"
                    /\ C!PublishedNodeIds(v) = {EcsNode[n]}
                    /\ Mapped(n, v) # {}
  BY DEF MountedWhereAttached
<1>1. pv[v].phase = "attached" /\ pv[v].node = n
  <2>1. Context[n][v] # None
    BY MountedTold DEF DriverInv, N!Mounted, NP!Mounted
  <2> QED BY <2>1 DEF Context
<1>2. CP!AttachedIsAttached
  <2> USE DriverAssumption, ClusterAssumption, BridgeAssumption
      DEF CP!Transports, Transports, CP!Requests, C!Requests, CP!PublishPC, CP!UnpublishPC,
          CP!DeletePC, C!PublishPC, C!UnpublishPC, C!DeletePC
  <2> QED BY CP!AttachedFacts DEF DriverInv, CP!PublishInv
<1> QED BY <1>1, <1>2
        DEF CP!AttachedIsAttached, CP!PublishedNodeIds, C!PublishedNodeIds, CP!Listed, C!Listed,
            CP!Held, C!Held, CP!Mapped, Mapped

\* No detachment, rollback or deletion goes ahead under a mount: the node has a
\* device of the mounted volume, and Cinder has it in use there and nowhere else.
THEOREM MountedWhereAttachedCorrect ==
    ASSUME RolledBack
    PROVE  Spec => []MountedWhereAttached
  BY DriverInvariant, MountedFacts, PTL

\* Whatever the number of nodes, volumes and calls, pods on different nodes never
\* use a volume at the same time, each writes to its own volume and to nothing else,
\* and a volume that moves from node to node keeps what was written to it.
THEOREM ImplementsPodStorageCorrect ==
    ASSUME RolledBack
    PROVE  Spec => ImplementsPodStorage
<1>0. (Storage!Init <=> NP!Storage!Init)
      /\ ([NP!Storage!Next]_(NP!Storage!vars) => [Storage!Next]_(Storage!vars))
  BY DEF Storage!Init, NP!Storage!Init, Storage!Next, NP!Storage!Next, Storage!vars,
         NP!Storage!vars, Storage!Start, NP!Storage!Start, Storage!Stop, NP!Storage!Stop,
         Storage!Format, NP!Storage!Format, Storage!Write, NP!Storage!Write, NP!Users
<1> USE DriverAssumption, ClusterAssumption, BridgeAssumption
    DEF NP!Transports, Transports, NP!HostDir, N!HostDir
<1>1. Cardinality(Volumes) \in Nat
  BY FS_CardinalityType
<1>2. Init => Storage!Init
  BY <1>0, <1>1, DriverInit, NP!StoresInit
<1>3. DriverInv /\ [Next]_vars => [Storage!Next]_(Storage!vars)
  <2>1. ASSUME DriverInv, NodesExpect
        PROVE  [NP!Storage!Next]_(NP!Storage!vars)
    BY <1>1, <2>1, NP!Stores DEF DriverInv, NodesExpect
  <2> QED BY <1>0, <2>1, DriverStep
<1> QED BY <1>2, <1>3, DriverInvariant, PTL DEF Spec, ImplementsPodStorage, Storage!Spec

=============================================================================
