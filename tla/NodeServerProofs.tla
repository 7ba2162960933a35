-------------------------- MODULE NodeServerProofs --------------------------
(* Theorems about NodeServer, for every value of its constants. *)
EXTENDS NodeServer, TLAPS

-----------------------------------------------------------------------------
(* Types *)

CallRecord ==
    [pc : Requests \cup {"idle"}, node : Nodes \cup {None},
     volume : Volumes \cup {None}, path : Paths \cup {None},
     tries : 0 .. ProbeSteps - 1, step : Cleanup, waiting : BOOLEAN]

\* A call that runs is for a volume of a node.
Addressed(r) == r.pc # "idle" => r.node \in Nodes /\ r.volume \in Volumes

CallsOK == call \in [Calls -> CallRecord] /\ \A c \in Calls : Addressed(call[c])

KubeletOK == kubelet \in [Nodes -> [Volumes -> Phases]]

DiskOK == disk \in [Volumes -> {"blank", "empty", "data"}]

StorageOK == DiskOK /\ grown \in [Volumes -> BOOLEAN]

StagingOK == staging \in [Nodes -> [Volumes -> Volumes \cup {None}]]

TargetOK == target \in [Nodes -> [Volumes -> Seq(Volumes \cup {HostDir})]]

DirsOK == dirs \in [Nodes -> [Volumes -> SUBSET Places]]

ContextOK == context \in [Nodes -> [Volumes -> Paths \cup {None}]]

RestOK == lost \subseteq Volumes /\ faults \in 0 .. MaxFaults /\ reboots \in 0 .. MaxReboots

TypeInv ==
    /\ CallsOK /\ KubeletOK /\ StorageOK /\ StagingOK /\ TargetOK /\ DirsOK /\ ContextOK
    /\ BridgeTypeOK /\ RestOK

LEMMA TypeInvTypes == TypeInv => TypeOK
  BY DEF TypeInv, TypeOK, CallsOK, CallRecord, KubeletOK, StorageOK, DiskOK, StagingOK, TargetOK,
         DirsOK, ContextOK, RestOK

LEMMA IdleType ==
    Idle \in CallRecord /\ Idle.pc = "idle" /\ Idle.node = None /\ Idle.volume = None
  BY NodeAssumption DEF Idle, CallRecord, Cleanup

\* A slot changes from one well-formed call to another.
LEMMA SlotTypes ==
    ASSUME CallsOK, NEW c \in Calls, NEW r \in CallRecord, Addressed(r),
           call' = [call EXCEPT ![c] = r]
    PROVE  CallsOK'
  BY DEF CallsOK

LEMMA GotoTypes ==
    ASSUME CallsOK, KubeletOK, NEW c \in Calls, NEW pc \in Requests, call[c].pc # "idle",
           Goto(c, pc)
    PROVE  CallsOK' /\ KubeletOK'
<1> DEFINE r == [call[c] EXCEPT !.pc = pc]
<1>1. r \in CallRecord /\ Addressed(r)
  BY DEF CallsOK, CallRecord, Addressed
<1>2. call' = [call EXCEPT ![c] = r] /\ UNCHANGED kubelet
  BY DEF Goto
<1> HIDE DEF r
<1> QED BY <1>1, <1>2, SlotTypes DEF KubeletOK

LEMMA ContinueTypes ==
    ASSUME CallsOK, KubeletOK, NEW c \in Calls, NEW step \in Cleanup, call[c].pc # "idle",
           Continue(c, step)
    PROVE  CallsOK' /\ KubeletOK'
<1> DEFINE r == [call[c] EXCEPT !.step = step]
<1>1. r \in CallRecord /\ Addressed(r)
  BY DEF CallsOK, CallRecord, Addressed
<1>2. call' = [call EXCEPT ![c] = r] /\ UNCHANGED kubelet
  BY DEF Continue
<1> HIDE DEF r
<1> QED BY <1>1, <1>2, SlotTypes DEF KubeletOK

LEMMA AnswerTypes ==
    ASSUME CallsOK, KubeletOK, NEW c \in Calls, call[c].pc # "idle", NEW phase \in Phases,
           Answer(c, phase)
    PROVE  CallsOK' /\ KubeletOK'
<1>1. CallsOK'
  BY IdleType, SlotTypes DEF Answer, Addressed
<1>2. call[c].node \in Nodes /\ call[c].volume \in Volumes
  BY DEF CallsOK, Addressed
<1>3. KubeletOK'
  BY <1>2 DEF Answer, KubeletOK
<1> QED BY <1>1, <1>3

LEMMA FailTypes ==
    ASSUME CallsOK, KubeletOK, NEW c \in Calls, call[c].pc # "idle", Fail(c)
    PROVE  CallsOK' /\ KubeletOK'
<1>1. call[c].node \in Nodes /\ call[c].volume \in Volumes
  BY DEF CallsOK, Addressed
<1>2. kubelet[call[c].node][call[c].volume] \in Phases
  BY <1>1 DEF KubeletOK
<1> QED BY <1>2, AnswerTypes DEF Fail

\* What handlers do to their call: go on, return, or poll once more.
CallStep(c) ==
    \/ \E pc \in Requests : Goto(c, pc)
    \/ \E step \in Cleanup : Continue(c, step)
    \/ \E phase \in Phases : Answer(c, phase)
    \/ Fail(c)
    \/ call[c].tries + 1 < ProbeSteps /\ call' = [call EXCEPT ![c].tries = @ + 1] /\ UNCHANGED kubelet

LEMMA CallStepTypes ==
    ASSUME CallsOK, KubeletOK, NEW c \in Calls, call[c].pc # "idle", CallStep(c)
    PROVE  CallsOK' /\ KubeletOK'
<1>1. CASE \E pc \in Requests : Goto(c, pc)
  BY <1>1, GotoTypes
<1>2. CASE \E phase \in Phases : Answer(c, phase)
  BY <1>2, AnswerTypes
<1>3. CASE Fail(c)
  BY <1>3, FailTypes
<1>4. CASE call[c].tries + 1 < ProbeSteps /\ call' = [call EXCEPT ![c].tries = @ + 1] /\ UNCHANGED kubelet
  <2> DEFINE r == [call[c] EXCEPT !.tries = @ + 1]
  <2>1. r \in CallRecord /\ Addressed(r)
    BY <1>4, NodeAssumption DEF CallsOK, CallRecord, Addressed
  <2>2. call' = [call EXCEPT ![c] = r]
    BY <1>4
  <2> HIDE DEF r
  <2> QED BY <1>4, <2>1, <2>2, SlotTypes DEF KubeletOK
<1>5. CASE \E step \in Cleanup : Continue(c, step)
  BY <1>5, ContinueTypes
<1> QED BY <1>1, <1>2, <1>3, <1>4, <1>5 DEF CallStep

HandlerStep(c) == Handler(c) \/ Fails(c)

\* The steps of a handler, one by one.
LEMMA HandlerCases ==
    ASSUME NEW c, HandlerStep(c)
    PROVE  \/ Stage(c) \/ Probe(c) \/ Mkfs(c) \/ MountStaging(c) \/ Resize(c)
           \/ Publish(c) \/ BindStaging(c) \/ FindDevice(c) \/ BindDevice(c)
           \/ CheckMount(c) \/ Umount(c) \/ Recheck(c) \/ Remove(c) \/ Fails(c)
  BY DEF HandlerStep, Handler

LEMMA HandlerCalls ==
    ASSUME NEW c \in Calls, HandlerStep(c)
    PROVE  CallStep(c) /\ call[c].pc # "idle"
<1> USE DEF CallStep, Requests, StagePC, PublishPC, CleanupPC, Cleanup, Phases
<1>1. CASE Stage(c)
  BY <1>1 DEF Stage, Refused
<1>2. CASE Probe(c)
  BY <1>2 DEF Probe
<1>3. CASE Mkfs(c)
  BY <1>3 DEF Mkfs, Refused
<1>4. CASE MountStaging(c)
  BY <1>4 DEF MountStaging, Refused
<1>5. CASE Resize(c)
  BY <1>5 DEF Resize, Refused
<1>6. CASE Publish(c)
  BY <1>6 DEF Publish, Refused
<1>7. CASE BindStaging(c)
  BY <1>7 DEF BindStaging, Refused
<1>8. CASE FindDevice(c)
  BY <1>8 DEF FindDevice
<1>9. CASE BindDevice(c)
  BY <1>9 DEF BindDevice
<1>10. CASE CheckMount(c)
  BY <1>10 DEF CheckMount, At, Cleaned
<1>11. CASE Umount(c)
  BY <1>11 DEF Umount, At, Refused
<1>12. CASE Recheck(c)
  BY <1>12 DEF Recheck, At, Cleaned
<1>13. CASE Remove(c)
  BY <1>13 DEF Remove, At, Cleaned, Refused
<1>14. CASE Fails(c)
  BY <1>14 DEF Fails
<1> QED BY HandlerCases, <1>1, <1>2, <1>3, <1>4, <1>5, <1>6, <1>7,
        <1>8, <1>9, <1>10, <1>11, <1>12, <1>13, <1>14

\* What is behind the device path of a call is a volume or nothing.
LEMMA BehindType ==
    ASSUME TypeInv, NEW c \in Calls, call[c].pc # "idle"
    PROVE  /\ Behind(c) \in Volumes \cup {None} /\ Staged(c) \in Volumes \cup {None}
           /\ call[c].node \in Nodes /\ call[c].volume \in Volumes
<1>1. call[c].node \in Nodes /\ call[c].volume \in Volumes /\ call[c].path \in Paths \cup {None}
  BY DEF TypeInv, CallsOK, CallRecord, Addressed
<1> QED BY <1>1 DEF Behind, Staged, TypeInv, BridgeTypeOK, StagingOK

\* What a step of a handler does to the node: nothing, a command, or a new path.
NodeChange(c) ==
    UNCHANGED node \/ Command(c) \/ \E place \in Places : Make(c, place)

LEMMA HandlerNode ==
    ASSUME NEW c \in Calls, HandlerStep(c)
    PROVE  /\ NodeChange(c) /\ UNCHANGED <<context, lost, reboots>>
           /\ faults' \in {faults, faults + 1} /\ (faults' # faults => faults < MaxFaults)
<1> USE DEF NodeChange, Places, cluster, bounds
<1>1. CASE Stage(c) \/ Probe(c) \/ Publish(c) \/ FindDevice(c)
  BY <1>1 DEF Stage, Probe, Publish, FindDevice, Refused
<1>2. CASE Mkfs(c) \/ MountStaging(c) \/ Resize(c)
  BY <1>2 DEF Mkfs, MountStaging, Resize, Refused, Command
<1>3. CASE BindStaging(c) \/ BindDevice(c)
  BY <1>3 DEF BindStaging, BindDevice, Refused, Command
<1>4. CASE CheckMount(c) \/ Umount(c) \/ Recheck(c) \/ Remove(c)
  BY <1>4 DEF CheckMount, Umount, Recheck, Remove, Refused, Command
<1>5. CASE Fails(c)
  BY <1>5 DEF Fails
<1> QED BY HandlerCases, <1>1, <1>2, <1>3, <1>4, <1>5

LEMMA BelowType ==
    ASSUME NEW S, NEW stack \in Seq(S)
    PROVE  Below(stack) \in Seq(S)
  BY DEF Below

\* A stack of one volume remains one when its newest mount goes, or another comes.
LEMMA BelowEntries ==
    ASSUME NEW stack \in Seq(Volumes \cup {HostDir}), NEW x \in Volumes,
           \A i \in DOMAIN stack : stack[i] = x
    PROVE  \A i \in DOMAIN Below(stack) : Below(stack)[i] = x
<1>1. CASE stack = <<>>
  BY <1>1 DEF Below
<1>2. CASE stack # <<>>
  <2>1. /\ Below(stack) = Tail(stack) /\ Tail(stack) \in Seq(Volumes \cup {HostDir})
        /\ Len(Tail(stack)) = Len(stack) - 1
        /\ \A i \in 1 .. Len(stack) - 1 : Tail(stack)[i] = stack[i + 1]
    BY <1>2 DEF Below
  <2>2. \A i \in DOMAIN Tail(stack) : i + 1 \in DOMAIN stack /\ Tail(stack)[i] = stack[i + 1]
    BY <2>1
  <2> QED BY <2>1, <2>2
<1> QED BY <1>1, <1>2

LEMMA OnTopEntries ==
    ASSUME NEW stack \in Seq(Volumes \cup {HostDir}), NEW x \in Volumes,
           \A i \in DOMAIN stack : stack[i] = x
    PROVE  \A i \in DOMAIN (<<x>> \o stack) : (<<x>> \o stack)[i] = x
<1>1. /\ Len(<<x>> \o stack) = Len(stack) + 1 /\ <<x>> \o stack \in Seq(Volumes \cup {HostDir})
      /\ Len(stack) \in Nat
  OBVIOUS
<1>2. \A i \in 1 .. Len(stack) : stack[i] = x
  OBVIOUS
<1>3. ASSUME NEW i \in 1 .. Len(stack) + 1
      PROVE  (<<x>> \o stack)[i] = x
  <2>1. CASE i = 1
    BY <2>1
  <2>2. CASE i # 1
    <3>1. i - 1 \in 1 .. Len(stack) /\ (<<x>> \o stack)[i] = stack[i - 1]
      BY <1>1, <2>2
    <3> QED BY <1>2, <3>1
  <2> QED BY <2>1, <2>2
<1> QED BY <1>1, <1>3

\* The node and the volumes stay well formed under the steps of a handler.
LEMMA ChangeTypes ==
    ASSUME TypeInv, NEW c \in Calls, call[c].pc # "idle", NodeChange(c)
    PROVE  UNCHANGED device /\ StorageOK' /\ StagingOK' /\ TargetOK' /\ DirsOK'
<1> USE DEF node, storage, mounts
<1>1. PICK n \in Nodes, v \in Volumes : n = call[c].node /\ v = call[c].volume
  BY BehindType
<1>2. Behind(c) \in Volumes \cup {None} /\ Staged(c) \in Volumes \cup {None}
  BY BehindType
<1>3. StorageOK /\ StagingOK /\ TargetOK /\ DirsOK
  BY DEF TypeInv
<1>4. /\ UNCHANGED storage => StorageOK'
      /\ UNCHANGED staging => StagingOK'
      /\ UNCHANGED target => TargetOK'
      /\ UNCHANGED dirs => DirsOK'
  BY <1>3 DEF StorageOK, DiskOK, StagingOK, TargetOK, DirsOK
<1>5. target[n][v] \in Seq(Volumes \cup {HostDir})
  BY <1>3 DEF TargetOK
<1>6. CASE UNCHANGED node
  BY <1>4, <1>6
<1>7. CASE (\E place \in Places : Make(c, place)) \/ DropFile(c) \/ Delete(c)
  <2>1. UNCHANGED dirs \/ \E made \in SUBSET Places : dirs' = [dirs EXCEPT ![n][v] = made]
    <3>1. dirs[n][v] \in SUBSET Places
      BY <1>3 DEF DirsOK
    <3>2. CASE \E place \in Places : Make(c, place)
      BY <1>1, <1>3, <3>1, <3>2 DEF Make, DirsOK
    <3>3. CASE DropFile(c) \/ Delete(c)
      BY <1>1, <1>3, <3>1, <3>3 DEF DropFile, Delete, RemovePath, DirsOK
    <3> QED BY <1>7, <3>2, <3>3
  <2>2. DirsOK'
    BY <1>3, <1>4, <2>1 DEF DirsOK
  <2> QED BY <1>4, <1>7, <2>2 DEF Make, DropFile, Delete, RemovePath
<1>8. CASE Format(c)
  BY <1>2, <1>3, <1>4, <1>8 DEF Format, CanFormat, StorageOK, DiskOK
<1>9. CASE MountVolume(c)
  BY <1>1, <1>2, <1>3, <1>4, <1>9 DEF MountVolume, StagingOK
<1>10. CASE Grow(c)
  BY <1>2, <1>3, <1>4, <1>10 DEF Grow, CanGrow, StorageOK, DiskOK
<1>11. CASE BindDir(c) \/ BindBlock(c)
  <2>1. PICK w \in Volumes \cup {HostDir} : Bind(c, w)
    BY <1>1, <1>2, <1>11 DEF BindDir, BindBlock
  <2>2. <<w>> \o target[n][v] \in Seq(Volumes \cup {HostDir})
    BY <1>5
  <2>3. target' = [target EXCEPT ![n][v] = <<w>> \o target[n][v]]
    BY <1>1, <1>3, <2>1 DEF Bind, TargetOK
  <2>4. TargetOK'
    BY <1>3, <2>2, <2>3 DEF TargetOK
  <2> QED BY <1>4, <2>1, <2>4 DEF Bind
<1>12. CASE TakeOff(c)
  <2>1. PICK rest \in Seq(Volumes \cup {HostDir}) : rest = Below(target[n][v])
    BY <1>5, BelowType
  <2>2. UNCHANGED target \/ target' = [target EXCEPT ![n][v] = rest]
    BY <1>1, <1>3, <1>12, <2>1 DEF TakeOff, TargetOK
  <2>3. TargetOK'
    <3>1. CASE UNCHANGED target
      BY <1>4, <3>1
    <3>2. CASE target' = [target EXCEPT ![n][v] = rest]
      BY <1>3, <3>2 DEF TargetOK
    <3> QED BY <2>2, <3>1, <3>2
  <2>4. StagingOK'
    BY <1>1, <1>3, <1>4, <1>12 DEF TakeOff, StagingOK
  <2> QED BY <1>4, <1>12, <2>3, <2>4 DEF TakeOff
<1> QED BY <1>6, <1>7, <1>8, <1>9, <1>10, <1>11, <1>12 DEF NodeChange, Command

LEMMA HandlerTypes ==
    ASSUME TypeInv, NEW c \in Calls, HandlerStep(c)
    PROVE  TypeInv'
<1>1. CallsOK' /\ KubeletOK'
  BY HandlerCalls, CallStepTypes DEF TypeInv
<1>2. UNCHANGED device /\ StorageOK' /\ StagingOK' /\ TargetOK' /\ DirsOK'
  BY HandlerCalls, HandlerNode, ChangeTypes
<1>3. BridgeTypeOK' /\ ContextOK' /\ RestOK'
  BY <1>2, HandlerNode, NodeAssumption DEF TypeInv, BridgeTypeOK, ContextOK, RestOK
<1> QED BY <1>1, <1>2, <1>3 DEF TypeInv

\* A call that a kubelet starts.
LEMMA StartTypes ==
    ASSUME TypeInv, NEW c \in Calls, NEW n \in Nodes, NEW v \in Volumes, NEW pc \in Requests,
           Start(c, n, v, pc)
    PROVE  CallsOK' /\ UNCHANGED <<device, disk, grown, mounts, context, lost, faults, reboots>>
<1> DEFINE r == [Idle EXCEPT !.pc = pc, !.node = n, !.volume = v, !.path = context[n][v],
                             !.waiting = TRUE]
<1>0. context[n][v] \in Paths \cup {None} /\ 0 \in 0 .. ProbeSteps - 1
  BY NodeAssumption DEF TypeInv, ContextOK
<1>1. r \in CallRecord /\ Addressed(r)
  BY <1>0 DEF Idle, CallRecord, Cleanup, Addressed
<1>2. call' = [call EXCEPT ![c] = r]
  BY DEF Start
<1> HIDE DEF r
<1> QED BY <1>1, <1>2, SlotTypes DEF TypeInv, Start, node, storage, mounts, cluster, bounds

LEMMA TypeStep ==
    ASSUME TypeInv, [Next]_vars
    PROVE  TypeInv'
<1> USE DEF node, storage, mounts, cluster, bounds
<1>0. /\ CallsOK /\ KubeletOK /\ StorageOK /\ StagingOK /\ TargetOK /\ DirsOK
      /\ ContextOK /\ BridgeTypeOK /\ RestOK
  BY DEF TypeInv
<1>a. /\ UNCHANGED storage => StorageOK'
      /\ UNCHANGED mounts => StagingOK' /\ TargetOK' /\ DirsOK'
      /\ UNCHANGED context => ContextOK'
      /\ UNCHANGED device => BridgeTypeOK'
      /\ UNCHANGED <<lost, faults, reboots>> => RestOK'
      /\ UNCHANGED call => CallsOK'
      /\ UNCHANGED kubelet => KubeletOK'
  BY <1>0 DEF StorageOK, DiskOK, StagingOK, TargetOK, DirsOK, ContextOK, BridgeTypeOK, RestOK,
              CallsOK, KubeletOK
<1>b. ASSUME NEW n \in Nodes, NEW v \in Volumes, NEW phase \in Phases,
             kubelet' = [kubelet EXCEPT ![n][v] = phase]
      PROVE  KubeletOK'
  BY <1>0, <1>b DEF KubeletOK
<1>1. ASSUME NEW c \in Calls, HandlerStep(c)
      PROVE  TypeInv'
  BY <1>1, HandlerTypes
<1>2. ASSUME NEW c \in Calls, DeadlineExpires(c)
      PROVE  TypeInv'
  <2> DEFINE r == [call[c] EXCEPT !.waiting = FALSE]
  <2>1. r \in CallRecord /\ Addressed(r)
    BY <1>0 DEF CallsOK, CallRecord, Addressed
  <2>2. call' = [call EXCEPT ![c] = r]
    BY <1>2 DEF DeadlineExpires
  <2> HIDE DEF r
  <2>3. CallsOK'
    BY <1>0, <2>1, <2>2, SlotTypes
  <2>4. RestOK'
    BY <1>0, <1>2, NodeAssumption DEF DeadlineExpires, RestOK
  <2> QED BY <1>2, <1>a, <2>3, <2>4 DEF DeadlineExpires, TypeInv
<1>3. ASSUME NEW c \in Calls, NEW n \in Nodes, NEW v \in Volumes, Kubelet(c, n, v)
      PROVE  TypeInv'
  <2>1. \E pc \in Requests : Start(c, n, v, pc)
    BY <1>3 DEF Kubelet, CallStage, CallPublish, CallUnpublish, CallUnstage, Requests, StagePC,
                PublishPC, CleanupPC
  <2>2. UNCHANGED kubelet \/ \E phase \in Phases : kubelet' = [kubelet EXCEPT ![n][v] = phase]
    BY <1>3 DEF Kubelet, CallStage, CallPublish, CallUnpublish, CallUnstage, Phases
  <2>3. KubeletOK'
    BY <1>a, <1>b, <2>2
  <2>4. CallsOK' /\ UNCHANGED <<device, disk, grown, mounts, context, lost, faults, reboots>>
    BY <2>1, StartTypes
  <2> QED BY <1>a, <2>3, <2>4 DEF TypeInv
<1>4. ASSUME NEW n \in Nodes, NEW v \in Volumes, PodWrites(n, v)
      PROVE  TypeInv'
  <2>1. DiskOK'
    BY <1>0, <1>4 DEF PodWrites, StorageOK, DiskOK
  <2>2. StorageOK'
    BY <1>0, <1>4, <2>1 DEF PodWrites, StorageOK
  <2> QED BY <1>4, <1>a, <2>2 DEF PodWrites, TypeInv
<1>5. ASSUME NEW n \in Nodes, NEW v \in Volumes, Connects(n, v) \/ Disconnects(n, v)
      PROVE  TypeInv'
  <2>1. BridgeTypeOK'
    BY <1>0, <1>5 DEF Connects, Disconnects, Connect, Disconnect, Mapped, BridgeTypeOK
  <2> QED BY <1>5, <1>a, <2>1 DEF Connects, Disconnects, TypeInv
<1>6. ASSUME NEW n \in Nodes, NEW v \in Volumes, Attach(n, v) \/ Revoke(n, v)
      PROVE  TypeInv'
  <2>1. \E p \in Paths \cup {None} : context' = [context EXCEPT ![n][v] = p]
    BY <1>6 DEF Attach, Revoke, Mapped
  <2>2. ContextOK'
    BY <1>0, <2>1 DEF ContextOK
  <2> QED BY <1>6, <1>a, <2>2 DEF Attach, Revoke, TypeInv
<1>7. ASSUME NEW v \in Volumes, Lose(v)
      PROVE  TypeInv'
  BY <1>7, <1>0, <1>a DEF Lose, RestOK, TypeInv
<1>8. ASSUME NEW n \in Nodes, Reboot(n)
      PROVE  TypeInv'
  <2>1. BridgeTypeOK' /\ StagingOK'
    BY <1>0, <1>8 DEF Reboot, BridgeTypeOK, StagingOK
  <2>2. TargetOK' /\ DirsOK'
    BY <1>0, <1>8 DEF Reboot, TargetOK, DirsOK
  <2>3. CallsOK'
    BY <1>0, <1>8, IdleType DEF Reboot, CallsOK, Addressed
  <2>4. KubeletOK'
    <3> DEFINE row == [v \in Volumes |-> IF kubelet[n][v] = "idle" THEN "idle" ELSE "staging"]
    <3>1. row \in [Volumes -> Phases]
      BY DEF Phases
    <3>2. kubelet' = [kubelet EXCEPT ![n] = row]
      BY <1>8 DEF Reboot
    <3> HIDE DEF row
    <3> QED BY <1>0, <3>1, <3>2 DEF KubeletOK
  <2>5. RestOK'
    BY <1>0, <1>8, NodeAssumption DEF Reboot, RestOK
  <2> QED BY <1>8, <1>a, <2>1, <2>2, <2>3, <2>4, <2>5 DEF Reboot, TypeInv
<1>9. CASE UNCHANGED vars
  BY <1>9, <1>a DEF vars, TypeInv
<1> QED BY <1>1, <1>2, <1>3, <1>4, <1>5, <1>6, <1>7, <1>8, <1>9
        DEF Next, Nodewise, Environment, HandlerStep

LEMMA InitTypes == Init => TypeInv
<1> SUFFICES ASSUME Init PROVE TypeInv
  OBVIOUS
<1>1. CallsOK
  BY IdleType DEF Init, CallsOK, Addressed
<1>2. KubeletOK /\ StagingOK /\ ContextOK /\ BridgeTypeOK
  BY DEF Init, BridgeInit, KubeletOK, Phases, StagingOK, ContextOK, BridgeTypeOK
<1>3. TargetOK /\ DirsOK
  BY DEF Init, TargetOK, DirsOK
<1>4. StorageOK /\ RestOK
  BY NodeAssumption DEF Init, StorageOK, DiskOK, RestOK
<1> QED BY <1>1, <1>2, <1>3, <1>4 DEF TypeInv

LEMMA TypeInvariant == Spec => []TypeInv
  BY InitTypes, TypeStep, PTL DEF Spec

\* Every reachable state is well formed: devices, mounts, calls and what the
\* kubelets believe never leave the values the model gives them.
THEOREM TypeCorrect == Spec => []TypeOK
  BY TypeInvariant, TypeInvTypes, PTL

-----------------------------------------------------------------------------
(* What pods find, when the kubelet waits for its calls and no node reboots *)

\* A handler that fails leaves what the kubelet believes alone.
LEMMA FailChanges ==
    ASSUME TypeInv, NEW c \in Calls, call[c].pc # "idle", Fail(c)
    PROVE  kubelet' = kubelet
  BY DEF TypeInv, KubeletOK, CallsOK, Addressed, Answer, Fail

\* The phase in which the kubelet waits for a call.
Awaited(pc, phase) ==
    \/ pc \in StagePC /\ phase = "staging"
    \/ pc \in PublishPC /\ phase = "publishing"
    \/ pc = "unpublish" /\ phase = "unpublishing"
    \/ pc = "unstage" /\ phase = "unstaging"

\* A call that runs is awaited; staging looks at the path of the publish context,
\* and resizes what it has mounted; the volume that is about to be formatted is
\* as blank as blkid found it.
SlotInv(c) ==
    LET n == call[c].node
        v == call[c].volume
        pc == call[c].pc
    IN pc # "idle" =>
        /\ call[c].waiting /\ Awaited(pc, kubelet[n][v])
        /\ pc \in StagePC => call[c].path = context[n][v]
        /\ pc \in {"findDevice", "bindDevice"} => v \in Block
        /\ pc \in {"probe", "mkfs", "mount", "resize", "bindStaging"} => v \notin Block
        /\ pc = "resize" => staging[n][v] = v
        /\ pc = "mkfs" => disk[v] = "blank"

\* What is mounted for a volume of a node is this volume, it is mounted when the
\* kubelet has got so far, and the device behind its path is the volume's.
MountInv(n, v) ==
    /\ kubelet[n][v] # "idle" => context[n][v] # None
    /\ context[n][v] # None => device[n][context[n][v]] = v
    /\ staging[n][v] \in {v, None}
    /\ kubelet[n][v] \in {"publishing", "running"} /\ v \notin Block
          => staging[n][v] = v /\ grown[v]
    /\ kubelet[n][v] = "running" => target[n][v] # <<>>
    /\ \A i \in DOMAIN target[n][v] : target[n][v][i] = v
    /\ v \notin FromSource => grown[v]

\* A volume is attached to one node, and a handler has it for itself.
OneNode == \A m, n \in Nodes, v \in Volumes :
              context[m][v] # None /\ context[n][v] # None => m = n

OneHandler == \A c, d \in Calls :
                 call[c].pc # "idle" /\ call[d].pc # "idle" /\ c # d
                    => call[c].volume # call[d].volume

PodInv ==
    /\ TypeInv /\ OneNode /\ OneHandler
    /\ \A c \in Calls : SlotInv(c)
    /\ \A n \in Nodes, v \in Volumes : MountInv(n, v)

\* What a handler may rely on.
LEMMA HandlerFacts ==
    ASSUME PodInv, NEW c \in Calls, call[c].pc # "idle"
    PROVE  /\ call[c].node \in Nodes /\ call[c].volume \in Volumes
           /\ SlotInv(c) /\ MountInv(call[c].node, call[c].volume)
           /\ context[call[c].node][call[c].volume] # None
           /\ call[c].pc \in StagePC => Behind(c) = call[c].volume
<1>1. call[c].node \in Nodes /\ call[c].volume \in Volumes
  BY DEF PodInv, TypeInv, CallsOK, Addressed
<1>2. SlotInv(c) /\ MountInv(call[c].node, call[c].volume)
  BY <1>1 DEF PodInv
<1>3. kubelet[call[c].node][call[c].volume] # "idle"
  BY <1>2 DEF SlotInv, Awaited
<1> QED BY <1>1, <1>2, <1>3 DEF SlotInv, MountInv, Behind

\* The three ways in which a handler leaves its request.
LEMMA AnswerFacts ==
    ASSUME PodInv, NEW c \in Calls, call[c].pc # "idle", NEW phase \in Phases, Answer(c, phase)
    PROVE  /\ call'[c] = Idle /\ \A d \in Calls \ {c} : call'[d] = call[d]
           /\ kubelet'[call[c].node][call[c].volume] = phase
           /\ \A n \in Nodes, v \in Volumes :
                 n # call[c].node \/ v # call[c].volume => kubelet'[n][v] = kubelet[n][v]
<1>1. /\ call[c].node \in Nodes /\ call[c].volume \in Volumes /\ call[c].waiting
  BY HandlerFacts DEF SlotInv
<1> QED BY <1>1 DEF PodInv, TypeInv, KubeletOK, CallsOK, Answer

LEMMA FailFacts ==
    ASSUME PodInv, NEW c \in Calls, call[c].pc # "idle", Fail(c)
    PROVE  call'[c] = Idle /\ (\A d \in Calls \ {c} : call'[d] = call[d]) /\ UNCHANGED kubelet
<1>1. TypeInv
  BY DEF PodInv
<1> QED BY <1>1, FailChanges DEF TypeInv, CallsOK, Fail, Answer

LEMMA GotoFacts ==
    ASSUME PodInv, NEW c \in Calls, NEW pc \in Requests, Goto(c, pc)
    PROVE  /\ call'[c].pc = pc /\ call'[c].node = call[c].node
           /\ call'[c].volume = call[c].volume /\ call'[c].path = call[c].path
           /\ call'[c].waiting = call[c].waiting /\ pc # "idle"
           /\ (\A d \in Calls \ {c} : call'[d] = call[d]) /\ UNCHANGED kubelet
  BY DEF PodInv, TypeInv, CallsOK, CallRecord, Goto, Requests, StagePC, PublishPC, CleanupPC

\* Only one kubelet is busy with a volume.
LEMMA OneKubelet ==
    ASSUME PodInv, NEW m \in Nodes, NEW n \in Nodes, NEW v \in Volumes,
           kubelet[m][v] # "idle", kubelet[n][v] # "idle"
    PROVE  m = n
  BY DEF PodInv, MountInv, OneNode

\* A step of a handler that touches nothing but its own volume.
Local(n, v) ==
    /\ UNCHANGED <<device, context>>
    /\ \A m \in Nodes, u \in Volumes : m # n \/ u # v =>
          kubelet'[m][u] = kubelet[m][u] /\ staging'[m][u] = staging[m][u]
          /\ target'[m][u] = target[m][u]
    /\ \A u \in Volumes \ {v} : disk'[u] = disk[u] /\ grown'[u] = grown[u]
    /\ grown[v] => grown'[v]

LEMMA LocalStep ==
    ASSUME PodInv, TypeInv', NEW c \in Calls, call[c].pc # "idle",
           NEW n \in Nodes, NEW v \in Volumes, n = call[c].node, v = call[c].volume,
           Local(n, v), \A d \in Calls \ {c} : call'[d] = call[d],
           \/ call'[c] = Idle
           \/ call'[c].node = n /\ call'[c].volume = v /\ SlotInv(c)',
           MountInv(n, v)'
    PROVE  PodInv'
<1>2. \A d \in Calls \ {c} : call[d].pc # "idle" => call[d].volume # v
  BY DEF PodInv, OneHandler
<1>3. ASSUME NEW d \in Calls
      PROVE  SlotInv(d)'
  <2>1. CASE d = c
    BY <2>1, IdleType DEF SlotInv
  <2>2. CASE d # c /\ call[d].pc # "idle"
    <3>1. call[d].node \in Nodes /\ call[d].volume \in Volumes /\ call[d].volume # v /\ SlotInv(d)
      BY <1>2, <2>2, HandlerFacts
    <3>2. /\ kubelet'[call[d].node][call[d].volume] = kubelet[call[d].node][call[d].volume]
          /\ staging'[call[d].node][call[d].volume] = staging[call[d].node][call[d].volume]
          /\ disk'[call[d].volume] = disk[call[d].volume]
          /\ context' = context /\ call'[d] = call[d]
      BY <2>2, <3>1 DEF Local
    <3> QED BY <3>1, <3>2 DEF SlotInv
  <2>3. CASE d # c /\ call[d].pc = "idle"
    BY <2>3 DEF SlotInv
  <2> QED BY <2>1, <2>2, <2>3
<1>4. ASSUME NEW m \in Nodes, NEW u \in Volumes
      PROVE  MountInv(m, u)'
  <2>1. CASE m = n /\ u = v
    BY <2>1
  <2>2. CASE m # n \/ u # v
    <3>1. MountInv(m, u) /\ (grown[u] => grown'[u])
      BY DEF PodInv, Local
    <3>2. /\ kubelet'[m][u] = kubelet[m][u] /\ staging'[m][u] = staging[m][u]
          /\ target'[m][u] = target[m][u] /\ context' = context /\ device' = device
      BY <2>2 DEF Local
    <3>3. /\ context'[m][u] = context[m][u]
          /\ \A p : device'[m][p] = device[m][p]
      BY <3>2
    <3>4. /\ kubelet'[m][u] # "idle" => context'[m][u] # None
          /\ context'[m][u] # None => device'[m][context'[m][u]] = u
          /\ staging'[m][u] \in {u, None}
      <4>1. /\ kubelet[m][u] # "idle" => context[m][u] # None
            /\ context[m][u] # None => device[m][context[m][u]] = u
            /\ staging[m][u] \in {u, None}
        BY <3>1 DEF MountInv
      <4> QED BY <4>1, <3>2, <3>3
    <3>5. /\ kubelet'[m][u] \in {"publishing", "running"} /\ u \notin Block
                => staging'[m][u] = u /\ grown'[u]
          /\ kubelet'[m][u] = "running" => target'[m][u] # <<>>
          /\ u \notin FromSource => grown'[u]
      BY <3>1, <3>2 DEF MountInv
    <3>6. \A i \in DOMAIN target'[m][u] : target'[m][u][i] = u
      <4>1. target'[m][u] = target[m][u]
        BY <3>2
      <4>2. \A i \in DOMAIN target[m][u] : target[m][u][i] = u
        BY <3>1 DEF MountInv
      <4> QED BY <4>1, <4>2
    <3> QED BY <3>4, <3>5, <3>6 DEF MountInv
  <2> QED BY <2>1, <2>2
<1>5. OneNode'
  BY DEF PodInv, OneNode, Local
<1>6. OneHandler'
  <2> SUFFICES ASSUME NEW d \in Calls, NEW e \in Calls, call'[d].pc # "idle",
                      call'[e].pc # "idle", call'[d].volume = call'[e].volume, d # e
               PROVE  FALSE
    BY DEF OneHandler
  <2>3. CASE d = c
    BY <1>2, <2>3, IdleType
  <2>4. CASE e = c
    BY <1>2, <2>4, IdleType
  <2>5. CASE d # c /\ e # c
    BY <2>5 DEF PodInv, OneHandler
  <2> QED BY <2>3, <2>4, <2>5
<1> QED BY <1>3, <1>4, <1>5, <1>6 DEF PodInv

\* What a handler does to the node concerns its own volume only, and mounts nothing
\* but this volume.
Alone(n, v) ==
    /\ UNCHANGED device
    /\ \A m \in Nodes, u \in Volumes : m # n \/ u # v =>
          staging'[m][u] = staging[m][u] /\ target'[m][u] = target[m][u]
    /\ \A u \in Volumes \ {v} : disk'[u] = disk[u] /\ grown'[u] = grown[u]
    /\ grown[v] => grown'[v]
    /\ staging'[n][v] \in {v, None}
    /\ staging'[n][v] = staging[n][v] \/ kubelet[n][v] \in {"staging", "unstaging"}
    /\ \A i \in DOMAIN target'[n][v] : target'[n][v][i] = v

LEMMA ChangeFacts ==
    ASSUME PodInv, NEW c \in Calls, call[c].pc # "idle", NodeChange(c),
           NEW n \in Nodes, NEW v \in Volumes, n = call[c].node, v = call[c].volume
    PROVE  Alone(n, v)
<1> USE DEF node, storage, mounts
<1>1. /\ SlotInv(c) /\ MountInv(n, v) /\ (call[c].pc \in StagePC => Behind(c) = v)
      /\ Staged(c) = staging[n][v] /\ v # None
  BY HandlerFacts, ClusterAssumption DEF Staged
<1>2. /\ grown \in [Volumes -> BOOLEAN] /\ disk \in [Volumes -> {"blank", "empty", "data"}]
      /\ staging \in [Nodes -> [Volumes -> Volumes \cup {None}]]
      /\ target \in [Nodes -> [Volumes -> Seq(Volumes \cup {HostDir})]]
  BY DEF PodInv, TypeInv, StorageOK, DiskOK, StagingOK, TargetOK
<1>3. /\ staging[n][v] \in {v, None} /\ \A i \in DOMAIN target[n][v] : target[n][v][i] = v
  BY <1>1 DEF MountInv
<1>4. CASE UNCHANGED node \/ (\E place \in Places : Make(c, place)) \/ DropFile(c) \/ Delete(c)
  <2>1. UNCHANGED <<device, disk, grown, staging, target>>
    BY <1>4 DEF Make, DropFile, Delete, RemovePath
  <2> QED BY <1>3, <2>1 DEF Alone
<1>5. CASE Format(c) \/ Grow(c)
  <2>1. UNCHANGED <<device, staging, target>> /\ Behind(c) = v
    BY <1>1, <1>5 DEF Format, Grow, StagePC
  <2>2. /\ \A u \in Volumes \ {v} : disk'[u] = disk[u] /\ grown'[u] = grown[u]
        /\ grown[v] => grown'[v]
    BY <1>2, <1>5, <2>1 DEF Format, Grow
  <2> QED BY <1>3, <2>1, <2>2 DEF Alone
<1>6. CASE MountVolume(c)
  <2>1. /\ UNCHANGED <<device, disk, grown, target>> /\ kubelet[n][v] = "staging"
        /\ staging' = [staging EXCEPT ![n][v] = v]
    BY <1>1, <1>6 DEF MountVolume, SlotInv, Awaited, StagePC, PublishPC
  <2> QED BY <1>2, <1>3, <2>1 DEF Alone
<1>7. CASE BindDir(c) \/ BindBlock(c)
  <2>1. Bind(c, v)
    <3>1. CASE BindDir(c)
      <4>1. v \notin Block /\ kubelet[n][v] = "publishing"
        BY <1>1, <3>1 DEF BindDir, SlotInv, Awaited, StagePC, PublishPC
      <4>2. Staged(c) = v
        BY <1>1, <4>1 DEF MountInv
      <4> QED BY <1>1, <3>1, <4>2 DEF BindDir
    <3>2. CASE BindBlock(c)
      BY <3>2 DEF BindBlock
    <3> QED BY <1>7, <3>1, <3>2
  <2>2. UNCHANGED <<device, disk, grown, staging>>
    BY <2>1 DEF Bind
  <2>3. target' = [target EXCEPT ![n][v] = <<v>> \o target[n][v]]
    BY <1>2, <2>1 DEF Bind
  <2>4. target'[n][v] = <<v>> \o target[n][v] /\ target[n][v] \in Seq(Volumes \cup {HostDir})
    BY <1>2, <2>3
  <2>5. \A i \in DOMAIN target'[n][v] : target'[n][v][i] = v
    <3>1. PICK above : above = <<v>> \o target[n][v]
      OBVIOUS
    <3>2. \A i \in DOMAIN above : above[i] = v
      BY <1>3, <2>4, <3>1, OnTopEntries
    <3> QED BY <2>4, <3>1, <3>2
  <2>6. \A m \in Nodes, u \in Volumes : m # n \/ u # v => target'[m][u] = target[m][u]
    BY <1>2, <2>3
  <2> QED BY <1>3, <2>2, <2>5, <2>6 DEF Alone
<1>8. CASE TakeOff(c)
  <2>1. /\ UNCHANGED <<device, disk, grown>>
        /\ UNCHANGED staging \/ (call[c].pc = "unstage" /\ staging' = [staging EXCEPT ![n][v] = None])
    BY <1>8 DEF TakeOff, At, CleanupPC
  <2>2. call[c].pc = "unstage" => kubelet[n][v] = "unstaging"
    BY <1>1 DEF SlotInv, Awaited, StagePC, PublishPC
  <2>3. /\ \A m \in Nodes, u \in Volumes : m # n \/ u # v => staging'[m][u] = staging[m][u]
        /\ staging'[n][v] \in {v, None}
        /\ staging'[n][v] = staging[n][v] \/ kubelet[n][v] \in {"staging", "unstaging"}
    BY <1>2, <1>3, <2>1, <2>2
  <2>0. target[n][v] \in Seq(Volumes \cup {HostDir})
    BY <1>2
  <2>7. PICK stack \in Seq(Volumes \cup {HostDir}) : stack = target[n][v]
    BY <2>0
  <2>9. \A i \in DOMAIN stack : stack[i] = v
    BY <1>3, <2>7
  <2>a. PICK rest : rest = Below(stack)
    OBVIOUS
  <2>b. \A i \in DOMAIN rest : rest[i] = v
    BY <2>9, <2>a, BelowEntries
  <2>4. UNCHANGED target \/ target' = [target EXCEPT ![n][v] = rest]
    BY <1>2, <1>8, <2>7, <2>a DEF TakeOff
  <2>5. \A m \in Nodes, u \in Volumes : m # n \/ u # v => target'[m][u] = target[m][u]
    BY <1>2, <2>4
  <2>6. target'[n][v] = target[n][v] \/ target'[n][v] = rest
    <3>1. CASE target' = [target EXCEPT ![n][v] = rest]
      BY <1>2, <3>1
    <3> QED BY <2>4, <3>1
  <2>8. \A i \in DOMAIN target'[n][v] : target'[n][v][i] = v
    BY <1>3, <2>6, <2>b
  <2> QED BY <2>1, <2>3, <2>5, <2>8 DEF Alone
<1> QED BY <1>4, <1>5, <1>6, <1>7, <1>8 DEF NodeChange, Command

LEMMA HandlerPods ==
    ASSUME PodInv, NEW c \in Calls, HandlerStep(c)
    PROVE  PodInv'
<1>0. /\ call[c].pc # "idle" /\ TypeInv /\ TypeInv' /\ NodeChange(c) /\ UNCHANGED context
  BY HandlerCalls, HandlerTypes, HandlerNode DEF PodInv
<1>1. PICK n \in Nodes, v \in Volumes : n = call[c].node /\ v = call[c].volume
  BY <1>0, HandlerFacts
<1>2. SlotInv(c) /\ MountInv(n, v) /\ (call[c].pc \in StagePC => Behind(c) = v)
  BY <1>0, <1>1, HandlerFacts
<1>3. Staged(c) = staging[n][v] /\ v # None /\ context[n][v] # None
  BY <1>0, <1>1, HandlerFacts, ClusterAssumption DEF Staged
<1>4. /\ grown \in [Volumes -> BOOLEAN] /\ disk \in [Volumes -> {"blank", "empty", "data"}]
      /\ staging \in [Nodes -> [Volumes -> Volumes \cup {None}]]
      /\ target \in [Nodes -> [Volumes -> Seq(Volumes \cup {HostDir})]]
  BY <1>0 DEF TypeInv, StorageOK, DiskOK, StagingOK, TargetOK
<1>5. Alone(n, v)
  BY <1>0, <1>1, ChangeFacts
<1>6. kubelet[n][v] \notin {"idle", "running"} /\ (v \notin FromSource => grown'[v])
  BY <1>1, <1>2, <1>5, <1>0 DEF SlotInv, Awaited, MountInv, StagePC, PublishPC, Alone
<1>a. ASSUME NEW phase \in Phases, Answer(c, phase),
             phase \in {"publishing", "running"} /\ v \notin Block => staging'[n][v] = v /\ grown'[v],
             phase = "running" => target'[n][v] # <<>>
      PROVE  PodInv'
  <2>1. /\ kubelet'[n][v] = phase /\ call'[c] = Idle
        /\ \A d \in Calls \ {c} : call'[d] = call[d]
        /\ \A m \in Nodes, u \in Volumes : m # n \/ u # v => kubelet'[m][u] = kubelet[m][u]
    BY <1>0, <1>1, <1>a, AnswerFacts
  <2>2. Local(n, v)
    BY <1>0, <1>5, <2>1 DEF Local, Alone
  <2>3. MountInv(n, v)'
    BY <1>0, <1>2, <1>3, <1>5, <1>6, <1>a, <2>1 DEF MountInv, Alone
  <2> QED BY <1>0, <1>1, <2>1, <2>2, <2>3, LocalStep
<1>b. ASSUME UNCHANGED kubelet
      PROVE  Local(n, v) /\ MountInv(n, v)'
  <2>1. Local(n, v)
    BY <1>0, <1>5, <1>b DEF Local, Alone
  <2>2. MountInv(n, v)'
    BY <1>0, <1>2, <1>5, <1>6, <1>b DEF MountInv, Alone
  <2> QED BY <2>1, <2>2
<1>c. ASSUME Fail(c)
      PROVE  PodInv'
  BY <1>0, <1>1, <1>b, <1>c, FailFacts, LocalStep
<1>d. ASSUME NEW pc \in Requests, Goto(c, pc),
             Awaited(pc, kubelet[n][v]),
             pc \in StagePC => call[c].pc \in StagePC,
             pc \in {"findDevice", "bindDevice"} => v \in Block,
             pc \in {"probe", "mkfs", "mount", "resize", "bindStaging"} => v \notin Block,
             pc = "resize" => staging'[n][v] = v,
             pc = "mkfs" => disk'[v] = "blank"
      PROVE  PodInv'
  <2>1. Local(n, v) /\ MountInv(n, v)'
    BY <1>b, <1>d DEF Goto
  <2>2. SlotInv(c)'
    BY <1>0, <1>1, <1>2, <1>d, GotoFacts DEF SlotInv
  <2> QED BY <1>0, <1>1, <1>d, <2>1, <2>2, GotoFacts, LocalStep
<1>e. ASSUME NEW step \in Cleanup, call[c].pc \in CleanupPC, Continue(c, step)
      PROVE  PodInv'
  <2>1. Local(n, v) /\ MountInv(n, v)'
    BY <1>b, <1>e DEF Continue
  <2>2. /\ call'[c].pc = call[c].pc /\ call'[c].node = n /\ call'[c].volume = v
        /\ call'[c].waiting = call[c].waiting
        /\ (\A d \in Calls \ {c} : call'[d] = call[d]) /\ UNCHANGED kubelet
    BY <1>0, <1>1, <1>e DEF Continue, TypeInv, CallsOK, CallRecord
  <2>3. SlotInv(c)'
    BY <1>1, <1>2, <1>e, <2>2 DEF SlotInv, CleanupPC, StagePC
  <2> QED BY <1>0, <1>1, <2>1, <2>2, <2>3, LocalStep
<1> USE DEF Awaited, StagePC, PublishPC, Requests, Phases
<1>7. CASE Stage(c)
  <2>0. call[c].pc = "stage" /\ kubelet[n][v] = "staging"
    BY <1>1, <1>2, <1>7 DEF Stage, SlotInv
  <2>1. CASE Goto(c, "probe") /\ v \notin Block
    BY <1>d, <2>0, <2>1
  <2>2. CASE /\ UNCHANGED node /\ staging[n][v] # None /\ v \notin Block
             /\ Goto(c, "resize")
    <3>1. staging'[n][v] = v
      BY <1>2, <2>2 DEF MountInv, node, mounts
    <3> QED BY <1>d, <2>0, <2>2, <3>1
  <2>3. CASE /\ UNCHANGED node /\ Answer(c, "publishing")
             /\ v \notin Block => staging[n][v] # None /\ v \notin FromSource
    <3>1. v \notin Block => staging'[n][v] = v /\ grown'[v]
      BY <1>2, <2>3 DEF MountInv, node, mounts, storage
    <3> QED BY <1>a, <2>3, <3>1
  <2> QED BY <1>1, <1>3, <1>7, <1>c, <2>1, <2>2, <2>3 DEF Stage, Refused
<1>8. CASE Probe(c)
  <2>0. UNCHANGED node /\ call[c].pc = "probe" /\ kubelet[n][v] = "staging"
        /\ Behind(c) = v /\ v \notin Block
    BY <1>1, <1>2, <1>8 DEF Probe, SlotInv
  <2>1. CASE disk[v] = "blank" /\ Goto(c, "mkfs")
    BY <1>d, <2>0, <2>1 DEF node, storage
  <2>2. CASE Goto(c, "mount")
    BY <1>d, <2>0, <2>2
  <2> QED BY <1>8, <1>c, <2>0, <2>1, <2>2 DEF Probe
<1>9. CASE Mkfs(c)
  <2>0. call[c].pc = "mkfs" /\ kubelet[n][v] = "staging" /\ v \notin Block
    BY <1>1, <1>2, <1>9 DEF Mkfs, SlotInv
  <2>1. CASE Goto(c, "mount")
    BY <1>d, <2>0, <2>1
  <2> QED BY <1>9, <1>c, <2>1 DEF Mkfs, Refused
<1>10. CASE MountStaging(c)
  <2>0. call[c].pc = "mount" /\ kubelet[n][v] = "staging" /\ Behind(c) = v /\ v \notin Block
    BY <1>1, <1>2, <1>10 DEF MountStaging, SlotInv
  <2>1. ASSUME MountVolume(c)
        PROVE  staging'[n][v] = v
    BY <1>1, <1>4, <2>0, <2>1 DEF MountVolume
  <2>2. CASE MountVolume(c) /\ Goto(c, "resize")
    BY <1>d, <2>0, <2>1, <2>2
  <2>3. CASE MountVolume(c) /\ v \notin FromSource /\ Answer(c, "publishing")
    BY <1>a, <1>6, <2>1, <2>3
  <2> QED BY <1>1, <1>10, <1>c, <2>2, <2>3 DEF MountStaging, Refused
<1>11. CASE Resize(c)
  <2>0. call[c].pc = "resize" /\ kubelet[n][v] = "staging" /\ Behind(c) = v /\ staging[n][v] = v
    BY <1>1, <1>2, <1>11 DEF Resize, SlotInv
  <2>1. CASE Grow(c) /\ Answer(c, "publishing")
    <3>1. grown'[v] /\ staging'[n][v] = v
      BY <1>4, <2>0, <2>1 DEF Grow, mounts
    <3> QED BY <1>a, <2>1, <3>1
  <2> QED BY <1>11, <1>c, <2>1 DEF Resize, Refused
<1>12. CASE Publish(c)
  <2>0. call[c].pc = "publish" /\ kubelet[n][v] = "publishing"
    BY <1>1, <1>2, <1>12 DEF Publish, SlotInv
  <2>1. CASE Goto(c, "findDevice") /\ v \in Block
    BY <1>d, <2>0, <2>1
  <2>2. CASE Goto(c, "bindStaging") /\ v \notin Block
    BY <1>d, <2>0, <2>2
  <2>3. CASE UNCHANGED node /\ v \notin Block /\ LooksMounted(n, v) /\ Answer(c, "running")
    <3>1. staging'[n][v] = v /\ grown'[v] /\ target'[n][v] # <<>>
      BY <1>2, <2>0, <2>3 DEF MountInv, LooksMounted, node, mounts, storage
    <3> QED BY <1>a, <2>3, <3>1
  <2> QED BY <1>1, <1>12, <1>c, <2>1, <2>2, <2>3 DEF Publish, Refused
<1>13. CASE BindStaging(c) \/ BindDevice(c)
  <2>0. /\ call[c].pc \in {"bindStaging", "bindDevice"} /\ kubelet[n][v] = "publishing"
        /\ v \notin Block => staging[n][v] = v /\ grown[v]
    BY <1>1, <1>2, <1>13 DEF BindStaging, BindDevice, SlotInv, MountInv
  <2>1. CASE (BindDir(c) \/ BindBlock(c)) /\ Answer(c, "running")
    <3>1. PICK what : Bind(c, what)
      BY <2>1 DEF BindDir, BindBlock
    <3>2. target'[n][v] = <<what>> \o target[n][v] /\ target[n][v] \in Seq(Volumes \cup {HostDir})
      BY <1>1, <1>4, <3>1 DEF Bind
    <3>3. target'[n][v] # <<>>
      BY <3>2
    <3>4. v \notin Block => staging'[n][v] = v /\ grown'[v]
      BY <1>5, <2>0 DEF Alone
    <3> QED BY <1>a, <2>1, <3>3, <3>4
  <2> QED BY <1>13, <1>c, <2>1 DEF BindStaging, BindDevice, Refused
<1>14. CASE FindDevice(c)
  <2>0. call[c].pc = "findDevice" /\ kubelet[n][v] = "publishing" /\ v \in Block
    BY <1>1, <1>2, <1>14 DEF FindDevice, SlotInv
  <2>1. CASE Goto(c, "bindDevice")
    BY <1>d, <2>0, <2>1
  <2>2. CASE call' = [call EXCEPT ![c].tries = @ + 1] /\ UNCHANGED kubelet
    <3>1. /\ call'[c].pc = "findDevice" /\ call'[c].node = n /\ call'[c].volume = v
          /\ call'[c].waiting = call[c].waiting
          /\ \A d \in Calls \ {c} : call'[d] = call[d]
      BY <1>0, <1>1, <2>0, <2>2 DEF TypeInv, CallsOK, CallRecord
    <3>2. SlotInv(c)'
      BY <1>1, <1>2, <2>0, <2>2, <3>1 DEF SlotInv
    <3> QED BY <1>0, <1>1, <1>b, <2>2, <3>1, <3>2, LocalStep
  <2> QED BY <1>14, <1>c, <2>1, <2>2 DEF FindDevice
<1>15. CASE CheckMount(c) \/ Umount(c) \/ Recheck(c) \/ Remove(c)
  <2>1. call[c].pc \in CleanupPC
    BY <1>15 DEF CheckMount, Umount, Recheck, Remove, At
  <2>2. CASE Cleaned(c)
    <3>1. \E phase \in {"unstaging", "idle"} : Answer(c, phase)
      BY <2>2 DEF Cleaned
    <3> QED BY <1>a, <3>1
  <2>3. CASE \E step \in Cleanup : Continue(c, step)
    BY <1>e, <2>1, <2>3
  <2> QED BY <1>15, <1>c, <2>2, <2>3
          DEF CheckMount, Umount, Recheck, Remove, Refused, Cleanup
<1>16. CASE Fails(c)
  BY <1>16, <1>c DEF Fails
<1> QED BY HandlerCases, <1>7, <1>8, <1>9, <1>10, <1>11, <1>12, <1>13, <1>14, <1>15, <1>16

\* A kubelet calls for a volume that no handler has, because only one kubelet is
\* busy with it and waits for no other call.
LEMMA KubeletPods ==
    ASSUME PodInv, NEW c \in Calls, NEW n \in Nodes, NEW v \in Volumes, Kubelet(c, n, v)
    PROVE  PodInv'
<1>0. PICK pc \in {"stage", "publish", "unpublish", "unstage"} : Start(c, n, v, pc)
  BY DEF Kubelet, CallStage, CallPublish, CallUnpublish, CallUnstage
<1>1. TypeInv /\ UNCHANGED <<device, disk, grown, staging, target, context>>
  BY <1>0 DEF PodInv, Start, node, storage, mounts, cluster
<1>2. TypeInv'
  BY <1>1, TypeStep DEF Next, Nodewise
<1>3. /\ call'[c].pc = pc /\ call'[c].node = n /\ call'[c].volume = v
      /\ call'[c].path = context[n][v] /\ call'[c].waiting
      /\ \A d \in Calls \ {c} : call'[d] = call[d]
  BY <1>0, <1>1 DEF Start, Idle, TypeInv, CallsOK
<1>4. /\ Awaited(pc, kubelet'[n][v]) /\ context[n][v] # None
      /\ kubelet'[n][v] \in {kubelet[n][v], "staging", "unpublishing", "unstaging"}
      /\ \A m \in Nodes, u \in Volumes : m # n \/ u # v => kubelet'[m][u] = kubelet[m][u]
  <2>0. kubelet[n][v] # "idle" => context[n][v] # None
    BY DEF PodInv, MountInv
  <2>1. ASSUME NEW other, Start(c, n, v, other)
        PROVE  other = pc
    <3>1. DOMAIN call = Calls
      BY <1>1 DEF TypeInv, CallsOK
    <3>2. call'[c].pc = other
      BY <2>1, <3>1 DEF Start, Idle
    <3> QED BY <1>3, <3>2
  <2> USE <1>0, <1>1, <1>3 DEF TypeInv, KubeletOK, Awaited, StagePC, PublishPC
  <2>2. CASE CallStage(c, n, v)
    BY <2>1, <2>2 DEF CallStage
  <2>3. CASE CallPublish(c, n, v)
    BY <2>0, <2>1, <2>3 DEF CallPublish
  <2>4. CASE CallUnpublish(c, n, v)
    BY <2>0, <2>1, <2>4 DEF CallUnpublish
  <2>5. CASE CallUnstage(c, n, v)
    BY <2>0, <2>1, <2>5 DEF CallUnstage
  <2> QED BY <2>2, <2>3, <2>4, <2>5 DEF Kubelet
<1>5. ASSUME NEW d \in Calls, call[d].pc # "idle"
      PROVE  call[d].volume # v
  <2>1. /\ call[d].node \in Nodes /\ call[d].volume \in Volumes /\ SlotInv(d)
        /\ context[call[d].node][call[d].volume] # None
    BY <1>5, HandlerFacts
  <2>2. <<call[d].node, call[d].volume>> # <<n, v>>
    BY <1>0, <1>5, <2>1 DEF Start, SlotInv
  <2> QED BY <1>4, <2>1, <2>2 DEF PodInv, OneNode
<1>6. ASSUME NEW d \in Calls
      PROVE  SlotInv(d)'
  <2>1. CASE d = c
    BY <1>1, <1>3, <1>4, <2>1 DEF SlotInv
  <2>2. CASE d # c
    <3>1. SlotInv(d) /\ call'[d] = call[d]
      BY <1>3, <2>2 DEF PodInv
    <3>2. CASE call[d].pc # "idle"
      <4>1. call[d].node \in Nodes /\ call[d].volume \in Volumes \ {v}
        BY <1>5, <3>2, HandlerFacts
      <4> QED BY <1>1, <1>4, <3>1, <4>1 DEF SlotInv
    <3> QED BY <3>1, <3>2 DEF SlotInv
  <2> QED BY <2>1, <2>2
<1>7. ASSUME NEW m \in Nodes, NEW u \in Volumes
      PROVE  MountInv(m, u)'
  BY <1>1, <1>4 DEF PodInv, MountInv
<1>8. OneNode'
  BY <1>1 DEF PodInv, OneNode
<1>9. OneHandler'
  <2> SUFFICES ASSUME NEW d \in Calls, NEW e \in Calls, call'[d].pc # "idle",
                      call'[e].pc # "idle", call'[d].volume = call'[e].volume, d # e
               PROVE  FALSE
    BY DEF OneHandler
  <2>1. CASE d = c
    BY <1>3, <1>5, <2>1
  <2>2. CASE e = c
    BY <1>3, <1>5, <2>2
  <2>3. CASE d # c /\ e # c
    BY <1>3, <2>3 DEF PodInv, OneHandler
  <2> QED BY <2>1, <2>2, <2>3
<1> QED BY <1>2, <1>6, <1>7, <1>8, <1>9 DEF PodInv

\* The controller side connects a path that is free and takes one away that no
\* kubelet was told of.
LEMMA ControllerPods ==
    ASSUME PodInv, NEW n \in Nodes, NEW v \in Volumes,
           Connects(n, v) \/ Attach(n, v) \/ Revoke(n, v) \/ Disconnects(n, v)
    PROVE  PodInv'
<1> USE DEF node, storage, mounts, cluster
<1>1. TypeInv' /\ TypeInv
  BY TypeStep DEF Next, Environment, PodInv
<1>2. UNCHANGED <<disk, grown, staging, target, call, kubelet>>
  BY DEF Connects, Attach, Revoke, Disconnects
<1>3. OneHandler'
  BY <1>2 DEF PodInv, OneHandler
<1>4. \A m \in Nodes, u \in Volumes :
         kubelet[m][u] # "idle" => context'[m][u] = context[m][u]
  BY <1>1 DEF Connects, Attach, Revoke, Disconnects, PodInv, MountInv, TypeInv, ContextOK
<1>5. ASSUME NEW c \in Calls
      PROVE  SlotInv(c)'
  <2>1. CASE call[c].pc # "idle"
    <3>1. call[c].node \in Nodes /\ call[c].volume \in Volumes /\ SlotInv(c)
      BY <2>1, HandlerFacts
    <3>2. kubelet[call[c].node][call[c].volume] # "idle"
      BY <2>1, <3>1 DEF SlotInv, Awaited
    <3> QED BY <1>2, <1>4, <3>1, <3>2 DEF SlotInv
  <2>2. CASE call[c].pc = "idle"
    BY <1>2, <2>2 DEF SlotInv
  <2> QED BY <2>1, <2>2
<1>6. OneNode'
  BY <1>1 DEF Connects, Attach, Revoke, Disconnects, PodInv, OneNode, TypeInv, ContextOK
<1>7. ASSUME NEW m \in Nodes, NEW u \in Volumes, context'[m][u] # None
      PROVE  device'[m][context'[m][u]] = u
  <2>0. /\ context[m][u] # None => device[m][context[m][u]] = u
        /\ device \in [Nodes -> [Paths -> Volumes \cup {None}]]
        /\ context \in [Nodes -> [Volumes -> Paths \cup {None}]]
    BY <1>1 DEF PodInv, MountInv, TypeInv, ContextOK, BridgeTypeOK
  <2>1. CASE Connects(n, v)
    BY <1>7, <2>0, <2>1, ClusterAssumption DEF Connects, Connect
  <2>2. CASE Attach(n, v)
    BY <1>7, <2>0, <2>2 DEF Attach, Mapped
  <2>3. CASE Revoke(n, v)
    BY <1>7, <2>0, <2>3 DEF Revoke
  <2>4. CASE Disconnects(n, v)
    BY <1>7, <2>0, <2>4 DEF Disconnects, Disconnect, Mapped
  <2> QED BY <2>1, <2>2, <2>3, <2>4
<1>8. ASSUME NEW m \in Nodes, NEW u \in Volumes
      PROVE  MountInv(m, u)'
  BY <1>2, <1>4, <1>7 DEF PodInv, MountInv
<1> QED BY <1>1, <1>3, <1>5, <1>6, <1>8 DEF PodInv

\* A pod writes to its own volume, which nobody is about to format.
LEMMA WritePods ==
    ASSUME PodInv, NEW n \in Nodes, NEW v \in Volumes, PodWrites(n, v)
    PROVE  PodInv' /\ disk' = [disk EXCEPT ![v] = "data"]
<1> USE DEF mounts, cluster
<1>1. TypeInv' /\ TypeInv
  BY TypeStep DEF Next, Nodewise, PodInv
<1>2. kubelet[n][v] = "running" /\ UNCHANGED <<device, grown, staging, target, context, call, kubelet>>
  BY DEF PodWrites
<1>3. disk' = [disk EXCEPT ![v] = "data"]
  <2>1. target[n][v] # <<>> /\ target[n][v] \in Seq(Volumes \cup {HostDir})
    BY <1>1 DEF PodWrites, LooksMounted, TypeInv, TargetOK
  <2>2. Head(target[n][v]) = v
    BY <2>1 DEF PodInv, MountInv
  <2> QED BY <2>2 DEF PodWrites
<1>4. ASSUME NEW c \in Calls
      PROVE  SlotInv(c)'
  <2>1. CASE call[c].pc = "mkfs"
    <3>1. call[c].node \in Nodes /\ call[c].volume \in Volumes /\ SlotInv(c)
      BY <2>1, HandlerFacts
    <3>2. kubelet[call[c].node][call[c].volume] = "staging"
      BY <2>1, <3>1 DEF SlotInv, Awaited, PublishPC
    <3>3. call[c].volume # v
      BY <1>2, <3>1, <3>2, OneKubelet
    <3> QED BY <1>1, <1>2, <1>3, <3>1, <3>3 DEF SlotInv, TypeInv, StorageOK, DiskOK
  <2>2. CASE call[c].pc # "mkfs"
    BY <1>2, <2>2 DEF PodInv, SlotInv
  <2> QED BY <2>1, <2>2
<1>5. OneNode' /\ OneHandler' /\ \A m \in Nodes, u \in Volumes : MountInv(m, u)'
  BY <1>2 DEF PodInv, OneNode, OneHandler, MountInv
<1> QED BY <1>1, <1>3, <1>4, <1>5 DEF PodInv

LEMMA PodStep ==
    ASSUME ~Deadlines, MaxReboots = 0, PodInv, [Next]_vars
    PROVE  PodInv'
<1> USE DEF node, storage, mounts
<1>1. ASSUME NEW c \in Calls, HandlerStep(c)
      PROVE  PodInv'
  BY <1>1, HandlerPods
<1>2. ASSUME NEW c \in Calls, NEW n \in Nodes, NEW v \in Volumes, Kubelet(c, n, v)
      PROVE  PodInv'
  BY <1>2, KubeletPods
<1>3. ASSUME NEW n \in Nodes, NEW v \in Volumes, PodWrites(n, v)
      PROVE  PodInv'
  BY <1>3, WritePods
<1>4. ASSUME NEW n \in Nodes, NEW v \in Volumes,
             Connects(n, v) \/ Attach(n, v) \/ Revoke(n, v) \/ Disconnects(n, v)
      PROVE  PodInv'
  BY <1>4, ControllerPods
<1>5. ASSUME NEW n \in Nodes, Reboot(n)
      PROVE  FALSE
  BY <1>5 DEF Reboot, PodInv, TypeInv, RestOK
<1>6. ASSUME UNCHANGED vars \/ \E v \in Volumes : Lose(v)
      PROVE  PodInv'
  <2>1. UNCHANGED <<device, context, disk, grown, staging, target, call, kubelet>>
    BY <1>6 DEF Lose, vars
  <2>2. TypeInv'
    BY TypeStep DEF PodInv
  <2> QED BY <2>1, <2>2 DEF PodInv, SlotInv, MountInv, OneNode, OneHandler
<1> QED BY <1>1, <1>2, <1>3, <1>4, <1>5, <1>6
        DEF Next, Nodewise, Environment, HandlerStep, DeadlineExpires

LEMMA PodInit == Init => PodInv
<1> SUFFICES ASSUME Init PROVE PodInv
  OBVIOUS
<1>1. TypeInv
  BY InitTypes
<1>2. \A c \in Calls : call[c].pc = "idle"
  BY IdleType DEF Init
<1>3. ASSUME NEW n \in Nodes, NEW v \in Volumes
      PROVE  MountInv(n, v)
  <2>1. /\ kubelet[n][v] = "idle" /\ context[n][v] = None /\ staging[n][v] = None
        /\ target[n][v] = <<>> /\ (v \notin FromSource => grown[v])
    BY DEF Init
  <2>2. \A i \in DOMAIN target[n][v] : target[n][v][i] = v
    BY <2>1
  <2> QED BY <2>1, <2>2 DEF MountInv
<1>4. OneNode
  BY DEF Init, OneNode
<1> QED BY <1>1, <1>2, <1>3, <1>4 DEF PodInv, OneHandler, SlotInv

LEMMA PodInvariant ==
    ASSUME ~Deadlines, MaxReboots = 0
    PROVE  Spec => []PodInv
  BY PodInit, PodStep, PTL DEF Spec

\* A pod that runs sees its own volume, whatever commands fail, wherever the
\* volume was before and whichever volumes are lost.
THEOREM PodSeesVolumeCorrect ==
    ASSUME ~Deadlines, MaxReboots = 0
    PROVE  Spec => []PodSeesVolume
<1>1. PodInv => PodSeesVolume
  <2> SUFFICES ASSUME PodInv, NEW n \in Nodes, NEW v \in Volumes, kubelet[n][v] = "running"
               PROVE  LooksMounted(n, v) /\ Head(target[n][v]) = v
    BY DEF PodSeesVolume
  <2>1. target[n][v] \in Seq(Volumes \cup {HostDir}) /\ target[n][v] # <<>>
    BY DEF PodInv, TypeInv, TargetOK, MountInv
  <2>2. Head(target[n][v]) = v
    BY <2>1 DEF PodInv, MountInv
  <2> QED BY <2>1, <2>2, NodeAssumption DEF LooksMounted
<1> QED BY <1>1, PodInvariant, PTL

\* What is mounted at the staging path of a volume is this volume.
THEOREM StagedOwnCorrect ==
    ASSUME ~Deadlines, MaxReboots = 0
    PROVE  Spec => []StagedOwn
<1>1. PodInv => StagedOwn
  BY DEF PodInv, MountInv, StagedOwn
<1> QED BY <1>1, PodInvariant, PTL

\* A pod runs with a file system of the size of its volume.
THEOREM GrownBeforeUseCorrect ==
    ASSUME ~Deadlines, MaxReboots = 0
    PROVE  Spec => []GrownBeforeUse
<1>1. PodInv => GrownBeforeUse
  BY DEF PodInv, MountInv, GrownBeforeUse
<1> QED BY <1>1, PodInvariant, PTL

KeepsData == \A v \in Volumes : disk[v] = "data" => disk'[v] = "data"

\* Only mkfs takes data away, and it runs on the volume of its call, which is
\* still as blank as blkid found it.
LEMMA KeepsDataStep ==
    ASSUME ~Deadlines, MaxReboots = 0, PodInv, [Next]_vars
    PROVE  KeepsData
<1> USE DEF node, storage
<1>0. disk \in [Volumes -> {"blank", "empty", "data"}]
  BY DEF PodInv, TypeInv, StorageOK, DiskOK
<1>1. ASSUME NEW c \in Calls, HandlerStep(c)
      PROVE  KeepsData
  <2>1. CASE UNCHANGED disk
    BY <2>1 DEF KeepsData
  <2>2. CASE Format(c)
    <3>1. call[c].pc = "mkfs" /\ call[c].volume \in Volumes /\ SlotInv(c)
          /\ Behind(c) = call[c].volume
      BY <2>2, HandlerFacts DEF Format, StagePC
    <3>2. disk[Behind(c)] = "blank" /\ disk' = [disk EXCEPT ![Behind(c)] = "empty"]
      BY <2>2, <3>1 DEF SlotInv, Format
    <3> QED BY <1>0, <3>2 DEF KeepsData
  <2>3. UNCHANGED disk \/ Format(c)
    BY <1>1, HandlerNode
       DEF NodeChange, Command, Make, MountVolume, Grow, BindDir, BindBlock, Bind, DropFile,
           RemovePath, TakeOff, Delete
  <2> QED BY <2>1, <2>2, <2>3
<1>2. ASSUME NEW n \in Nodes, NEW v \in Volumes, PodWrites(n, v)
      PROVE  KeepsData
  BY <1>0, <1>2, WritePods DEF KeepsData
<1>3. ASSUME UNCHANGED disk
      PROVE  KeepsData
  BY <1>3 DEF KeepsData
<1>4. ASSUME NEW c \in Calls, NEW n \in Nodes, NEW v \in Volumes, Kubelet(c, n, v)
      PROVE  KeepsData
  <2>1. \E pc : Start(c, n, v, pc)
    BY <1>4 DEF Kubelet, CallStage, CallPublish, CallUnpublish, CallUnstage
  <2> QED BY <1>3, <2>1 DEF Start
<1>5. CASE Environment
  BY <1>3, <1>5 DEF Environment, Connects, Disconnects, Attach, Revoke, Lose, Reboot
<1> QED BY <1>1, <1>2, <1>3, <1>4, <1>5 DEF Next, Nodewise, HandlerStep, vars, DeadlineExpires

\* What a pod has written is never formatted, on whichever node and however often
\* the volume is staged again.
THEOREM NeverFormatsDataCorrect ==
    ASSUME ~Deadlines, MaxReboots = 0
    PROVE  Spec => NeverFormatsData
<1>1. PodInv /\ [Next]_vars => [KeepsData]_vars
  BY KeepsDataStep
<1>2. NeverFormatsData <=> [][KeepsData]_vars
  BY DEF NeverFormatsData, KeepsData
<1> QED BY <1>1, <1>2, PodInvariant, PTL DEF Spec

=============================================================================
