------------------------- MODULE NodeStorageProofs -------------------------
(* The node plugins keep the promise of PodStorage, when the kubelet waits   *)
(* for its calls and no node reboots: every step is a step of the abstract   *)
(* storage, or leaves it alone.                                              *)
EXTENDS NodeServerProofs

Users == [v \in Volumes |-> {n \in Nodes : kubelet[n][v] = "running"}]

Storage == INSTANCE PodStorage WITH content <- disk, users <- Users

\* Nothing is mounted for a volume before it is staged and after it is unstaged, what
\* is staged has a file system, and mounts are at paths that exist.
UsedInv(n, v) ==
    /\ kubelet[n][v] = "idle" => staging[n][v] = None
    /\ kubelet[n][v] \in {"idle", "staging", "unstaging"} => target[n][v] = <<>>
    /\ staging[n][v] # None => disk[v] # "blank" /\ "staging" \in dirs[n][v]
    /\ target[n][v] # <<>> => "target" \in dirs[n][v]

\* What is about to be mounted has a file system.
FormattedInv(c) == call[c].pc = "mount" => disk[call[c].volume] # "blank"

StorageInv ==
    /\ PodInv
    /\ \A n \in Nodes, v \in Volumes : UsedInv(n, v)
    /\ \A c \in Calls : FormattedInv(c)

-----------------------------------------------------------------------------
(* The invariant *)

\* A step about volume v of node n that may mount, unmount or write.
Elsewhere(n, v) ==
    /\ \A m \in Nodes, u \in Volumes : m # n \/ u # v =>
          /\ kubelet'[m][u] = kubelet[m][u] /\ staging'[m][u] = staging[m][u]
          /\ target'[m][u] = target[m][u] /\ dirs'[m][u] = dirs[m][u]
    /\ \A u \in Volumes : disk[u] # "blank" => disk'[u] # "blank"

LEMMA LocalUse ==
    ASSUME StorageInv, PodInv', NEW n \in Nodes, NEW v \in Volumes, Elsewhere(n, v),
           UsedInv(n, v)', \A c \in Calls : call'[c] = call[c] \/ FormattedInv(c)'
    PROVE  StorageInv'
<1>1. ASSUME NEW m \in Nodes, NEW u \in Volumes
      PROVE  UsedInv(m, u)'
  <2>1. CASE m = n /\ u = v
    BY <2>1
  <2>2. CASE m # n \/ u # v
    BY <2>2 DEF StorageInv, UsedInv, Elsewhere
  <2> QED BY <2>1, <2>2
<1>2. ASSUME NEW c \in Calls, call'[c] = call[c]
      PROVE  FormattedInv(c)'
  <2>1. call[c].pc = "mount" => call[c].volume \in Volumes
    BY HandlerFacts DEF StorageInv
  <2> QED BY <1>2, <2>1 DEF StorageInv, FormattedInv, Elsewhere
<1> QED BY <1>1, <1>2 DEF StorageInv

\* What a handler may rely on.
LEMMA UseFacts ==
    ASSUME StorageInv, NEW c \in Calls, call[c].pc # "idle"
    PROVE  /\ call[c].node \in Nodes /\ call[c].volume \in Volumes
           /\ SlotInv(c) /\ FormattedInv(c) /\ PodInv /\ TypeInv
           /\ MountInv(call[c].node, call[c].volume) /\ UsedInv(call[c].node, call[c].volume)
           /\ call[c].pc \in StagePC => Behind(c) = call[c].volume
           /\ call[c].pc \in StagePC => kubelet[call[c].node][call[c].volume] = "staging"
           /\ call[c].pc \in PublishPC => kubelet[call[c].node][call[c].volume] = "publishing"
           /\ call[c].pc = "unpublish" => kubelet[call[c].node][call[c].volume] = "unpublishing"
           /\ call[c].pc = "unstage" => kubelet[call[c].node][call[c].volume] = "unstaging"
<1>1. PodInv
  BY DEF StorageInv
<1>2. SlotInv(c) /\ call[c].node \in Nodes /\ call[c].volume \in Volumes
  BY <1>1, HandlerFacts
<1> QED BY <1>1, <1>2, HandlerFacts
        DEF StorageInv, PodInv, SlotInv, Awaited, StagePC, PublishPC

\* What a handler does to the node leaves mounts at paths that exist and file systems
\* on what is staged, and only a publication mounts something at a target path.
Sound(n, v) ==
    /\ staging'[n][v] # None => disk'[v] # "blank" /\ "staging" \in dirs'[n][v]
    /\ target'[n][v] # <<>> => "target" \in dirs'[n][v]
    /\ target[n][v] = <<>> => target'[n][v] = <<>> \/ kubelet[n][v] = "publishing"

Others(n, v) ==
    /\ \A m \in Nodes, u \in Volumes : m # n \/ u # v =>
          dirs'[m][u] = dirs[m][u]
    /\ \A u \in Volumes : disk[u] # "blank" => disk'[u] # "blank"

LEMMA ChangeUse ==
    ASSUME StorageInv, NEW c \in Calls, call[c].pc # "idle", NodeChange(c),
           NEW n \in Nodes, NEW v \in Volumes, n = call[c].node, v = call[c].volume
    PROVE  Sound(n, v) /\ Others(n, v)
<1> USE DEF node, storage, mounts
<1>1. /\ UsedInv(n, v) /\ FormattedInv(c) /\ (call[c].pc \in StagePC => Behind(c) = v)
      /\ call[c].pc \in PublishPC => kubelet[n][v] = "publishing"
      /\ Staged(c) = staging[n][v] /\ v # None
  BY UseFacts, ClusterAssumption DEF Staged
<1>2. /\ disk \in [Volumes -> {"blank", "empty", "data"}]
      /\ staging \in [Nodes -> [Volumes -> Volumes \cup {None}]]
      /\ target \in [Nodes -> [Volumes -> Seq(Volumes \cup {HostDir})]]
      /\ dirs \in [Nodes -> [Volumes -> SUBSET Places]]
  BY DEF StorageInv, PodInv, TypeInv, StorageOK, DiskOK, StagingOK, TargetOK, DirsOK
<1>3. /\ UNCHANGED <<disk, staging, target, dirs>> => Sound(n, v)
      /\ UNCHANGED <<disk, dirs>> => Others(n, v)
  BY <1>1 DEF Sound, Others, UsedInv
<1>4. CASE UNCHANGED node \/ Grow(c)
  BY <1>3, <1>4 DEF Grow
<1>5. CASE \E place \in Places : Make(c, place)
  <2>1. PICK place \in Places : dirs' = [dirs EXCEPT ![n][v] = dirs[n][v] \cup {place}]
    BY <1>2, <1>5 DEF Make
  <2>2. UNCHANGED <<disk, staging, target>>
    BY <1>5 DEF Make
  <2>3. dirs[n][v] \subseteq dirs'[n][v]
    BY <1>2, <2>1
  <2>4. Others(n, v)
    BY <1>2, <2>1, <2>2 DEF Others
  <2> QED BY <1>1, <2>2, <2>3, <2>4 DEF Sound, UsedInv
<1>6. CASE DropFile(c) \/ Delete(c)
  <2>1. UNCHANGED <<disk, staging, target>>
    BY <1>6 DEF DropFile, Delete, RemovePath
  <2>2. CASE UNCHANGED dirs
    BY <1>3, <2>1, <2>2
  <2>3. CASE ~UNCHANGED dirs
    <3>1. PICK place : /\ dirs' = [dirs EXCEPT ![n][v] = dirs[n][v] \ {place}]
                       /\ \/ place = "target" /\ target[n][v] = <<>>
                          \/ place = "staging" /\ staging[n][v] = None
      BY <1>1, <1>2, <1>6, <2>3 DEF DropFile, Delete, RemovePath, CanRemove, Covered, Place
    <3>2. dirs'[n][v] = dirs[n][v] \ {place}
      BY <1>2, <3>1
    <3>3. Others(n, v)
      BY <1>2, <2>1, <3>1 DEF Others
    <3>4. Sound(n, v)
      BY <1>1, <2>1, <3>1, <3>2 DEF Sound, UsedInv
    <3> QED BY <3>3, <3>4
  <2> QED BY <2>2, <2>3
<1>7. CASE Format(c)
  <2>1. UNCHANGED <<staging, target, dirs>> /\ disk' = [disk EXCEPT ![v] = "empty"]
    BY <1>1, <1>7 DEF Format, StagePC
  <2>2. disk'[v] = "empty" /\ \A u \in Volumes \ {v} : disk'[u] = disk[u]
    BY <1>2, <2>1
  <2> QED BY <1>1, <2>1, <2>2 DEF Sound, Others, UsedInv
<1>8. CASE MountVolume(c)
  <2>1. /\ UNCHANGED <<disk, target, dirs>> /\ disk[v] # "blank"
        /\ "staging" \in dirs[n][v]
    BY <1>1, <1>8 DEF MountVolume, CanMount, Exists, FormattedInv
  <2> QED BY <1>1, <1>3, <2>1 DEF Sound, UsedInv
<1>9. CASE BindDir(c) \/ BindBlock(c)
  <2>1. /\ UNCHANGED <<disk, staging, dirs>> /\ "target" \in dirs[n][v]
        /\ kubelet[n][v] = "publishing"
    BY <1>1, <1>9 DEF BindDir, BindBlock, CanBindDir, CanBindBlock, Bind, Exists, PublishPC
  <2> QED BY <1>1, <1>3, <2>1 DEF Sound, UsedInv
<1>10. CASE TakeOff(c)
  <2>1. UNCHANGED <<disk, dirs>>
    BY <1>10 DEF TakeOff
  <2>2. staging'[n][v] # None => staging[n][v] # None
    BY <1>1, <1>2, <1>10 DEF TakeOff
  <2>3. target[n][v] = <<>> => target'[n][v] = <<>>
    BY <1>1, <1>2, <1>10 DEF TakeOff, Below
  <2> QED BY <1>1, <1>3, <2>1, <2>2, <2>3 DEF Sound, UsedInv
<1> QED BY <1>4, <1>5, <1>6, <1>7, <1>8, <1>9, <1>10 DEF NodeChange, Command

\* How the steps of a handler end: the kubelet knows nothing new, staging or
\* publishing has succeeded, or nothing is mounted at the path any more.
LEMMA HandlerEnds ==
    ASSUME StorageInv, NEW c \in Calls, HandlerStep(c),
           NEW n \in Nodes, NEW v \in Volumes, n = call[c].node, v = call[c].volume
    PROVE  /\ \/ UNCHANGED kubelet
              \/ call[c].pc \in StagePC /\ Answer(c, "publishing")
              \/ call[c].pc \in PublishPC /\ Answer(c, "running")
              \/ Answer(c, "unstaging") /\ target'[n][v] = <<>>
              \/ /\ Answer(c, "idle") /\ target'[n][v] = <<>> /\ staging'[n][v] = None
           /\ \A d \in Calls \ {c} : call'[d] = call[d]
           /\ call'[c].pc = "mount" => call'[c].volume = v /\ disk'[v] # "blank"
<1> USE DEF node, storage, mounts
<1>0. /\ call[c].pc # "idle" /\ PodInv
  BY HandlerCalls DEF StorageInv, PodInv
<1>1. /\ UsedInv(n, v) /\ (call[c].pc \in StagePC => Behind(c) = v)
      /\ call[c].pc = "unstage" => kubelet[n][v] = "unstaging"
      /\ Staged(c) = staging[n][v]
  BY <1>0, UseFacts DEF Staged
<1>2. disk \in [Volumes -> {"blank", "empty", "data"}] /\ call \in [Calls -> CallRecord]
  BY <1>0 DEF PodInv, TypeInv, StorageOK, DiskOK, CallsOK
<1>a. ASSUME Fail(c)
      PROVE  UNCHANGED kubelet /\ call'[c].pc # "mount" /\ \A d \in Calls \ {c} : call'[d] = call[d]
  BY <1>0, <1>a, FailFacts, IdleType
<1>b. ASSUME NEW phase \in {"publishing", "running", "unstaging", "idle"}, Answer(c, phase)
      PROVE  call'[c].pc # "mount" /\ \A d \in Calls \ {c} : call'[d] = call[d]
  <2>1. phase \in Phases
    BY DEF Phases
  <2> QED BY <1>0, <1>b, <2>1, AnswerFacts, IdleType
<1>c. ASSUME NEW pc \in Requests, Goto(c, pc)
      PROVE  /\ call'[c].pc = pc /\ call'[c].volume = v /\ UNCHANGED kubelet
             /\ \A d \in Calls \ {c} : call'[d] = call[d]
  BY <1>0, <1>c, GotoFacts
<1>d. ASSUME call[c].pc # "mount",
             \/ \E step : Continue(c, step)
             \/ call' = [call EXCEPT ![c].tries = @ + 1] /\ UNCHANGED kubelet
      PROVE  /\ call'[c].pc # "mount" /\ UNCHANGED kubelet
             /\ \A d \in Calls \ {c} : call'[d] = call[d]
  BY <1>2, <1>d DEF Continue, CallRecord
<1>3. CASE Stage(c) \/ MountStaging(c) \/ Resize(c)
  BY <1>3, <1>a, <1>b, <1>c
     DEF Stage, MountStaging, Resize, Refused, Requests, StagePC
<1>4. CASE Probe(c)
  <2>1. CASE UNCHANGED disk /\ disk[v] # "blank" /\ Goto(c, "mount")
    BY <2>1, <1>c DEF Requests, StagePC
  <2>2. CASE Fail(c) \/ Goto(c, "mkfs")
    BY <2>2, <1>a, <1>c DEF Requests, StagePC
  <2> QED BY <1>1, <1>4, <2>1, <2>2 DEF Probe, StagePC
<1>5. CASE Mkfs(c)
  <2>1. CASE Format(c) /\ Goto(c, "mount")
    <3>1. disk'[v] = "empty"
      BY <1>1, <1>2, <2>1 DEF Format, StagePC
    <3> QED BY <2>1, <3>1, <1>c DEF Requests, StagePC
  <2> QED BY <1>5, <2>1, <1>a DEF Mkfs, Refused
<1>6. CASE Publish(c) \/ BindStaging(c) \/ FindDevice(c) \/ BindDevice(c)
  BY <1>6, <1>a, <1>b, <1>c, <1>d
     DEF Publish, BindStaging, FindDevice, BindDevice, Refused, Requests, PublishPC
<1>7. CASE CheckMount(c) \/ Umount(c) \/ Recheck(c) \/ Remove(c)
  <2>1. call[c].pc \in CleanupPC
    BY <1>7 DEF CheckMount, Umount, Recheck, Remove, At
  <2>2. CASE /\ UNCHANGED <<staging, target>> /\ Cleaned(c)
             /\ ~Exists(c, Place(c)) \/ ~Covered(c)
    <3>1. CASE call[c].pc = "unpublish"
      <4>1. target[n][v] = <<>> /\ Answer(c, "unstaging")
        BY <1>1, <2>2, <3>1 DEF Exists, Place, Covered, UsedInv, Cleaned
      <4> QED BY <2>2, <4>1, <1>b
    <3>2. CASE call[c].pc = "unstage"
      <4>1. target[n][v] = <<>> /\ staging[n][v] = None /\ Answer(c, "idle")
        BY <1>1, <2>2, <3>2 DEF Exists, Place, Covered, UsedInv, Cleaned
      <4> QED BY <2>2, <4>1, <1>b
    <3> QED BY <2>1, <3>1, <3>2 DEF CleanupPC
  <2>3. CASE \E step \in Cleanup : Continue(c, step)
    BY <1>d, <2>1, <2>3 DEF CleanupPC
  <2> QED BY <1>7, <1>a, <2>2, <2>3
          DEF CheckMount, Umount, Recheck, Remove, Refused, Cleanup, CanRemove, Delete, RemovePath
<1>8. CASE Fails(c)
  BY <1>8, <1>a DEF Fails
<1> QED BY HandlerCases, <1>3, <1>4, <1>5, <1>6, <1>7, <1>8

LEMMA HandlerUse ==
    ASSUME StorageInv, PodInv', NEW c \in Calls, HandlerStep(c)
    PROVE  StorageInv'
<1>0. call[c].pc # "idle" /\ PodInv /\ NodeChange(c)
  BY HandlerCalls, HandlerNode DEF StorageInv, PodInv
<1>1. PICK n \in Nodes, v \in Volumes : n = call[c].node /\ v = call[c].volume
  BY <1>0, UseFacts
<1>2. Sound(n, v) /\ Others(n, v) /\ Alone(n, v) /\ UsedInv(n, v)
  BY <1>0, <1>1, ChangeUse, ChangeFacts, UseFacts
<1>3. /\ \A d \in Calls \ {c} : call'[d] = call[d]
      /\ FormattedInv(c)'
  BY <1>1, HandlerEnds DEF FormattedInv
<1>4. ASSUME NEW phase \in Phases, Answer(c, phase),
             phase \in {"idle", "staging", "unstaging"} => target'[n][v] = <<>>,
             phase = "idle" => staging'[n][v] = None
      PROVE  StorageInv'
  <2>1. /\ kubelet'[n][v] = phase
        /\ \A m \in Nodes, u \in Volumes : m # n \/ u # v => kubelet'[m][u] = kubelet[m][u]
    BY <1>0, <1>1, <1>4, AnswerFacts
  <2>2. Elsewhere(n, v) /\ UsedInv(n, v)'
    BY <1>2, <1>4, <2>1 DEF Elsewhere, UsedInv, Sound, Others, Alone
  <2> QED BY <1>3, <2>2, LocalUse
<1>5. CASE UNCHANGED kubelet
  <2>1. kubelet[n][v] # "idle"
    BY <1>0, <1>1, UseFacts DEF SlotInv, Awaited
  <2>2. Elsewhere(n, v) /\ UsedInv(n, v)'
    BY <1>2, <1>5, <2>1 DEF Elsewhere, UsedInv, Sound, Others, Alone
  <2> QED BY <1>3, <2>2, LocalUse
<1>6. \A phase \in {"publishing", "running", "unstaging", "idle"} : phase \in Phases
  BY DEF Phases
<1> QED BY <1>1, <1>4, <1>5, <1>6, HandlerEnds

LEMMA KubeletUse ==
    ASSUME StorageInv, PodInv', NEW c \in Calls, NEW n \in Nodes, NEW v \in Volumes,
           Kubelet(c, n, v)
    PROVE  StorageInv'
<1> USE DEF node, mounts, storage
<1>1. PICK pc \in {"stage", "publish", "unpublish", "unstage"} : Start(c, n, v, pc)
  BY DEF Kubelet, CallStage, CallPublish, CallUnpublish, CallUnstage
<1>2. TypeInv /\ UsedInv(n, v) /\ UNCHANGED <<disk, staging, target, dirs>>
  BY <1>1 DEF StorageInv, PodInv, Start
<1>3. call'[c].pc # "mount" /\ \A d \in Calls \ {c} : call'[d] = call[d]
  BY <1>1, <1>2 DEF Start, TypeInv, CallsOK, Idle
<1>4. /\ \A m \in Nodes, u \in Volumes : m # n \/ u # v => kubelet'[m][u] = kubelet[m][u]
      /\ kubelet'[n][v] # "idle"
      /\ kubelet'[n][v] \in {"staging", "unstaging"} => kubelet[n][v] \in {"idle", "staging", "unstaging"}
  BY <1>2 DEF Kubelet, CallStage, CallPublish, CallUnpublish, CallUnstage, TypeInv, KubeletOK
<1>5. FormattedInv(c)' /\ Elsewhere(n, v) /\ UsedInv(n, v)'
  BY <1>2, <1>3, <1>4 DEF FormattedInv, Elsewhere, UsedInv
<1> QED BY <1>3, <1>5, LocalUse

LEMMA StorageStep ==
    ASSUME ~Deadlines, MaxReboots = 0, StorageInv, [Next]_vars
    PROVE  StorageInv'
<1> USE DEF node, mounts, storage
<1>0. PodInv' /\ PodInv
  BY PodStep DEF StorageInv
<1>1. ASSUME NEW c \in Calls, HandlerStep(c)
      PROVE  StorageInv'
  BY <1>0, <1>1, HandlerUse
<1>2. ASSUME NEW c \in Calls, NEW n \in Nodes, NEW v \in Volumes, Kubelet(c, n, v)
      PROVE  StorageInv'
  BY <1>0, <1>2, KubeletUse
<1>3. ASSUME NEW n \in Nodes, NEW v \in Volumes, PodWrites(n, v)
      PROVE  StorageInv'
  <2>1. disk' = [disk EXCEPT ![v] = "data"] /\ UNCHANGED <<mounts, call, kubelet>>
    BY <1>0, <1>3, WritePods DEF PodWrites
  <2>2. \A u \in Volumes : disk[u] # "blank" => disk'[u] # "blank"
    BY <1>0, <2>1 DEF PodInv, TypeInv, StorageOK, DiskOK
  <2>3. Elsewhere(n, v) /\ UsedInv(n, v)'
    BY <2>1, <2>2 DEF Elsewhere, UsedInv, StorageInv
  <2> QED BY <1>0, <2>1, <2>3, LocalUse
<1>4. ASSUME NEW n \in Nodes, Reboot(n)
      PROVE  FALSE
  BY <1>0, <1>4 DEF Reboot, PodInv, TypeInv, RestOK
<1>5. ASSUME UNCHANGED <<disk, mounts, call, kubelet>>
      PROVE  StorageInv'
  BY <1>0, <1>5 DEF StorageInv, UsedInv, FormattedInv
<1> QED BY <1>1, <1>2, <1>3, <1>4, <1>5
        DEF Next, Nodewise, Environment, HandlerStep, DeadlineExpires, vars, Connects, Attach,
            Revoke, Disconnects, Lose

LEMMA StorageInit == Init => StorageInv
<1> SUFFICES ASSUME Init PROVE StorageInv
  OBVIOUS
<1>1. PodInv
  BY PodInit
<1> QED BY <1>1, IdleType DEF Init, StorageInv, UsedInv, FormattedInv

LEMMA StorageInvariant ==
    ASSUME ~Deadlines, MaxReboots = 0
    PROVE  Spec => []StorageInv
  BY StorageInit, StorageStep, PTL DEF Spec

\* A volume is mounted only where it is attached.
LEMMA MountedAttached ==
    ASSUME StorageInv, NEW n \in Nodes, NEW v \in Volumes, Mounted(n, v)
    PROVE  context[n][v] # None
<1>1. staging[n][v] # None \/ target[n][v] # <<>>
  <2>1. \A u \in Volumes : /\ staging[n][u] \in {u, None}
                            /\ \A i \in DOMAIN target[n][u] : target[n][u][i] = u
    BY DEF StorageInv, PodInv, MountInv
  <2>2. v # None
    BY ClusterAssumption
  <2>3. target[n][v] = <<>> => DOMAIN target[n][v] = {}
    OBVIOUS
  <2> QED BY <2>1, <2>2, <2>3 DEF Mounted
<1>2. kubelet[n][v] # "idle"
  BY <1>1 DEF StorageInv, UsedInv
<1> QED BY <1>2 DEF StorageInv, PodInv, MountInv

-----------------------------------------------------------------------------
(* The steps of the abstract storage *)

\* The nodes that use a volume: one at most.
LEMMA OneUser ==
    ASSUME StorageInv, NEW n \in Nodes, NEW v \in Volumes, kubelet[n][v] # "idle"
    PROVE  Users[v] = IF kubelet[n][v] = "running" THEN {n} ELSE {}
  BY OneKubelet DEF StorageInv, Users

\* What the kubelet of a node takes a volume for changes, and nothing else does.
LEMMA UsersChange ==
    ASSUME StorageInv, NEW n \in Nodes, NEW v \in Volumes, NEW phase \in Phases,
           kubelet[n][v] # "idle", UNCHANGED disk, kubelet'[n][v] = phase,
           \A m \in Nodes, u \in Volumes : m # n \/ u # v => kubelet'[m][u] = kubelet[m][u],
           phase = "running" => kubelet[n][v] = "running" \/ v \in Block \/ disk[v] # "blank"
    PROVE  [Storage!Next]_(Storage!vars)
<1>1. Users'[v] = IF phase = "running" THEN {n} ELSE {}
  <2>1. \A m \in Nodes \ {n} : kubelet'[m][v] # "running"
    BY OneKubelet DEF StorageInv
  <2> QED BY <2>1 DEF Users
<1>2. Users' = [Users EXCEPT ![v] = IF phase = "running" THEN {n} ELSE {}]
  <2>1. /\ Users \in [Volumes -> SUBSET Nodes] /\ Users' \in [Volumes -> SUBSET Nodes]
        /\ \A u \in Volumes \ {v} : Users'[u] = Users[u]
    BY DEF Users
  <2> QED BY <1>1, <2>1
<1>3. Users[v] = IF kubelet[n][v] = "running" THEN {n} ELSE {}
  BY OneUser
<1>4. CASE phase = "running" /\ kubelet[n][v] # "running"
  <2>1. Storage!Start(v, n)
    BY <1>2, <1>3, <1>4 DEF Storage!Start
  <2> QED BY <2>1 DEF Storage!Next
<1>5. CASE phase # "running" /\ kubelet[n][v] = "running"
  <2>1. Storage!Stop(v)
    BY <1>2, <1>3, <1>5 DEF Storage!Stop
  <2> QED BY <2>1 DEF Storage!Next
<1>6. CASE (phase = "running") <=> (kubelet[n][v] = "running")
  <2>1. Users' = Users
    BY <1>2, <1>3, <1>6 DEF Users
  <2> QED BY <2>1 DEF Storage!vars
<1> QED BY <1>4, <1>5, <1>6

LEMMA HandlerStores ==
    ASSUME StorageInv, NEW c \in Calls, HandlerStep(c)
    PROVE  [Storage!Next]_(Storage!vars)
<1> USE DEF node, mounts, storage
<1>0. call[c].pc # "idle"
  BY HandlerCalls DEF StorageInv, PodInv
<1>1. PICK n \in Nodes, v \in Volumes : n = call[c].node /\ v = call[c].volume
  BY <1>0, UseFacts
<1>2. /\ PodInv /\ TypeInv /\ SlotInv(c) /\ MountInv(n, v) /\ UsedInv(n, v)
      /\ call[c].pc \in StagePC => Behind(c) = v /\ kubelet[n][v] = "staging"
      /\ call[c].pc \in PublishPC => kubelet[n][v] = "publishing"
      /\ kubelet[n][v] # "idle"
  BY <1>0, <1>1, UseFacts DEF SlotInv, Awaited
<1>3. ASSUME UNCHANGED <<disk, kubelet>>
      PROVE  [Storage!Next]_(Storage!vars)
  BY <1>3 DEF Storage!vars, Users
<1>4. CASE Format(c)
  <2>1. UNCHANGED kubelet /\ disk' = [disk EXCEPT ![v] = "empty"]
    <3>1. Behind(c) = v /\ call[c].pc = "mkfs"
      BY <1>2, <1>4 DEF Format, StagePC
    <3>2. HandlerStep(c) => Goto(c, "mount") \/ Fail(c)
      BY <3>1, HandlerCases
         DEF Stage, Probe, Mkfs, MountStaging, Resize, Publish, BindStaging, FindDevice, BindDevice,
             CheckMount, Umount, Recheck, Remove, At, CleanupPC, Fails, Refused
    <3> QED BY <1>0, <1>2, <1>4, <3>1, <3>2, FailFacts DEF Format, Goto
  <2>2. disk[v] = "blank" /\ v \notin Block /\ kubelet[n][v] = "staging"
    BY <1>1, <1>2, <1>4 DEF Format, SlotInv, StagePC
  <2>3. Users[v] = {} /\ Users' = Users
    BY <2>1, <2>2, OneUser DEF Users
  <2>4. Storage!Format(v)
    BY <2>1, <2>2, <2>3 DEF Storage!Format
  <2> QED BY <2>4 DEF Storage!Next
<1>5. CASE UNCHANGED disk /\ ~UNCHANGED kubelet
  <2>1. PICK phase \in Phases : Answer(c, phase) /\ (phase = "running" => call[c].pc \in PublishPC)
    BY <1>1, <1>5, HandlerEnds DEF Phases
  <2>2. /\ kubelet'[n][v] = phase
        /\ \A m \in Nodes, u \in Volumes : m # n \/ u # v => kubelet'[m][u] = kubelet[m][u]
    BY <1>0, <1>1, <1>2, <2>1, AnswerFacts
  <2>3. phase = "running" => v \in Block \/ disk[v] # "blank"
    BY <1>2, <2>1, ClusterAssumption DEF MountInv, UsedInv
  <2> QED BY <1>2, <1>5, <2>2, <2>3, UsersChange
<1>6. UNCHANGED disk \/ Format(c)
  BY HandlerNode
     DEF NodeChange, Command, Make, MountVolume, Grow, BindDir, BindBlock, Bind, DropFile,
         RemovePath, TakeOff, Delete
<1> QED BY <1>3, <1>4, <1>5, <1>6

LEMMA KubeletStores ==
    ASSUME StorageInv, NEW c \in Calls, NEW n \in Nodes, NEW v \in Volumes, Kubelet(c, n, v)
    PROVE  [Storage!Next]_(Storage!vars)
<1>1. PICK pc : Start(c, n, v, pc)
  BY DEF Kubelet, CallStage, CallPublish, CallUnpublish, CallUnstage
<1>2. UNCHANGED disk /\ kubelet \in [Nodes -> [Volumes -> Phases]]
  BY <1>1 DEF Start, node, storage, StorageInv, PodInv, TypeInv, KubeletOK
<1>3. /\ \A m \in Nodes, u \in Volumes : m # n \/ u # v => kubelet'[m][u] = kubelet[m][u]
      /\ kubelet'[n][v] # "running"
  BY <1>2 DEF Kubelet, CallStage, CallPublish, CallUnpublish, CallUnstage
<1>4. CASE kubelet[n][v] = "idle"
  <2>1. Users' = Users
    BY <1>3, <1>4 DEF Users
  <2> QED BY <1>2, <2>1 DEF Storage!vars
<1>5. CASE kubelet[n][v] # "idle"
  <2>1. PICK phase \in Phases : phase = kubelet'[n][v]
    BY <1>2 DEF Kubelet, CallStage, CallPublish, CallUnpublish, CallUnstage, Phases
  <2> QED BY <1>2, <1>3, <1>5, <2>1, UsersChange
<1> QED BY <1>4, <1>5

LEMMA Stores ==
    ASSUME ~Deadlines, MaxReboots = 0, StorageInv, [Next]_vars
    PROVE  [Storage!Next]_(Storage!vars)
<1>1. ASSUME UNCHANGED <<disk, kubelet>>
      PROVE  [Storage!Next]_(Storage!vars)
  BY <1>1 DEF Storage!vars, Users
<1>2. ASSUME NEW n \in Nodes, NEW v \in Volumes, PodWrites(n, v)
      PROVE  [Storage!Next]_(Storage!vars)
  <2>1. disk' = [disk EXCEPT ![v] = "data"] /\ UNCHANGED kubelet /\ kubelet[n][v] = "running"
    BY <1>2, WritePods DEF PodWrites, StorageInv
  <2>2. Users[v] # {} /\ Users' = Users
    BY <2>1 DEF Users
  <2>3. Storage!Write(v)
    BY <2>1, <2>2 DEF Storage!Write
  <2> QED BY <2>3 DEF Storage!Next
<1>3. ASSUME NEW n \in Nodes, Reboot(n)
      PROVE  FALSE
  BY <1>3 DEF Reboot, StorageInv, PodInv, TypeInv, RestOK
<1> QED BY <1>1, <1>2, <1>3, HandlerStores, KubeletStores
        DEF Next, Nodewise, Environment, HandlerStep, DeadlineExpires, vars, Connects, Attach,
            Revoke, Disconnects, Lose, node, storage

LEMMA StoresInit == Init => Storage!Init
  BY DEF Init, Storage!Init, Users

\* On any number of nodes the node plugins and the kubelets do with a volume what
\* PodStorage allows: pods on different nodes never use it at the same time, it is
\* formatted before its first use and never again, and only its pod writes to it.
THEOREM ImplementsStorageCorrect ==
    ASSUME ~Deadlines, MaxReboots = 0
    PROVE  Spec => Storage!Spec
  BY StorageInvariant, Stores, StoresInit, PTL DEF Spec, Storage!Spec

=============================================================================
