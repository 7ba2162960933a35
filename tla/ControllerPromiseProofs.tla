---------------------- MODULE ControllerPromiseProofs ----------------------
(* What the controller promises when the sidecars wait for their calls.      *)
(*                                                                           *)
(* Attaching and detaching implement ExclusiveVolume: every step is a step   *)
(* of the abstract volume, or leaves it alone.                               *)
(*                                                                           *)
(* The device path that ControllerPublishVolume answers with is one of the   *)
(* volume, if a publication that fails is rolled back: nothing fails behind  *)
(* which AttachVolume does not clean up, and the plugin does not exit.       *)
EXTENDS ControllerDetachProofs

-----------------------------------------------------------------------------
(* One server at most: the abstract volume *)

\* The nodes that have a device of a volume.
Connected(v) == {n \in Nodes : Mapped(n, v) # {}}

Granted(v) == pv[v].phase = "attached"

\* What the abstract specification sees of a volume.
SameView(v) ==
    /\ Holder(v)' = Holder(v) /\ Connected(v)' = Connected(v) /\ Granted(v)' = Granted(v)

\* A step of the abstract volume, on the mapped state.
AbstractStep(v) ==
    \/ SameView(v)
    \/ /\ Holder(v) = None /\ Holder(v)' \in Nodes
       /\ Connected(v)' = Connected(v) /\ Granted(v)' = Granted(v)
    \/ /\ Holder(v) # None /\ Connected(v)' = {Holder(v)}
       /\ Holder(v)' = Holder(v) /\ Granted(v)' = Granted(v)
    \/ /\ Connected(v) # {} /\ Granted(v)'
       /\ Holder(v)' = Holder(v) /\ Connected(v)' = Connected(v)
    \/ /\ ~Granted(v)'
       /\ Holder(v)' = Holder(v) /\ Connected(v)' = Connected(v)
    \/ /\ ~Granted(v) /\ Connected(v)' = {}
       /\ Holder(v)' = Holder(v) /\ Granted(v)' = Granted(v)
    \/ /\ Connected(v) = {} /\ Holder(v)' = None
       /\ Connected(v)' = Connected(v) /\ Granted(v)' = Granted(v)

\* A step of one volume that the other volumes do not see is an abstract step.
LEMMA OneVolume ==
    ASSUME NEW v \in Volumes, AbstractStep(v), \A u \in Volumes \ {v} : SameView(u)
    PROVE  [Exclusive!Next]_(Exclusive!vars)
<1> DEFINE h == [u \in Volumes |-> Holder(u)]
           d == [u \in Volumes |-> Connected(u)]
           g == [u \in Volumes |-> Granted(u)]
<1>1. /\ h' = [h EXCEPT ![v] = Holder(v)'] /\ d' = [d EXCEPT ![v] = Connected(v)']
      /\ g' = [g EXCEPT ![v] = Granted(v)']
  BY DEF SameView
<1>2. h[v] = Holder(v) /\ d[v] = Connected(v) /\ g[v] = Granted(v)
  OBVIOUS
<1>3. /\ Holder(v)' = Holder(v) => h' = h
      /\ Connected(v)' = Connected(v) => d' = d
      /\ Granted(v)' = Granted(v) => g' = g
  BY <1>1, <1>2
<1>4. CASE SameView(v)
  BY <1>3, <1>4 DEF SameView, Exclusive!vars, Connected, Granted
<1>5. CASE /\ Holder(v) = None /\ Holder(v)' \in Nodes
            /\ Connected(v)' = Connected(v) /\ Granted(v)' = Granted(v)
  <2>1. Exclusive!Acquire(v, Holder(v)')
    BY <1>1, <1>2, <1>3, <1>5 DEF Exclusive!Acquire, Connected, Granted
  <2> QED BY <1>5, <2>1 DEF Exclusive!Next
<1>6. CASE /\ Holder(v) # None /\ Connected(v)' = {Holder(v)}
            /\ Holder(v)' = Holder(v) /\ Granted(v)' = Granted(v)
  <2>1. Exclusive!Connect(v)
    BY <1>1, <1>2, <1>3, <1>6 DEF Exclusive!Connect, Connected, Granted
  <2> QED BY <1>6, <2>1 DEF Exclusive!Next
<1>7. CASE /\ Connected(v) # {} /\ Granted(v)'
            /\ Holder(v)' = Holder(v) /\ Connected(v)' = Connected(v)
  <2>1. Exclusive!Grant(v)
    BY <1>1, <1>2, <1>3, <1>7 DEF Exclusive!Grant, Connected, Granted
  <2> QED BY <1>7, <2>1 DEF Exclusive!Next
<1>8. CASE /\ ~Granted(v)'
            /\ Holder(v)' = Holder(v) /\ Connected(v)' = Connected(v)
  <2>1. Exclusive!Revoke(v)
    BY <1>1, <1>2, <1>3, <1>8 DEF Exclusive!Revoke, Connected, Granted
  <2> QED BY <1>8, <2>1 DEF Exclusive!Next
<1>9. CASE /\ ~Granted(v) /\ Connected(v)' = {}
            /\ Holder(v)' = Holder(v) /\ Granted(v)' = Granted(v)
  <2>1. Exclusive!Disconnect(v)
    BY <1>1, <1>2, <1>3, <1>9 DEF Exclusive!Disconnect, Connected, Granted
  <2> QED BY <1>9, <2>1 DEF Exclusive!Next
<1>10. CASE /\ Connected(v) = {} /\ Holder(v)' = None
             /\ Connected(v)' = Connected(v) /\ Granted(v)' = Granted(v)
  <2>1. Exclusive!Free(v)
    BY <1>1, <1>2, <1>3, <1>10 DEF Exclusive!Free, Connected, Granted
  <2> QED BY <1>10, <2>1 DEF Exclusive!Next
<1> QED BY <1>4, <1>5, <1>6, <1>7, <1>8, <1>9, <1>10 DEF AbstractStep

-----------------------------------------------------------------------------
(* The mapping *)

LEMMA HolderIs ==
    ASSUME SingleNodeAttached, NEW v \in Volumes, NEW a \in Held(v)
    PROVE  Holder(v) = attachment[a].node
  BY DEF SingleNodeAttached, Holder

LEMMA NextHolderIs ==
    ASSUME SingleNodeAttached', NEW v \in Volumes, NEW a \in Held(v)'
    PROVE  Holder(v)' = attachment'[a].node
<1>1. \A b, d \in Held(v)' : attachment'[b].node = attachment'[d].node
  BY DEF SingleNodeAttached
<1> QED BY <1>1 DEF Holder

\* As long as an attachment stays, the holder stays.
LEMMA SameHolder ==
    ASSUME SingleNodeAttached, SingleNodeAttached', NEW v \in Volumes,
           \/ Held(v) = {} /\ Held(v)' = {}
           \/ \E a \in Held(v) : a \in Held(v)' /\ attachment'[a].node = attachment[a].node
    PROVE  Holder(v)' = Holder(v)
<1>1. CASE Held(v) = {} /\ Held(v)' = {}
  BY <1>1 DEF Holder
<1>2. CASE \E a \in Held(v) : a \in Held(v)' /\ attachment'[a].node = attachment[a].node
  BY <1>2, HolderIs, NextHolderIs
<1> QED BY <1>1, <1>2

LEMMA SameHeldHolder ==
    ASSUME SingleNodeAttached, SingleNodeAttached', NEW v \in Volumes, SameHeld(v)
    PROVE  Holder(v)' = Holder(v)
  BY SameHolder DEF SameHeld

\* The node that has a device of a volume is its holder.
LEMMA ConnectedHolder ==
    ASSUME IsFiniteSet(Attachments), IsFiniteSet(Paths), DetachInv, NEW v \in Volumes
    PROVE  Connected(v) \subseteq {Holder(v)}
<1>1. ASSUME NEW n \in Nodes, Mapped(n, v) # {}
      PROVE  n = Holder(v)
  <2>1. PICK a \in Held(v) : attachment[a].node = n
    BY <1>1, DeviceFacts
  <2> QED BY <2>1, HolderIs DEF DetachInv, SingleNodeInv
<1> QED BY <1>1 DEF Connected

\* A volume whose attachments and devices stay may be granted only if it has a
\* device.
LEMMA SameServices ==
    ASSUME DetachInv, DetachInv', NEW v \in Volumes, SameHeld(v), SameDevices(v)
    PROVE  AbstractStep(v)
<1>1. Holder(v)' = Holder(v) /\ Connected(v)' = Connected(v)
  BY SameHeldHolder DEF DetachInv, SingleNodeInv, SameDevices, Connected
<1>2. ASSUME pv'[v].phase = "attached"
      PROVE  Connected(v)' # {}
  <2>1. PICK n \in Nodes : n = pv'[v].node
    BY <1>2 DEF DetachInv, TypeOK, Views
  <2>2. Mapped(n, v)' # {}
    BY <1>2, <2>1 DEF DetachInv, ViewInv
  <2> QED BY <2>2 DEF Connected
<1> QED BY <1>1, <1>2 DEF AbstractStep, Granted

LEMMA OtherViews ==
    ASSUME DetachInv, DetachInv', NEW v \in Volumes, Others(v),
           \A u \in Volumes \ {v} : pv'[u] = pv[u]
    PROVE  \A u \in Volumes \ {v} : SameView(u)
<1> SUFFICES ASSUME NEW u \in Volumes \ {v}
             PROVE  SameView(u)
  OBVIOUS
<1>1. SameHeld(u) /\ SameDevices(u)
  BY DEF Others, SameHeld, SameDevices
<1> QED BY <1>1, SameHeldHolder
        DEF DetachInv, SingleNodeInv, SameDevices, SameView, Connected, Granted

-----------------------------------------------------------------------------
(* The steps of a handler *)

LEMMA HandlerSteps ==
    ASSUME IsFiniteSet(Attachments), IsFiniteSet(Paths), DetachInv, DetachInv',
           NEW c \in Calls, HandlerStep(c)
    PROVE  [Exclusive!Next]_(Exclusive!vars)
<1>0. call[c].pc # "idle" /\ CinderRequest(c) /\ BridgeRequest(c)
  BY HandlerRequests
<1>1. PICK v \in Volumes : v = call[c].volume
  BY <1>0, HandlerFacts
<1>2. PICK n : n = call[c].node
  OBVIOUS
<1>3. /\ SlotInv(c) /\ ServiceInv(v) /\ pv[v].phase # "attached" /\ ~Granted(v)
      /\ call[c].pc \in PublishPC \cup UnpublishPC => n \in Nodes
      /\ CinderTypeOK /\ BridgeTypeOK /\ FreeUnheld /\ call[c].server \in Servers \cup {None}
  BY <1>0, <1>1, <1>2, HandlerFacts
     DEF Granted, DetachInv, TypeOK, SingleNodeInv, CallFields
<1>4. SingleNodeAttached /\ SingleNodeAttached'
  BY DEF DetachInv, SingleNodeInv
<1>5. ASSUME ~UNCHANGED <<status, attachment, device>>
      PROVE  Granted(v)' = Granted(v)
  BY <1>1, <1>3, <1>5, GrantReads DEF Granted
<1>6. SUFFICES AbstractStep(v) /\ Others(v)
  BY <1>1, OneVolume, OtherViews, OwnView
<1>7. CASE UNCHANGED <<attachment, device>> /\ (UNCHANGED status \/ BeginDetaching(v) \/ DeleteVolume(v))
  BY <1>3, <1>7, StatusEffect, SameServices
<1>8. ASSUME NEW a \in Attachments, call[c].pc = "createAttachment", UNCHANGED device,
             CreateAttachment(a, v, n, call[c].server)
      PROVE  AbstractStep(v) /\ Others(v)
  <2>1. PICK s \in Servers \cup {None} : s = call[c].server
    BY <1>3
  <2>2. n \in Nodes /\ CreateAttachment(a, v, n, s)
    BY <1>3, <1>8, <2>1 DEF PublishPC
  <2>3. /\ Others(v) /\ SameDevices(v) /\ a \in Held(v)' /\ attachment'[a].node = n
        /\ Held(v)' = Held(v) \cup {a} /\ \A b \in Held(v) : attachment'[b] = attachment[b]
    BY <1>3, <1>8, <2>2, CreateEffect
  <2>4. Connected(v)' = Connected(v)
    BY <2>3 DEF SameDevices, Connected
  <2>5. status'[v] = "attaching" /\ status[v] \in Statuses
    BY <1>3, <2>2 DEF CreateAttachment, CinderTypeOK
  <2>6. Granted(v)' = Granted(v)
    <3>1. ~Granted(v)'
      BY <2>5 DEF DetachInv, ViewInv, Granted
    <3> QED BY <1>3, <3>1 DEF Granted
  <2>7. CASE Held(v) = {}
    <3>1. Holder(v) = None /\ Holder(v)' = n
      BY <1>4, <2>3, <2>7, NextHolderIs DEF Holder
    <3> QED BY <2>2, <2>3, <2>4, <2>6, <3>1 DEF AbstractStep
  <2>8. CASE Held(v) # {}
    <3>1. Holder(v)' = Holder(v)
      BY <1>4, <2>3, <2>8, SameHolder
    <3> QED BY <2>3, <2>4, <2>6, <3>1 DEF AbstractStep, SameView
  <2> QED BY <2>7, <2>8
<1>9. ASSUME UNCHANGED device, \/ UpdateAttachment(call[c].att, v, call[c].path)
                               \/ CompleteAttachment(call[c].att, v)
      PROVE  AbstractStep(v) /\ Others(v)
  <2>1. call[c].att \in Attachments
    BY <1>9 DEF UpdateAttachment, CompleteAttachment, Held
  <2> QED BY <1>3, <1>9, <2>1, UpdateEffect, CompleteEffect, SameServices
<1>10. ASSUME call[c].pc = "connect", NEW p \in Paths, Connect(n, v, p),
              UNCHANGED <<status, attachment>>
       PROVE  AbstractStep(v) /\ Others(v)
  <2>1. n \in Nodes /\ Spare(n, v) /\ Own(c)
    BY <1>1, <1>2, <1>3, <1>10 DEF SlotInv, PublishPC
  <2>2. /\ Others(v) /\ SameHeld(v) /\ Mapped(n, v)' # {}
        /\ \A m \in Nodes \ {n} : Mapped(m, v)' = Mapped(m, v)
    BY <1>3, <1>10, <2>1, ConnectEffect
  <2>3. Holder(v) = n /\ Holder(v)' = n /\ n # None
    BY <1>1, <1>2, <1>4, <2>1, <2>2, HolderIs, SameHeldHolder, ClusterAssumption DEF Own
  <2>4. Connected(v)' = {n}
    <3>1. Connected(v) \subseteq {n}
      BY <2>3, ConnectedHolder
    <3> QED BY <2>1, <2>2, <3>1 DEF Connected
  <2>5. CASE UNCHANGED device
    BY <1>3, <1>10, <2>5, StatusEffect, SameServices
  <2>6. CASE ~UNCHANGED device
    BY <1>5, <2>2, <2>3, <2>4, <2>6 DEF AbstractStep
  <2> QED BY <2>5, <2>6
<1>11. ASSUME call[c].pc \in {"undoConnect", "disconnect"}, Disconnect(n, v),
              UNCHANGED <<status, attachment>>
       PROVE  AbstractStep(v) /\ Others(v)
  <2>1. n \in Nodes /\ HeldOn(n, v) # {}
    BY <1>1, <1>2, <1>3, <1>11 DEF SlotInv, Own, HeldOn, PublishPC, UnpublishPC
  <2>2. /\ Others(v) /\ SameHeld(v) /\ \A m \in Nodes : Mapped(m, v)' \subseteq Mapped(m, v)
    BY <1>3, <1>11, <2>1, DisconnectEffect
  <2>3. Holder(v)' = Holder(v)
    BY <1>4, <2>2, SameHeldHolder
  <2>4. Connected(v)' = {} \/ Connected(v)' = Connected(v)
    <3>1. Connected(v) \subseteq {Holder(v)}
      BY ConnectedHolder
    <3>2. Connected(v)' \subseteq Connected(v)
      BY <2>2 DEF Connected
    <3> QED BY <3>1, <3>2
  <2>5. CASE UNCHANGED device
    BY <1>3, <1>11, <2>5, StatusEffect, SameServices
  <2>6. CASE ~UNCHANGED device
    BY <1>3, <1>5, <2>2, <2>3, <2>4, <2>6 DEF AbstractStep, SameView
  <2> QED BY <2>5, <2>6
<1>12. ASSUME call[c].pc \in {"undoCreate", "release"}, UNCHANGED device,
              ReleaseAttachment(call[c].att, v)
       PROVE  AbstractStep(v) /\ Others(v)
  <2>1. n \in Nodes /\ Own(c) /\ Spare(n, v) /\ call[c].att \in Attachments
    BY <1>1, <1>2, <1>3, <1>12 DEF SlotInv, Own, Held, PublishPC, UnpublishPC
  <2>2. /\ Others(v) /\ SameDevices(v) /\ Held(v)' = Held(v) \ {call[c].att}
        /\ \A b \in Held(v) \ {call[c].att} : attachment'[b] = attachment[b]
    BY <1>2, <1>3, <1>12, <2>1, ReleaseEffect DEF Own
  <2>3. Connected(v)' = Connected(v)
    BY <2>2 DEF SameDevices, Connected
  <2>4. ~UNCHANGED attachment
    BY <1>1, <2>1, <2>2 DEF Own, Held
  <2>5. CASE Held(v)' = {}
    <3>1. \A m \in Nodes : Mapped(m, v) = {}
      <4> SUFFICES ASSUME NEW m \in Nodes, Mapped(m, v) # {}
                   PROVE  FALSE
        OBVIOUS
      <4>1. Cardinality(Mapped(m, v)) # 0 /\ Cardinality(Mapped(m, v))' = Cardinality(Mapped(m, v))
        BY <2>2, Finite, FS_EmptySet DEF SameDevices
      <4>2. HeldOn(m, v)' = {}
        BY <2>5 DEF HeldOn
      <4>3. Cardinality(Mapped(m, v))' <= Cardinality(HeldOn(m, v))'
        BY DEF DetachInv, ServiceInv, Covered
      <4> QED BY <4>1, <4>2, <4>3, Finite, FS_EmptySet
    <3>2. Connected(v) = {} /\ Holder(v)' = None
      BY <2>5, <3>1 DEF Connected, Holder
    <3> QED BY <1>5, <2>2, <2>3, <2>4, <3>2 DEF AbstractStep
  <2>6. CASE Held(v)' # {}
    <3>1. Holder(v)' = Holder(v)
      BY <1>4, <2>2, <2>6, SameHolder
    <3> QED BY <1>5, <2>2, <2>3, <2>4, <3>1 DEF AbstractStep, SameView
  <2> QED BY <2>5, <2>6
<1> QED BY <1>0, <1>1, <1>2, <1>7, <1>8, <1>9, <1>10, <1>11, <1>12
        DEF CinderRequest, BridgeRequest, BeginDetaching, DeleteVolume

-----------------------------------------------------------------------------
(* The other steps *)

\* The sidecars change what they think of one volume, and grant it nothing.
LEMMA ViewChanges ==
    ASSUME DetachInv, DetachInv', NEW v \in Volumes, UNCHANGED <<status, attachment, device>>,
           \A u \in Volumes \ {v} : pv'[u] = pv[u]
    PROVE  [Exclusive!Next]_(Exclusive!vars)
<1>1. /\ Others(v) /\ SameHeld(v) /\ SameDevices(v)
  BY DEF Others, SameHeld, SameDevices, Held, Mapped
<1> QED BY <1>1, SameServices, OtherViews, OneVolume

LEMMA ExclusiveStep ==
    ASSUME ~Deadlines, IsFiniteSet(Attachments), IsFiniteSet(Paths),
           DetachInv, DetachInv', [Next]_vars
    PROVE  [Exclusive!Next]_(Exclusive!vars)
<1>1. ASSUME NEW c \in Calls, HandlerStep(c)
      PROVE  [Exclusive!Next]_(Exclusive!vars)
  BY <1>1, HandlerSteps
<1>2. ASSUME NEW c \in Calls, NEW v \in Volumes,
             (\E n \in Nodes : CallPublish(c, v, n)) \/ CallUnpublish(c, v) \/ CallDelete(c, v)
      PROVE  [Exclusive!Next]_(Exclusive!vars)
  <2>1. UNCHANGED <<status, attachment, device>> /\ \A u \in Volumes \ {v} : pv'[u] = pv[u]
    BY <1>2 DEF DetachInv, TypeOK, CallPublish, CallUnpublish, CallDelete, Start, backend
  <2> QED BY <2>1, ViewChanges
<1>3. ASSUME NEW v \in Volumes, CinderWorks(v)
      PROVE  [Exclusive!Next]_(Exclusive!vars)
  <2>1. /\ CinderTypeOK /\ ServiceInv(v) /\ UNCHANGED <<attachment, device, pv>>
        /\ FinishCreation(v) \/ FinishDeletion(v)
    BY <1>3 DEF DetachInv, TypeOK, CinderWorks, FinishCreation, FinishDeletion
  <2>2. Others(v) /\ SameHeld(v) /\ SameDevices(v)
    BY <2>1, StatusEffect
  <2> QED BY <2>1, <2>2, SameServices, OtherViews, OneVolume
<1>4. CASE LookupByName \/ Restart \/ UNCHANGED vars
  <2>1. UNCHANGED <<status, attachment, device, pv>>
    BY <1>4 DEF LookupByName, Restart, vars, backend
  <2>2. CASE Volumes = {}
    BY <2>2 DEF Exclusive!vars
  <2>3. CASE Volumes # {}
    BY <2>1, <2>3, ViewChanges
  <2> QED BY <2>2, <2>3
<1> QED BY <1>1, <1>2, <1>3, <1>4 DEF Next, HandlerStep, DeadlineExpires

LEMMA ExclusiveInit ==
    ASSUME Init
    PROVE  Exclusive!Init
<1>1. ASSUME NEW v \in Volumes
      PROVE  Holder(v) = None /\ Connected(v) = {} /\ Granted(v) = FALSE
  <2>1. Held(v) = {}
    BY ClusterAssumption DEF Init, CinderInit, NoAttachment, Held
  <2>2. \A n \in Nodes : Mapped(n, v) = {}
    BY ClusterAssumption DEF Init, BridgeInit, Mapped
  <2>3. pv[v].phase # "attached"
    BY DEF Init, Detached
  <2> QED BY <2>1, <2>2, <2>3 DEF Holder, Connected, Granted
<1> QED BY <1>1 DEF Exclusive!Init, Connected, Granted

\* Attaching, detaching, deleting, failing and starting again implement the
\* abstract volume: it changes hands only after its holder was asked to let go,
\* its last device was disconnected and its last attachment was released.
THEOREM ImplementsExclusiveCorrect ==
    ASSUME ~Deadlines, IsFiniteSet(Attachments), IsFiniteSet(Paths)
    PROVE  Spec => ImplementsExclusive
<1>1. Init => Exclusive!Init
  BY ExclusiveInit
<1>2. DetachInv /\ DetachInv' /\ [Next]_vars => [Exclusive!Next]_(Exclusive!vars)
  BY ExclusiveStep
<1>3. Spec => Exclusive!Spec
  BY <1>1, <1>2, DetachInvariant, PTL DEF Spec, Exclusive!Spec
<1> QED BY <1>3 DEF ImplementsExclusive

-----------------------------------------------------------------------------
(* The path that is published *)

\* The requests whose failure leaves no attachment behind.
CleanedUp == {"getVolume", "connect", "update"}

\* Sidecars wait, no CreateVolume is beside (it would have Cinder refuse a Complete),
\* the process does not exit, and no other request fails.
RolledBack ==
    /\ ~Deadlines /\ ~Provisioning /\ MaxRestarts = 0 /\ Faulty \subseteq CleanedUp
    /\ IsFiniteSet(Attachments) /\ IsFiniteSet(Paths)

Busy(v) == \E c \in Calls : call[c].pc # "idle" /\ call[c].volume = v

\* A volume has one attachment at most, which knows its server and outlives the
\* call that made it only if this call succeeded.
VolumeInv(v) ==
    /\ \A a, b \in Held(v) : a = b
    /\ \A a \in Held(v) : attachment[a].server # None
    /\ Held(v) # {} => pv[v].phase = "attached" \/ Busy(v)
    /\ pv[v].phase = "attached" => pv[v].path \in Mapped(pv[v].node, v)

\* A handler starts from a volume without attachment, hands on the path that the
\* bridge has given it, and never disconnects in vain.
PathInv(c) ==
    LET n == call[c].node
        v == call[c].volume
        pc == call[c].pc
    IN  /\ pc \in {"getVolume", "createAttachment", "waitDetached"} \cup DeletePC => Held(v) = {}
        /\ pc = "createAttachment" => call[c].server # None
        /\ pc \in {"connect", "update", "complete"} => microversion = "3.54"
        /\ pc \in {"update", "complete"} => call[c].path \in Mapped(n, v)
        /\ pc = "complete" => attachment[call[c].att].path = call[c].path
        /\ pc \in {"waitAttached", "getPath"} =>
              /\ status[v] = "in-use" /\ Listed(v) # {}
              /\ \A a \in Held(v) : attachment[a].path \in Mapped(n, v)
        /\ pc = "beginDetaching" /\ Held(v) # {} => status[v] = "in-use" /\ Mapped(n, v) # {}
        /\ pc \in {"readAttachments", "getAttachment", "disconnect", "undoConnect"} =>
              Mapped(n, v) # {}

PublishInv ==
    /\ DetachInv
    /\ \A c \in Calls : PathInv(c)
    /\ \A v \in Volumes : VolumeInv(v)

-----------------------------------------------------------------------------
(* The frame of a step, and the ways in which a handler goes on *)

\* Nobody forgets the microversion.
Keeps354 == microversion = "3.54" => microversion' = "3.54"

\* A step of a call of volume v is nothing to the other calls and volumes.
LEMMA PathFrame ==
    ASSUME PublishInv, DetachInv', NEW c \in Calls, NEW v \in Volumes, Others(v), Keeps354,
           \A d \in Calls \ {c} : call[d].pc # "idle" => call[d].volume # v,
           call[c].pc # "idle" => call[c].volume = v,
           \A u \in Volumes \ {v} : pv'[u] = pv[u],
           \A d \in Calls \ {c} : call'[d] = call[d],
           PathInv(c)', VolumeInv(v)'
    PROVE  PublishInv'
<1>1. ASSUME NEW d \in Calls
      PROVE  PathInv(d)'
  <2>1. CASE d = c
    BY <2>1
  <2>2. CASE d # c /\ call[d].pc # "idle"
    <3>1. PICK u \in Volumes \ {v} : u = call[d].volume
      BY <2>2, HandlerFacts DEF PublishInv
    <3>2. PICK n : n = call[d].node
      OBVIOUS
    <3>3. call[d].pc \in PublishPC \cup UnpublishPC => n \in Nodes
      BY <2>2, <3>2, HandlerFacts DEF PublishInv
    <3>4. /\ status'[u] = status[u] /\ Held(u)' = Held(u) /\ Listed(u)' = Listed(u)
          /\ \A a \in Held(u) : attachment'[a] = attachment[a]
          /\ n \in Nodes => Mapped(n, u)' = Mapped(n, u)
      BY SameOthers DEF Others
    <3>5. call'[d] = call[d] /\ PathInv(d) /\ SlotInv(d)
      BY <2>2 DEF PublishInv, DetachInv
    <3>6. call[d].pc = "complete" => call[d].att \in Held(u)
      BY <3>1, <3>5 DEF SlotInv, Own
    <3> QED BY <3>1, <3>2, <3>3, <3>4, <3>5, <3>6
            DEF PathInv, PublishPC, UnpublishPC, Keeps354
  <2>3. CASE d # c /\ call[d].pc = "idle"
    <3>1. call'[d].pc = "idle"
      BY <2>3
    <3> QED BY <3>1 DEF PathInv, DeletePC
  <2> QED BY <2>1, <2>2, <2>3
<1>2. ASSUME NEW u \in Volumes
      PROVE  VolumeInv(u)'
  <2>1. CASE u = v
    BY <2>1
  <2>2. CASE u # v
    <3>1. /\ Held(u)' = Held(u) /\ pv'[u] = pv[u] /\ VolumeInv(u)
          /\ \A a \in Held(u) : attachment'[a] = attachment[a]
          /\ \A n \in Nodes : Mapped(n, u)' = Mapped(n, u)
      BY <2>2 DEF Others, PublishInv
    <3>2. Busy(u) => Busy(u)'
      BY <2>2 DEF Busy
    <3>3. pv[u].phase = "attached" => pv[u].node \in Nodes
      BY DEF PublishInv, DetachInv, TypeOK, Views
    <3> QED BY <3>1, <3>2, <3>3 DEF VolumeInv
  <2> QED BY <2>1, <2>2
<1> QED BY <1>1, <1>2 DEF PublishInv

\* A handler goes on.
LEMMA PathResumes ==
    ASSUME PublishInv, DetachInv', NEW c \in Calls, call[c].pc # "idle",
           NEW v \in Volumes, v = call[c].volume, Others(v), Keeps354,
           NEW pc, pc # "idle", Resumes(c, pc), PathInv(c)',
           (\A a, b \in Held(v) : a = b)', (\A a \in Held(v) : attachment[a].server # None)'
    PROVE  PublishInv'
<1>1. pv[v].phase # "attached" /\ pv' = pv
  BY HandlerFacts DEF PublishInv, Resumes
<1>2. Busy(v)'
  BY DEF Resumes, Busy
<1>3. VolumeInv(v)'
  BY <1>1, <1>2 DEF VolumeInv
<1>4. \A d \in Calls \ {c} : call[d].pc # "idle" => call[d].volume # v
  BY DEF PublishInv, DetachInv, OneHandler
<1> QED BY <1>1, <1>3, <1>4, PathFrame DEF Resumes

\* A handler returns and leaves no attachment behind.
LEMMA PathReturns ==
    ASSUME PublishInv, DetachInv', NEW c \in Calls, call[c].pc # "idle",
           NEW v \in Volumes, v = call[c].volume, Others(v), Keeps354, Held(v)' = {},
           Fail(c) \/ \E view \in {Detached, DeletedView} : Answer(c, view)
    PROVE  PublishInv'
<1>1. /\ call'[c] = Idle /\ pv'[v].phase # "attached"
      /\ \A d \in Calls \ {c} : call'[d] = call[d]
      /\ \A u \in Volumes \ {v} : pv'[u] = pv[u]
  <2>1. CASE Fail(c)
    BY <2>1, FailFacts, HandlerFacts DEF PublishInv
  <2>2. CASE \E view \in {Detached, DeletedView} : Answer(c, view)
    <3>1. PICK view \in {Detached, DeletedView} : Answer(c, view)
      BY <2>2
    <3>2. view.phase # "attached"
      BY DEF Detached, DeletedView
    <3> QED BY <3>1, <3>2, AnswerFacts DEF PublishInv
  <2> QED BY <2>1, <2>2
<1>2. VolumeInv(v)'
  BY <1>1 DEF VolumeInv
<1>3. PathInv(c)'
  BY <1>1, IdleType DEF PathInv, DeletePC
<1>4. \A d \in Calls \ {c} : call[d].pc # "idle" => call[d].volume # v
  BY DEF PublishInv, DetachInv, OneHandler
<1> QED BY <1>1, <1>2, <1>3, <1>4, PathFrame

-----------------------------------------------------------------------------
(* The steps of a publishing handler *)

\* What a handler may rely on.
LEMMA PathFacts ==
    ASSUME PublishInv, NEW c \in Calls, call[c].pc # "idle", NEW v, v = call[c].volume
    PROVE  /\ v \in Volumes /\ SlotInv(c) /\ PathInv(c) /\ ServiceInv(v) /\ ViewInv(v)
           /\ VolumeInv(v) /\ pv[v].phase # "attached"
           /\ CinderTypeOK /\ BridgeTypeOK /\ FreeUnheld /\ OwnServer
           /\ call \in [Calls -> CallRecord] /\ call[c] \in CallFields
           /\ call[c].pc \in PublishPC \cup UnpublishPC => call[c].node \in Nodes
  BY HandlerFacts DEF PublishInv, DetachInv, SingleNodeInv, TypeOK

\* The attachments that a handler sees are those of its own node.
LEMMA ListsOwn ==
    ASSUME PublishInv, NEW c \in Calls, call[c].pc \in PublishPC \cup UnpublishPC
    PROVE  OwnListed(c) = Listed(call[c].volume)
<1>0. call[c].pc # "idle"
  BY DEF PublishPC, UnpublishPC
<1>1. PICK v : v = call[c].volume
  OBVIOUS
<1>2. pv[v].node = call[c].node
  BY <1>0, <1>1, PathFacts DEF SlotInv
<1>3. ASSUME NEW a \in Listed(v)
      PROVE  attachment[a].server = EcsNode[call[c].node]
  <2>1. a \in Held(v) /\ a \in Attachments /\ attachment[a].volume # None
    BY <1>0, <1>1, PathFacts, ClusterAssumption DEF Listed, Held
  <2>2. attachment[a].server # None /\ attachment[a].node = call[c].node
    BY <1>0, <1>1, <1>2, <2>1, PathFacts DEF VolumeInv, ViewInv
  <2> QED BY <1>0, <1>1, <2>1, <2>2, PathFacts DEF OwnServer
<1> QED BY <1>1, <1>3 DEF OwnListed

LEMMA PublishReadsPath ==
    ASSUME RolledBack, PublishInv, DetachInv', NEW c \in Calls,
           GetVolume(c) \/ WaitAttached(c) \/ GetPath(c)
    PROVE  PublishInv'
<1> USE DEF backend
<1>0. /\ call[c].pc # "idle" /\ call[c].pc \in {"getVolume", "waitAttached", "getPath"}
      /\ UNCHANGED <<status, attachment, device, microversion>>
  BY DEF GetVolume, WaitAttached, GetPath
<1>1. PICK v \in Volumes, n \in Nodes : v = call[c].volume /\ n = call[c].node
  BY <1>0, PathFacts DEF PublishPC
<1>2. /\ PathInv(c) /\ VolumeInv(v) /\ FreeUnheld /\ pv[v].phase # "attached"
      /\ call \in [Calls -> CallRecord] /\ call[c] \in CallFields
  BY <1>0, <1>1, PathFacts
<1>3. Others(v) /\ SameHeld(v) /\ SameDevices(v) /\ Keeps354 /\ Listed(v)' = Listed(v)
  BY <1>0, <1>1, ReadStep DEF PublishInv, Keeps354
<1>4. /\ (\A a, b \in Held(v) : a = b)' /\ (\A a \in Held(v) : attachment[a].server # None)'
  BY <1>2, <1>3 DEF VolumeInv, SameHeld
<1>5. CASE GetVolume(c)
  <2>0. Held(v)' = {}
    BY <1>1, <1>2, <1>3, <1>5 DEF GetVolume, PathInv, SameHeld
  <2>1. CASE Fail(c)
    BY <1>0, <1>1, <1>3, <2>0, <2>1, PathReturns
  <2>2. CASE ~Fail(c)
    <3>1. /\ call' = [call EXCEPT ![c] =
                        [@ EXCEPT !.pc = "createAttachment", !.server = EcsNode[n]]]
          /\ UNCHANGED pv
      BY <1>1, <1>5, <2>2 DEF GetVolume, RolledBack, CleanedUp
    <3>2. Resumes(c, "createAttachment") /\ call'[c].server = EcsNode[n]
      BY <1>2, <3>1 DEF Resumes, CallFields
    <3>3. EcsNode[n] # None
      BY ControllerAssumption
    <3>4. PathInv(c)'
      BY <1>1, <2>0, <3>2, <3>3 DEF PathInv, Resumes, DeletePC
    <3> QED BY <1>0, <1>1, <1>3, <1>4, <3>2, <3>4, PathResumes
  <2> QED BY <2>1, <2>2
<1>6. CASE WaitAttached(c)
  <2>1. status[v] = "in-use" /\ Listed(v) # {} /\ OwnListed(c) = Listed(v)
    BY <1>1, <1>2, <1>6, ListsOwn DEF WaitAttached, PathInv, PublishPC
  <2>2. Goto(c, "getPath") /\ UNCHANGED pv
    BY <1>1, <1>6, <2>1 DEF WaitAttached, Deleted
  <2>3. Resumes(c, "getPath")
    BY <1>0, <2>2, GotoFacts DEF PublishInv
  <2>4. \A a \in Held(v) : attachment[a].path \in Mapped(n, v)
    BY <1>1, <1>2, <1>6 DEF WaitAttached, PathInv
  <2>5. PathInv(c)'
    BY <1>0, <1>1, <1>3, <2>1, <2>3, <2>4 DEF PathInv, Resumes, DeletePC, SameHeld, SameDevices
  <2> QED BY <1>0, <1>1, <1>3, <1>4, <2>3, <2>5, PathResumes
<1>7. CASE GetPath(c)
  <2>1. /\ status[v] = "in-use" /\ OwnListed(c) = Listed(v) /\ Listed(v) # {}
        /\ \A a \in Held(v) : attachment[a].path \in Mapped(n, v)
    BY <1>1, <1>2, <1>7, ListsOwn DEF GetPath, PathInv, PublishPC
  <2>2. PICK a \in Listed(v) :
           Answer(c, [phase |-> "attached", node |-> n, path |-> attachment[a].path])
    BY <1>1, <1>7, <2>1 DEF GetPath
  <2>3. /\ call'[c] = Idle /\ pv'[v] = [phase |-> "attached", node |-> n, path |-> attachment[a].path]
        /\ \A d \in Calls \ {c} : call'[d] = call[d]
        /\ \A u \in Volumes \ {v} : pv'[u] = pv[u]
    BY <1>0, <1>1, <2>2, AnswerFacts DEF PublishInv
  <2>4. attachment[a].path \in Mapped(n, v)'
    BY <1>3, <2>1 DEF Listed, SameDevices
  <2>5. VolumeInv(v)'
    BY <1>4, <2>3, <2>4 DEF VolumeInv
  <2>6. PathInv(c)'
    BY <2>3, IdleType DEF PathInv, DeletePC
  <2>7. \A d \in Calls \ {c} : call[d].pc # "idle" => call[d].volume # v
    BY <1>0, <1>1 DEF PublishInv, DetachInv, OneHandler
  <2> QED BY <1>1, <1>3, <2>3, <2>5, <2>6, <2>7, PathFrame
<1> QED BY <1>5, <1>6, <1>7

LEMMA PublishWritesPath ==
    ASSUME RolledBack, PublishInv, DetachInv', NEW c \in Calls,
           \/ Create(c) \/ ConnectVolume(c) \/ Update(c) \/ Complete(c)
           \/ UndoConnect(c) \/ UndoCreate(c)
    PROVE  PublishInv'
<1> USE DEF RolledBack
<1>0. call[c].pc # "idle" /\ call[c].pc \in PublishPC
  BY DEF Create, ConnectVolume, Update, Complete, UndoConnect, UndoCreate, PublishPC
<1>1. PICK v \in Volumes, n \in Nodes : v = call[c].volume /\ n = call[c].node
  BY <1>0, PathFacts
<1>2. /\ SlotInv(c) /\ PathInv(c) /\ ServiceInv(v) /\ VolumeInv(v) /\ FreeUnheld
      /\ CinderTypeOK /\ BridgeTypeOK
      /\ call \in [Calls -> CallRecord] /\ call[c] \in CallFields
  BY <1>0, <1>1, PathFacts
<1>3. Keeps354
  BY DEF Create, ConnectVolume, Update, Complete, UndoConnect, UndoCreate, Keeps354
<1>4. ASSUME SameHeld(v)
      PROVE  /\ (\A a, b \in Held(v) : a = b)'
             /\ (\A a \in Held(v) : attachment[a].server # None)'
  BY <1>2, <1>4 DEF VolumeInv, SameHeld
<1>5. ASSUME Own(c)
      PROVE  call[c].att \in Held(v) /\ call[c].att \in Attachments /\ HeldOn(n, v) # {}
  BY <1>1, <1>5 DEF Own, Held, HeldOn
<1>6. CASE Create(c)
  <2>1. PICK a \in Attachments :
           /\ CreateAttachment(a, v, n, call[c].server)
           /\ call' = [call EXCEPT ![c] = [@ EXCEPT !.pc = "connect", !.att = a]]
    BY <1>1, <1>6 DEF Create
  <2>2. Resumes(c, "connect")
    BY <1>2, <1>6, <2>1 DEF Resumes, CallFields, Create
  <2>3. PICK s \in Servers \cup {None} : s = call[c].server
    BY <1>2 DEF CallFields
  <2>4. Others(v) /\ Held(v)' = Held(v) \cup {a}
    BY <1>2, <1>6, <2>1, <2>3, CreateEffect DEF Create
  <2>5. Held(v) = {} /\ s # None /\ microversion' = "3.54"
    BY <1>1, <1>2, <1>6, <2>3 DEF Create, PathInv
  <2>6. attachment'[a].server = s
    BY <1>2, <2>1, <2>3 DEF CreateAttachment, CinderTypeOK
  <2>7. PathInv(c)'
    BY <2>2, <2>5 DEF PathInv, Resumes, DeletePC
  <2> QED BY <1>0, <1>1, <1>3, <2>2, <2>4, <2>5, <2>6, <2>7, PathResumes
<1>7. CASE ConnectVolume(c)
  <2>1. PICK p \in Paths :
           /\ Connect(n, v, p)
           /\ call' = [call EXCEPT ![c] = [@ EXCEPT !.pc = "update", !.path = p]]
    BY <1>1, <1>7 DEF ConnectVolume
  <2>2. Resumes(c, "update") /\ call'[c].path = p
    BY <1>2, <1>7, <2>1 DEF Resumes, CallFields, ConnectVolume
  <2>3. Spare(n, v)
    BY <1>1, <1>2, <1>7 DEF SlotInv, ConnectVolume
  <2>4. Others(v) /\ SameHeld(v)
    BY <1>2, <1>7, <2>1, <2>3, ConnectEffect DEF ConnectVolume
  <2>5. p \in Mapped(n, v)'
    BY <1>2, <2>1 DEF Connect, Mapped, BridgeTypeOK
  <2>6. microversion' = "3.54"
    BY <1>2, <1>7 DEF ConnectVolume, PathInv
  <2>7. PathInv(c)'
    BY <1>1, <2>2, <2>5, <2>6 DEF PathInv, Resumes, DeletePC
  <2> QED BY <1>0, <1>1, <1>3, <1>4, <2>2, <2>4, <2>7, PathResumes
<1>8. CASE Update(c)
  <2>1. Resumes(c, "complete") /\ call'[c].att = call[c].att /\ call'[c].path = call[c].path
    <3>1. Resumes(c, "complete") /\ call'[c].att = call[c].att
      BY <1>0, <1>8, GotoFacts DEF Update, PublishInv
    <3> QED BY <1>2, <1>8, <3>1 DEF Update, Goto, CallFields
  <2>2. Own(c)
    BY <1>2, <1>8 DEF SlotInv, Update
  <2>3. Others(v) /\ SameHeld(v) /\ SameDevices(v)
    BY <1>1, <1>2, <1>5, <1>8, <2>2, UpdateEffect DEF Update
  <2>4. attachment'[call[c].att].path = call[c].path
    BY <1>2, <1>5, <1>8, <2>2 DEF Update, UpdateAttachment, CinderTypeOK, AttachmentRecord
  <2>5. call[c].path \in Mapped(n, v)' /\ microversion' = "3.54"
    BY <1>1, <1>2, <1>8, <2>3 DEF Update, PathInv, SameDevices
  <2>6. PathInv(c)'
    BY <1>1, <2>1, <2>4, <2>5 DEF PathInv, Resumes, DeletePC
  <2> QED BY <1>0, <1>1, <1>3, <1>4, <2>1, <2>3, <2>6, PathResumes
<1>9. CASE Complete(c)
  <2>1. Resumes(c, "waitAttached")
    BY <1>2, <1>9 DEF Complete, Resumes, CallFields
  <2>2. Own(c)
    BY <1>2, <1>9 DEF SlotInv, Complete
  <2>3. /\ Others(v) /\ SameHeld(v) /\ SameDevices(v)
        /\ Listed(v)' = Listed(v) \cup {call[c].att}
    BY <1>1, <1>2, <1>5, <1>9, <2>2, CompleteEffect DEF Complete
  <2>4. /\ attachment'[call[c].att].path = attachment[call[c].att].path
        /\ status'[v] = "in-use"
    BY <1>1, <1>2, <1>5, <1>9, <2>2 DEF Complete, CompleteAttachment, CinderTypeOK, AttachmentRecord
  <2>5. \A a \in Held(v)' : attachment'[a].path \in Mapped(n, v)'
    <3>1. \A a \in Held(v)' : a = call[c].att
      BY <1>2, <1>5, <2>2, <2>3 DEF SameHeld, VolumeInv
    <3>2. attachment[call[c].att].path \in Mapped(n, v)
      BY <1>1, <1>2, <1>9 DEF Complete, PathInv
    <3> QED BY <2>3, <2>4, <3>1, <3>2 DEF SameDevices
  <2>6. PathInv(c)'
    BY <1>1, <2>1, <2>3, <2>4, <2>5 DEF PathInv, Resumes, DeletePC
  <2> QED BY <1>0, <1>1, <1>3, <1>4, <2>1, <2>3, <2>6, PathResumes
<1>10. CASE UndoConnect(c)
  <2>1. Resumes(c, "undoCreate")
    BY <1>0, <1>10, GotoFacts DEF UndoConnect, PublishInv
  <2>2. Own(c)
    BY <1>2, <1>10 DEF SlotInv, UndoConnect
  <2>3. Others(v) /\ SameHeld(v)
    BY <1>1, <1>2, <1>5, <1>10, <2>2, DisconnectEffect DEF UndoConnect
  <2>4. PathInv(c)'
    BY <2>1 DEF PathInv, Resumes, DeletePC
  <2> QED BY <1>0, <1>1, <1>3, <1>4, <2>1, <2>3, <2>4, PathResumes
<1>11. CASE UndoCreate(c)
  <2>1. Own(c) /\ Spare(n, v)
    BY <1>1, <1>2, <1>11 DEF SlotInv, UndoCreate
  <2>2. Others(v) /\ Held(v)' = Held(v) \ {call[c].att}
    BY <1>1, <1>2, <1>5, <1>11, <2>1, ReleaseEffect DEF UndoCreate, Own
  <2>3. Held(v)' = {}
    BY <1>2, <1>5, <2>1, <2>2 DEF VolumeInv
  <2> QED BY <1>0, <1>1, <1>3, <1>11, <2>2, <2>3, PathReturns DEF UndoCreate
<1> QED BY <1>6, <1>7, <1>8, <1>9, <1>10, <1>11

-----------------------------------------------------------------------------
(* The steps of the handlers that detach and delete *)

LEMMA UnpublishPath ==
    ASSUME RolledBack, PublishInv, DetachInv', NEW c \in Calls, Unpublish(c)
    PROVE  PublishInv'
<1> USE DEF RolledBack, backend
<1>0. call[c].pc # "idle" /\ call[c].pc \in UnpublishPC
  BY DEF Unpublish, Begin, ReadAttachments, GetAttachment, DisconnectVolume, Release,
         WaitDetached, UnpublishPC
<1>1. PICK v \in Volumes, n \in Nodes : v = call[c].volume /\ n = call[c].node
  BY <1>0, PathFacts
<1>2. /\ SlotInv(c) /\ PathInv(c) /\ ServiceInv(v) /\ VolumeInv(v) /\ FreeUnheld
      /\ CinderTypeOK /\ BridgeTypeOK
      /\ call \in [Calls -> CallRecord] /\ call[c] \in CallFields
  BY <1>0, <1>1, PathFacts
<1>3. ASSUME SameHeld(v)
      PROVE  /\ (\A a, b \in Held(v) : a = b)'
             /\ (\A a \in Held(v) : attachment[a].server # None)'
  BY <1>2, <1>3 DEF VolumeInv, SameHeld
<1>4. ASSUME Own(c)
      PROVE  call[c].att \in Held(v) /\ call[c].att \in Attachments /\ HeldOn(n, v) # {}
  BY <1>1, <1>4 DEF Own, Held, HeldOn
<1>5. ASSUME UNCHANGED <<status, attachment, device>>
      PROVE  Others(v) /\ SameHeld(v) /\ SameDevices(v)
  BY <1>0, <1>1, <1>5, ReadStep DEF PublishInv
<1>6. CASE Begin(c)
  <2>0. Keeps354
    BY <1>6 DEF Begin, Keeps354
  <2>1. CASE BeginDetaching(v) /\ Goto(c, "readAttachments") /\ UNCHANGED pv
    <3>1. Resumes(c, "readAttachments")
      BY <1>0, <2>1, GotoFacts DEF PublishInv
    <3>2. Others(v) /\ SameHeld(v) /\ SameDevices(v)
      BY <1>2, <1>6, <2>1, StatusEffect DEF Begin, BeginDetaching
    <3>3. Mapped(n, v) # {}
      BY <1>1, <1>2, <1>6, <2>1 DEF Begin, BeginDetaching, PathInv, ServiceInv, Listed
    <3>4. PathInv(c)'
      BY <1>1, <3>1, <3>2, <3>3 DEF PathInv, Resumes, DeletePC, SameDevices
    <3> QED BY <1>0, <1>1, <1>3, <2>0, <3>1, <3>2, <3>4, PathResumes
  <2>2. CASE Deleted(c) /\ Answer(c, Detached) /\ UNCHANGED <<status, attachment>>
    <3>1. Held(v) = {}
      BY <1>1, <1>2, <2>2 DEF Deleted, FreeUnheld, Unused
    <3>2. Others(v) /\ Held(v)' = {}
      BY <1>5, <1>6, <2>2, <3>1 DEF Begin, SameHeld
    <3> QED BY <1>0, <1>1, <2>0, <2>2, <3>2, PathReturns
  <2> QED BY <1>1, <1>6, <2>1, <2>2 DEF Begin
<1>7. CASE ReadAttachments(c)
  <2>1. status[v] = "detaching" /\ Listed(v) # {} /\ Mapped(n, v) # {}
    BY <1>1, <1>2, <1>7 DEF SlotInv, PathInv, ServiceInv, ReadAttachments
  <2>2. PICK a \in Listed(v) :
           /\ call' = [call EXCEPT ![c] = [@ EXCEPT !.pc = "getAttachment", !.att = a]]
           /\ UNCHANGED <<microversion, pv>>
    BY <1>1, <1>7, <2>1 DEF ReadAttachments, Deleted
  <2>3. Resumes(c, "getAttachment") /\ Keeps354
    BY <1>2, <2>2 DEF Resumes, CallFields, Keeps354
  <2>4. Others(v) /\ SameHeld(v) /\ SameDevices(v)
    BY <1>5, <1>7 DEF ReadAttachments
  <2>5. PathInv(c)'
    BY <1>1, <2>1, <2>3, <2>4 DEF PathInv, Resumes, DeletePC, SameDevices
  <2> QED BY <1>0, <1>1, <1>3, <2>3, <2>4, <2>5, PathResumes
<1>8. CASE GetAttachment(c)
  <2>1. Own(c) /\ Mapped(n, v) # {}
    BY <1>1, <1>2, <1>8 DEF SlotInv, PathInv, GetAttachment
  <2>2. Resumes(c, "disconnect") /\ Keeps354
    BY <1>0, <1>8, <2>1, GotoFacts DEF GetAttachment, Own, PublishInv, Keeps354
  <2>3. Others(v) /\ SameHeld(v) /\ SameDevices(v)
    BY <1>5, <1>8 DEF GetAttachment
  <2>4. PathInv(c)'
    BY <1>1, <2>1, <2>2, <2>3 DEF PathInv, Resumes, DeletePC, SameDevices
  <2> QED BY <1>0, <1>1, <1>3, <2>2, <2>3, <2>4, PathResumes
<1>9. CASE DisconnectVolume(c)
  <2>1. Own(c)
    BY <1>2, <1>9 DEF SlotInv, DisconnectVolume
  <2>2. Resumes(c, "release") /\ Keeps354
    BY <1>0, <1>9, GotoFacts DEF DisconnectVolume, PublishInv, Keeps354
  <2>3. Others(v) /\ SameHeld(v)
    BY <1>1, <1>2, <1>4, <1>9, <2>1, DisconnectEffect DEF DisconnectVolume
  <2>4. PathInv(c)'
    BY <2>2 DEF PathInv, Resumes, DeletePC
  <2> QED BY <1>0, <1>1, <1>3, <2>2, <2>3, <2>4, PathResumes
<1>10. CASE Release(c)
  <2>1. Own(c) /\ Spare(n, v)
    BY <1>1, <1>2, <1>10 DEF SlotInv, Release
  <2>2. /\ ReleaseAttachment(call[c].att, v) /\ UNCHANGED <<device, microversion, pv>>
        /\ call' = [call EXCEPT ![c] = [@ EXCEPT !.pc = "waitDetached", !.tries = 0]]
    BY <1>1, <1>10, <2>1 DEF Release, Own
  <2>3. Resumes(c, "waitDetached") /\ Keeps354
    BY <1>2, <2>2 DEF Resumes, CallFields, Keeps354
  <2>4. Others(v) /\ Held(v)' = Held(v) \ {call[c].att}
    BY <1>1, <1>2, <1>4, <2>1, <2>2, ReleaseEffect DEF Own
  <2>5. Held(v)' = {}
    BY <1>2, <1>4, <2>1, <2>4 DEF VolumeInv
  <2>6. PathInv(c)'
    BY <1>1, <2>3, <2>5 DEF PathInv, Resumes, DeletePC
  <2> QED BY <1>0, <1>1, <2>3, <2>4, <2>5, <2>6, PathResumes
<1>11. CASE WaitDetached(c)
  <2>1. Held(v) = {}
    BY <1>1, <1>2, <1>11 DEF PathInv, WaitDetached
  <2>2. Others(v) /\ Held(v)' = {} /\ Keeps354
    BY <1>5, <1>11, <2>1 DEF WaitDetached, SameHeld, Keeps354
  <2>3. Answer(c, Detached)
    BY <1>1, <1>11, <2>1 DEF WaitDetached, SeesDetached, OwnListed, Listed
  <2> QED BY <1>0, <1>1, <2>2, <2>3, PathReturns
<1> QED BY <1>6, <1>7, <1>8, <1>9, <1>10, <1>11 DEF Unpublish

LEMMA DeletePath ==
    ASSUME PublishInv, DetachInv', NEW c \in Calls, DiskIsUsed(c) \/ Delete(c)
    PROVE  PublishInv'
<1> USE DEF backend
<1>0. call[c].pc # "idle" /\ call[c].pc \in DeletePC
  BY DEF DiskIsUsed, Delete, DeletePC
<1>1. PICK v \in Volumes : v = call[c].volume
  BY <1>0, PathFacts
<1>2. PathInv(c) /\ ServiceInv(v) /\ CinderTypeOK /\ Held(v) = {}
  BY <1>0, <1>1, PathFacts DEF PathInv
<1>3. Others(v) /\ Held(v)' = {} /\ Keeps354
  <2>1. UNCHANGED <<attachment, device, microversion>> /\ (UNCHANGED status \/ DeleteVolume(v))
    BY <1>1 DEF DiskIsUsed, Delete, DeleteVolume
  <2> QED BY <1>2, <2>1, StatusEffect DEF SameHeld, Keeps354
<1>4. CASE Fail(c) \/ Answer(c, DeletedView)
  BY <1>0, <1>1, <1>3, <1>4, PathReturns
<1>5. CASE Goto(c, "delete") /\ UNCHANGED pv
  <2>1. Resumes(c, "delete")
    BY <1>0, <1>5, GotoFacts DEF PublishInv
  <2>2. PathInv(c)'
    BY <1>1, <1>3, <2>1 DEF PathInv, Resumes
  <2> QED BY <1>0, <1>1, <1>3, <2>1, <2>2, PathResumes
<1> QED BY <1>4, <1>5 DEF DiskIsUsed, Delete

\* Where a request fails, either nothing is left to clean up or AttachVolume does.
LEMMA FailingPath ==
    ASSUME RolledBack, PublishInv, DetachInv', NEW c \in Calls, call[c].pc # "idle",
           RequestRefused(c) \/ RequestFails(c)
    PROVE  PublishInv'
<1> USE DEF RolledBack, backend
<1>1. PICK v \in Volumes : v = call[c].volume
  BY PathFacts
<1>2. /\ SlotInv(c) /\ PathInv(c) /\ ServiceInv(v) /\ VolumeInv(v) /\ FreeUnheld
      /\ CinderTypeOK /\ BridgeTypeOK
      /\ call \in [Calls -> CallRecord] /\ call[c] \in CallFields
  BY <1>1, PathFacts
<1>3. ErrorPath(c) /\ Keeps354
  BY DEF RequestRefused, RequestFails, SetsMicroversion, Keeps354
<1>4. ASSUME UNCHANGED <<status, attachment, device>>
      PROVE  Others(v) /\ SameHeld(v) /\ SameDevices(v)
  BY <1>1, <1>4, ReadStep DEF PublishInv
<1>5. CASE RequestRefused(c)
  <2>1. Held(v) = {} /\ call[c].pc \notin {"connect", "update"}
    <3>1. CASE call[c].pc \in {"undoConnect", "disconnect"}
      BY <1>1, <1>2, <1>5, <3>1 DEF RequestRefused, Refused, CannotDisconnect, PathInv
    <3>2. CASE call[c].pc \in {"update", "complete", "undoCreate"}
      BY <1>1, <1>2, <1>5, <3>2 DEF RequestRefused, Refused, SlotInv, Own, PathInv
    <3>3. CASE call[c].pc = "beginDetaching"
      BY <1>1, <1>2, <1>5, <3>3 DEF RequestRefused, Refused, PathInv, FreeUnheld, Unused
    <3>4. CASE call[c].pc \in {"createAttachment", "delete"}
      BY <1>1, <1>2, <3>4 DEF PathInv, DeletePC
    <3> QED BY <1>5, <3>1, <3>2, <3>3, <3>4 DEF RequestRefused, Refused
  <2>2. Fail(c)
    BY <1>3, <2>1 DEF ErrorPath, OnError
  <2>3. Others(v) /\ Held(v)' = {}
    BY <1>4, <1>5, <2>1 DEF RequestRefused, SameHeld
  <2> QED BY <1>1, <1>3, <2>2, <2>3, PathReturns
<1>6. CASE RequestFails(c) /\ call[c].pc = "getVolume"
  <2>1. UNCHANGED <<status, attachment, device>> /\ Held(v) = {}
    BY <1>1, <1>2, <1>6 DEF RequestFails, Effect, PathInv
  <2>2. Fail(c)
    BY <1>3, <1>6 DEF ErrorPath, OnError
  <2> QED BY <1>1, <1>3, <1>4, <2>1, <2>2, PathReturns DEF SameHeld
<1>7. ASSUME NEW pc \in {"undoCreate", "undoConnect"}, Goto(c, pc), UNCHANGED pv,
             Others(v), SameHeld(v), PathInv(c)'
      PROVE  PublishInv'
  <2>1. Resumes(c, pc)
    BY <1>7, GotoFacts DEF PublishInv
  <2>2. /\ (\A a, b \in Held(v) : a = b)'
        /\ (\A a \in Held(v) : attachment[a].server # None)'
    BY <1>2, <1>7 DEF VolumeInv, SameHeld
  <2> QED BY <1>1, <1>3, <1>7, <2>1, <2>2, PathResumes
<1>8. CASE RequestFails(c) /\ call[c].pc = "connect"
  <2>1. UNCHANGED <<status, attachment, device>>
    BY <1>8 DEF RequestFails, Effect
  <2>2. Goto(c, "undoCreate") /\ UNCHANGED pv
    BY <1>3, <1>8 DEF ErrorPath, OnError
  <2>3. Resumes(c, "undoCreate")
    BY <2>2, GotoFacts DEF PublishInv
  <2>4. PathInv(c)'
    BY <2>3 DEF PathInv, Resumes, DeletePC
  <2> QED BY <1>4, <1>7, <2>1, <2>2, <2>4
<1>9. CASE RequestFails(c) /\ call[c].pc = "update"
  <2>1. PICK n \in Nodes : n = call[c].node
    BY <1>9, PathFacts DEF PublishPC
  <2>2. \/ UNCHANGED <<status, attachment, device>>
        \/ UpdateAttachment(call[c].att, v, call[c].path) /\ UNCHANGED device
    BY <1>1, <1>9 DEF RequestFails, Effect
  <2>3. call[c].att \in Attachments
    BY <1>2, <1>9 DEF SlotInv, Own, Held
  <2>4. Others(v) /\ SameHeld(v) /\ SameDevices(v)
    BY <1>2, <1>4, <2>2, <2>3, UpdateEffect
  <2>5. Goto(c, "undoConnect") /\ UNCHANGED pv
    BY <1>3, <1>9 DEF ErrorPath, OnError
  <2>6. Resumes(c, "undoConnect")
    BY <1>9, <2>5, GotoFacts DEF PublishInv
  <2>7. Mapped(n, v)' # {}
    BY <1>1, <1>2, <1>9, <2>1, <2>4 DEF PathInv, SameDevices
  <2>8. PathInv(c)'
    BY <1>1, <2>1, <2>6, <2>7 DEF PathInv, Resumes, DeletePC
  <2> QED BY <1>7, <2>4, <2>5, <2>8
<1> QED BY <1>5, <1>6, <1>8, <1>9 DEF RequestFails, CleanedUp

-----------------------------------------------------------------------------
(* The steps of the sidecars and of Cinder *)

\* A sidecar calls for a volume that no handler is busy with: the volume has an
\* attachment only if it is attached.
LEMMA SidecarPath ==
    ASSUME PublishInv, DetachInv', NEW c \in Calls, NEW v \in Volumes,
           (\E n \in Nodes : CallPublish(c, v, n)) \/ CallUnpublish(c, v) \/ CallDelete(c, v)
    PROVE  PublishInv'
<1>1. PICK n, pc : /\ Start(c, v, n, pc) /\ pc \in {"getVolume", "beginDetaching", "diskIsUsed"}
                   /\ pc = "beginDetaching" => n = pv[v].node
                   /\ pc # "beginDetaching" => pv[v].phase # "attached"
  BY DEF CallPublish, CallUnpublish, CallDelete
<1>2. /\ pv'[v].phase # "attached" /\ \A u \in Volumes \ {v} : pv'[u] = pv[u]
      /\ VolumeInv(v) /\ ServiceInv(v) /\ ViewInv(v) /\ CinderTypeOK
      /\ call \in [Calls -> CallRecord]
  <2>1. pv \in [Volumes -> Views] /\ pv[v] \in ViewFields
    BY DEF PublishInv, DetachInv, TypeOK, Views
  <2> QED BY <2>1 DEF PublishInv, DetachInv, TypeOK, ViewFields, CallPublish, CallUnpublish, CallDelete
<1>3. UNCHANGED <<status, attachment, device>> /\ call[c] = Idle /\ Keeps354
  BY <1>1 DEF Start, backend, Keeps354
<1>4. /\ call'[c].pc = pc /\ call'[c].volume = v /\ call'[c].node = n
      /\ \A d \in Calls \ {c} : call'[d] = call[d]
  BY <1>1, <1>2 DEF Start, Idle
<1>5. \A d \in Calls : call[d].pc # "idle" => call[d].volume # v
  BY <1>1, HandlerFacts DEF Start, PublishInv
<1>6. /\ Others(v) /\ Held(v)' = Held(v) /\ Mapped(n, v)' = Mapped(n, v)
      /\ status'[v] = status[v] /\ \A a \in Held(v) : attachment'[a] = attachment[a]
  BY <1>3 DEF Others, Held, Mapped
<1>7. Held(v) # {} => pv[v].phase = "attached"
  BY <1>2, <1>5 DEF VolumeInv, Busy
<1>8. PathInv(c)'
  BY <1>1, <1>2, <1>4, <1>6, <1>7 DEF PathInv, ViewInv, DeletePC
<1>9. VolumeInv(v)'
  <2>1. Busy(v)'
    BY <1>1, <1>4 DEF Busy
  <2> QED BY <1>2, <1>6, <2>1 DEF VolumeInv
<1> QED BY <1>2, <1>3, <1>4, <1>5, <1>6, <1>8, <1>9, IdleType, PathFrame

\* What Cinder does in the background concerns no volume in use.
LEMMA BackgroundPath ==
    ASSUME PublishInv, DetachInv', NEW v \in Volumes, CinderWorks(v)
    PROVE  PublishInv'
<1>1. /\ UNCHANGED <<attachment, device, call, pv, microversion>>
      /\ \A u \in Volumes : status[u] = "in-use" => status'[u] = "in-use"
  BY DEF PublishInv, DetachInv, TypeOK, CinderTypeOK, CinderWorks, FinishCreation, FinishDeletion
<1>2. \A u \in Volumes : VolumeInv(u)'
  BY <1>1 DEF PublishInv, VolumeInv, Busy, Held, Mapped
<1>3. ASSUME NEW c \in Calls
      PROVE  PathInv(c)'
  <2>1. CASE call[c].pc = "idle"
    BY <1>1, <2>1 DEF PathInv, DeletePC
  <2>2. CASE call[c].pc # "idle"
    <3>1. call[c].volume \in Volumes /\ PathInv(c)
      BY <2>2, PathFacts
    <3> QED BY <1>1, <3>1 DEF PathInv, Held, Listed, Mapped
  <2> QED BY <2>1, <2>2
<1> QED BY <1>2, <1>3 DEF PublishInv

LEMMA PublishStep ==
    ASSUME RolledBack, PublishInv, DetachInv', [Next]_vars
    PROVE  PublishInv'
<1>1. ASSUME NEW c \in Calls, HandlerStep(c)
      PROVE  PublishInv'
  <2>1. call[c].pc # "idle"
    BY <1>1, HandlerRequests
  <2>2. \/ GetVolume(c) \/ WaitAttached(c) \/ GetPath(c)
        \/ Create(c) \/ ConnectVolume(c) \/ Update(c) \/ Complete(c)
        \/ UndoConnect(c) \/ UndoCreate(c)
        \/ Unpublish(c) \/ DiskIsUsed(c) \/ Delete(c) \/ RequestRefused(c) \/ RequestFails(c)
    BY <1>1 DEF HandlerStep, Handler, Publish
  <2> QED BY <2>1, <2>2, PublishReadsPath, PublishWritesPath, UnpublishPath, DeletePath,
             FailingPath
<1>2. ASSUME NEW c \in Calls, NEW v \in Volumes,
             (\E n \in Nodes : CallPublish(c, v, n)) \/ CallUnpublish(c, v) \/ CallDelete(c, v)
      PROVE  PublishInv'
  BY <1>2, SidecarPath
<1>3. ASSUME NEW v \in Volumes, CinderWorks(v)
      PROVE  PublishInv'
  BY <1>3, BackgroundPath
<1>4. ~LookupByName /\ ~Restart
  BY DEF RolledBack, LookupByName, Restart, PublishInv, DetachInv, TypeOK
<1>5. CASE UNCHANGED vars
  BY <1>5 DEF vars, PublishInv, PathInv, VolumeInv, Busy, Held, Listed, Mapped
<1> QED BY <1>1, <1>2, <1>3, <1>4, <1>5 DEF Next, HandlerStep, DeadlineExpires, RolledBack

-----------------------------------------------------------------------------
(* What the nodes see of a step *)

\* Where a volume is attached, behind which path, and whether Cinder has it.
SameSight(v) ==
    /\ (pv'[v].phase = "attached") = (pv[v].phase = "attached")
    /\ pv[v].phase = "attached" => pv'[v] = pv[v]
    /\ (status'[v] = "deleted") = (status[v] = "deleted")

NodeStep(v) ==
    \/ UNCHANGED device /\ SameSight(v)
    \/ /\ \E n \in Nodes, p \in Paths : Connect(n, v, p)
       /\ pv[v].phase # "attached" /\ \A m \in Nodes : Mapped(m, v) = {}
       /\ SameSight(v)
    \/ /\ \E n \in Nodes : Disconnect(n, v)
       /\ pv[v].phase # "attached" /\ SameSight(v)
    \/ /\ UNCHANGED <<device, status>>
       /\ pv[v].phase # "attached" /\ pv'[v].phase = "attached"
       /\ pv'[v].node \in Nodes /\ pv'[v].path \in Mapped(pv'[v].node, v)
    \/ /\ UNCHANGED <<device, status>>
       /\ pv[v].phase = "attached" /\ pv'[v].phase # "attached"
    \/ /\ UNCHANGED <<device, pv>>
       /\ status[v] # "deleted" /\ status'[v] = "deleted"

\* A handler connects a volume that has no device, of its one attachment.
LEMMA ConnectsNew ==
    ASSUME RolledBack, PublishInv, NEW c \in Calls, call[c].pc = "connect",
           NEW v \in Volumes, v = call[c].volume
    PROVE  \A m \in Nodes : Mapped(m, v) = {}
<1> USE DEF RolledBack
<1>0. SlotInv(c) /\ VolumeInv(v) /\ call[c].node \in Nodes /\ DetachInv
  BY PathFacts DEF PublishPC, PublishInv
<1>1. PICK n \in Nodes : n = call[c].node
  BY <1>0
<1>2. PICK a \in Held(v) : /\ attachment[a].node = n /\ \A b \in Held(v) : b = a
                          /\ Spare(n, v)
  BY <1>0, <1>1 DEF SlotInv, Own, VolumeInv
<1>3. HeldOn(n, v) = {a}
  BY <1>2 DEF HeldOn
<1>4. Mapped(n, v) = {}
  <2>1. Cardinality(Mapped(n, v)) < 1
    BY <1>2, <1>3, FS_Singleton DEF Spare
  <2>2. Cardinality(Mapped(n, v)) = 0
    BY <2>1, Finite
  <2> QED BY <2>2, Finite, FS_EmptySet
<1>5. ASSUME NEW m \in Nodes, Mapped(m, v) # {}
      PROVE  m = n
  BY <1>0, <1>2, <1>5, DeviceFacts
<1> QED BY <1>4, <1>5

LEMMA HandlerSight ==
    ASSUME RolledBack, PublishInv, PublishInv', NEW c \in Calls, HandlerStep(c)
    PROVE  \E v \in Volumes : NodeStep(v) /\ \A u \in Volumes \ {v} : SameSight(u)
<1>0. call[c].pc # "idle" /\ CinderRequest(c) /\ BridgeRequest(c)
  BY HandlerRequests
<1>1. PICK v \in Volumes : v = call[c].volume
  BY <1>0, PathFacts
<1>2. /\ FreeUnheld /\ CinderTypeOK /\ pv[v].phase # "attached" /\ DetachInv
      /\ call[c].pc \in PublishPC \cup UnpublishPC => call[c].node \in Nodes
  BY <1>0, <1>1, PathFacts DEF PublishInv
<1>3. /\ \A u \in Volumes \ {v} : status'[u] = status[u]
      /\ (status'[v] = "deleted") = (status[v] = "deleted")
  BY <1>0, <1>1, <1>2
     DEF CinderRequest, CinderTypeOK, CreateAttachment, UpdateAttachment, CompleteAttachment,
         BeginDetaching, ReleaseAttachment, DeleteVolume, Deletable, CanReserve, FreeUnheld,
         Unused, Held
<1>4. \A u \in Volumes \ {v} : SameSight(u)
  BY <1>1, <1>2, <1>3, OwnView DEF SameSight
<1>5. CASE UNCHANGED device /\ pv'[v].phase # "attached"
  BY <1>2, <1>3, <1>4, <1>5 DEF NodeStep, SameSight
<1>6. CASE pv'[v].phase = "attached"
  <2>1. UNCHANGED <<device, status>>
    BY <1>1, <1>2, <1>6, GrantReads
  <2>2. PICK n \in Nodes : n = pv'[v].node
    BY <1>6 DEF PublishInv, DetachInv, TypeOK, Views
  <2>3. pv'[v].path \in Mapped(n, v)'
    BY <1>6, <2>2 DEF PublishInv, VolumeInv
  <2>4. pv'[v].path \in Mapped(n, v)
    BY <2>1, <2>3 DEF Mapped
  <2> QED BY <1>2, <1>4, <1>6, <2>1, <2>2, <2>4 DEF NodeStep
<1>7. CASE ~UNCHANGED device /\ pv'[v].phase # "attached"
  <2>1. SameSight(v)
    BY <1>2, <1>3, <1>7 DEF SameSight
  <2>2. CASE call[c].pc = "connect" /\ \E p \in Paths : Connect(call[c].node, v, p)
    BY <1>1, <1>2, <1>4, <2>1, <2>2, ConnectsNew DEF NodeStep, PublishPC
  <2>3. CASE call[c].pc \in {"undoConnect", "disconnect"} /\ Disconnect(call[c].node, v)
    BY <1>1, <1>2, <1>4, <2>1, <2>3 DEF NodeStep, PublishPC, UnpublishPC
  <2> QED BY <1>0, <1>1, <1>7, <2>2, <2>3 DEF BridgeRequest
<1> QED BY <1>5, <1>6, <1>7

\* A device comes only to a volume that has none, and goes only from one that is
\* not attached; a path that is handed over has the volume behind it.
LEMMA Sight ==
    ASSUME RolledBack, PublishInv, PublishInv', [Next]_vars
    PROVE  \/ UNCHANGED device /\ \A u \in Volumes : SameSight(u)
           \/ \E v \in Volumes : NodeStep(v) /\ \A u \in Volumes \ {v} : SameSight(u)
<1>0. pv \in [Volumes -> Views] /\ status \in [Volumes -> Statuses]
  BY DEF PublishInv, DetachInv, TypeOK, CinderTypeOK
<1>1. ASSUME NEW c \in Calls, NEW v \in Volumes, NEW n \in Nodes, CallPublish(c, v, n)
      PROVE  UNCHANGED device /\ \A u \in Volumes : SameSight(u)
  BY <1>0, <1>1 DEF CallPublish, Start, backend, SameSight
<1>2. ASSUME NEW c \in Calls, NEW v \in Volumes, CallDelete(c, v)
      PROVE  UNCHANGED device /\ \A u \in Volumes : SameSight(u)
  BY <1>0, <1>2 DEF CallDelete, Start, backend, SameSight, Views, ViewFields
<1>3. ASSUME NEW c \in Calls, NEW v \in Volumes, CallUnpublish(c, v)
      PROVE  NodeStep(v) /\ \A u \in Volumes \ {v} : SameSight(u)
  BY <1>0, <1>3 DEF CallUnpublish, Start, backend, NodeStep, SameSight, Views, ViewFields
<1>4. ASSUME NEW v \in Volumes, CinderWorks(v)
      PROVE  NodeStep(v) /\ \A u \in Volumes \ {v} : SameSight(u)
  BY <1>0, <1>4 DEF CinderWorks, FinishCreation, FinishDeletion, NodeStep, SameSight
<1>5. ASSUME UNCHANGED <<status, device, pv>>
      PROVE  UNCHANGED device /\ \A u \in Volumes : SameSight(u)
  BY <1>5 DEF SameSight
<1> QED BY <1>1, <1>2, <1>3, <1>4, <1>5, HandlerSight
        DEF Next, HandlerStep, DeadlineExpires, LookupByName, Restart, vars, backend

-----------------------------------------------------------------------------
(* What follows *)

LEMMA PublishInit ==
    ASSUME RolledBack, Init
    PROVE  PublishInv
<1>1. \A v \in Volumes : Held(v) = {} /\ pv[v].phase = "detached"
  BY ClusterAssumption DEF Init, CinderInit, NoAttachment, Held, Detached
<1>2. \A c \in Calls : call[c].pc = "idle"
  BY IdleType DEF Init
<1> QED BY <1>1, <1>2, DetachInit DEF RolledBack, PublishInv, VolumeInv, PathInv, DeletePC

\* The path in the publish context is that of a device of the volume, so that
\* NodeStageVolume formats and mounts the volume and no other: a publication that
\* fails is rolled back, and the next one starts from a volume without attachment.
THEOREM PublishedPathCorrect ==
    ASSUME RolledBack
    PROVE  Spec => []PublishedPath
<1>1. Init => PublishInv
  BY PublishInit
<1>2. PublishInv /\ [Next]_vars => PublishInv'
  BY DetachStep, PublishStep DEF RolledBack, PublishInv
<1>3. PublishInv => PublishedPath
  BY DEF PublishInv, VolumeInv, PublishedPath
<1> QED BY <1>1, <1>2, <1>3, PTL DEF Spec

=============================================================================
