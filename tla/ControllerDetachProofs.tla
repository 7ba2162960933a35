----------------------- MODULE ControllerDetachProofs -----------------------
(* What ControllerAttach guarantees when the sidecars wait for their calls   *)
(* (~Deadlines): the invariants about devices and detaching, for any number  *)
(* of nodes, volumes, failing requests and exits of the plugin.              *)
EXTENDS ControllerAttachProofs

\* A node has at most one device of a volume for each of its attachments, and one
\* less before a connection and after a disconnection.
Covered(v) == \A n \in Nodes : Cardinality(Mapped(n, v)) <= Cardinality(HeldOn(n, v))

Spare(n, v) == Cardinality(Mapped(n, v)) < Cardinality(HeldOn(n, v))

\* What Cinder and the bridges remember of a volume: an attachment for no server is
\* the only one, and a volume in use has an attachment that is listed.
ServiceInv(v) ==
    /\ Covered(v)
    /\ \A a, b \in Held(v) : attachment[a].server = None => a = b
    /\ status[v] \in {"in-use", "detaching"} => Listed(v) # {}

\* What is listed is for the node that the sidecars think of, and nothing is once
\* they take the volume for detached; what they take for attached is.
ViewInv(v) ==
    /\ \A a \in Listed(v) : /\ pv[v].phase \in {"attaching", "attached", "detaching"}
                            /\ attachment[a].node = pv[v].node
    /\ pv[v].phase = "attached" =>
          /\ status[v] = "in-use" /\ Mapped(pv[v].node, v) # {}
          /\ \A a \in Listed(v) : attachment[a].server # None

Own(c) ==
    /\ call[c].att \in Held(call[c].volume)
    /\ attachment[call[c].att].node = call[c].node

\* A handler is awaited, works on the attachment of its node, and leaves one to
\* spare where it will release it.
SlotInv(c) ==
    LET n == call[c].node
        v == call[c].volume
        pc == call[c].pc
    IN pc # "idle" =>
        /\ call[c].waiting
        /\ pc \in PublishPC => pv[v].phase = "attaching" /\ pv[v].node = n
        /\ pc \in UnpublishPC => pv[v].phase = "detaching" /\ pv[v].node = n
        /\ pc \in DeletePC => pv[v].phase = "deleting"
        /\ pc \in {"connect", "update", "complete", "undoConnect", "undoCreate",
                   "getAttachment", "disconnect", "release"} => Own(c)
        /\ pc \in {"connect", "undoCreate", "release"} => Spare(n, v)
        /\ pc \in {"update", "complete", "waitAttached", "getPath"} => Mapped(n, v) # {}
        /\ pc = "readAttachments" => status[v] = "detaching"
        /\ pc = "waitDetached" => \A a \in Held(v) : attachment[a].server # None

OneHandler ==
    \A c, d \in Calls : call[c].pc # "idle" /\ call[d].pc # "idle" /\ c # d
        => call[c].volume # call[d].volume

DetachInv ==
    /\ TypeOK /\ SingleNodeInv /\ OneHandler
    /\ \A c \in Calls : SlotInv(c)
    /\ \A v \in Volumes : ServiceInv(v) /\ ViewInv(v)

-----------------------------------------------------------------------------
(* What a request does to the volume it is about, and to no other *)

\* The volumes other than v are left alone.
Others(v) ==
    \A u \in Volumes \ {v} :
        /\ status'[u] = status[u] /\ Held(u)' = Held(u)
        /\ \A a \in Held(u) : attachment'[a] = attachment[a]
        /\ \A n \in Nodes : Mapped(n, u)' = Mapped(n, u)

SameDevices(v) == \A n \in Nodes : Mapped(n, v)' = Mapped(n, v)

SameHeld(v) ==
    /\ Held(v)' = Held(v)
    /\ \A a \in Held(v) : /\ attachment'[a].node = attachment[a].node
                          /\ attachment'[a].server = attachment[a].server

LEMMA OneLess ==
    ASSUME IsFiniteSet(Attachments), IsFiniteSet(Paths), NEW n, NEW v, NEW a \in HeldOn(n, v)
    PROVE  Cardinality(HeldOn(n, v) \ {a}) = Cardinality(HeldOn(n, v)) - 1
<1>1. PICK S : S = HeldOn(n, v)
  OBVIOUS
<1>2. IsFiniteSet(S) /\ a \in S
  BY <1>1, Finite
<1>3. Cardinality(S \ {a}) = Cardinality(S) - 1
  BY <1>2, FS_RemoveElement
<1> QED BY <1>1, <1>3

\* Where the attachments of a volume keep their node and its devices stay, it
\* is as well covered as before.
LEMMA SameCover ==
    ASSUME NEW v \in Volumes, Covered(v), SameDevices(v), SameHeld(v)
    PROVE  Covered(v)' /\ \A n \in Nodes : HeldOn(n, v)' = HeldOn(n, v)
<1>1. ASSUME NEW n \in Nodes
      PROVE  HeldOn(n, v)' = HeldOn(n, v)
  BY DEF HeldOn, SameHeld
<1> QED BY <1>1 DEF Covered, SameDevices

LEMMA SameOthers ==
    ASSUME NEW v \in Volumes, NEW u \in Volumes \ {v}, Others(v)
    PROVE  /\ Listed(u)' = Listed(u) /\ \A n \in Nodes : HeldOn(n, u)' = HeldOn(n, u)
           /\ ServiceInv(u) => ServiceInv(u)'
<1>0. /\ status'[u] = status[u] /\ Held(u)' = Held(u)
      /\ \A a \in Held(u) : attachment'[a] = attachment[a]
      /\ \A n \in Nodes : Mapped(n, u)' = Mapped(n, u)
  BY DEF Others
<1>1. Listed(u)' = Listed(u)
  BY <1>0 DEF Listed
<1>2. ASSUME NEW n \in Nodes
      PROVE  HeldOn(n, u)' = HeldOn(n, u)
  BY <1>0 DEF HeldOn
<1>3. Covered(u) => Covered(u)'
  BY <1>0, <1>2 DEF Covered
<1> QED BY <1>0, <1>1, <1>2, <1>3 DEF ServiceInv

\* A free attachment is taken.
LEMMA CreateEffect ==
    ASSUME IsFiniteSet(Attachments), IsFiniteSet(Paths), CinderTypeOK, FreeUnheld,
           NEW a \in Attachments, NEW v \in Volumes, NEW n \in Nodes, NEW s \in Servers \cup {None},
           ServiceInv(v), CreateAttachment(a, v, n, s), UNCHANGED device
    PROVE  /\ ServiceInv(v)' /\ Others(v) /\ SameDevices(v)
           /\ a \in Held(v)' /\ attachment'[a].node = n /\ Spare(n, v)'
           /\ Listed(v)' = Listed(v) /\ Held(v)' = Held(v) \cup {a}
           /\ \A b \in Held(v) : attachment'[b] = attachment[b]
<1> USE ClusterAssumption DEF CinderTypeOK
<1>1. /\ attachment'[a] = [volume |-> v, node |-> n, server |-> s, path |-> None,
                           state |-> "attaching"]
      /\ \A b \in Attachments \ {a} : attachment'[b] = attachment[b]
      /\ status'[v] = "attaching" /\ \A u \in Volumes \ {v} : status'[u] = status[u]
      /\ attachment[a] = NoAttachment
  BY DEF CreateAttachment
<1>2. a \notin Held(v) /\ Held(v)' = Held(v) \cup {a}
  BY <1>1 DEF Held, NoAttachment
<1>3. \A m \in Nodes, u \in Volumes : Mapped(m, u)' = Mapped(m, u)
  BY DEF Mapped
<1>4. Others(v)
  <2>1. ASSUME NEW u \in Volumes \ {v}
        PROVE  Held(u)' = Held(u) /\ \A b \in Held(u) : attachment'[b] = attachment[b]
    BY <1>1 DEF Held, NoAttachment
  <2> QED BY <1>1, <1>3, <2>1 DEF Others
<1>5. Listed(v)' = Listed(v) /\ \A b \in Held(v) : attachment'[b] = attachment[b]
  BY <1>1, <1>2 DEF Listed, Held
<1>6. HeldOn(n, v)' = HeldOn(n, v) \cup {a} /\ a \notin HeldOn(n, v)
  BY <1>1, <1>2 DEF HeldOn, Held
<1>7. ASSUME NEW m \in Nodes \ {n}
      PROVE  HeldOn(m, v)' = HeldOn(m, v)
  BY <1>1, <1>2 DEF HeldOn, Held
<1>8. Cardinality(HeldOn(n, v)') = Cardinality(HeldOn(n, v)) + 1
  BY <1>6, Finite, FS_AddElement
<1>9. Spare(n, v)'
  BY <1>3, <1>8, Finite DEF Spare, Covered, ServiceInv
<1>10. Covered(v)'
  BY <1>3, <1>7, <1>8, Finite DEF Covered, ServiceInv
<1>11. (\A b, d \in Held(v) : attachment[b].server = None => b = d)'
  <2>1. CASE status[v] = "available"
    <3>1. Held(v) = {}
      BY <2>1 DEF FreeUnheld, Unused
    <3> QED BY <1>2, <3>1
  <2>2. CASE s # None /\ \E b \in Held(v) : attachment[b].server = s
    <3>1. \A b \in Held(v) : attachment[b].server # None
      BY <2>2 DEF ServiceInv
    <3>2. \A b \in Held(v)' : attachment'[b].server # None
      BY <1>1, <1>2, <2>2, <3>1 DEF Held
    <3> QED BY <3>2
  <2> QED BY <2>1, <2>2 DEF CreateAttachment, CanReserve
<1>12. ServiceInv(v)'
  BY <1>1, <1>10, <1>11 DEF ServiceInv
<1> QED BY <1>1, <1>2, <1>3, <1>4, <1>5, <1>9, <1>12 DEF SameDevices

\* An attachment goes back to "attaching" with its mount point, or becomes
\* "attached".
LEMMA UpdateEffect ==
    ASSUME CinderTypeOK, NEW a \in Attachments, NEW v \in Volumes, NEW p,
           ServiceInv(v), UpdateAttachment(a, v, p), UNCHANGED device
    PROVE  /\ ServiceInv(v)' /\ Others(v) /\ SameDevices(v) /\ SameHeld(v)
           /\ Listed(v)' \subseteq Listed(v)
<1> USE ClusterAssumption DEF CinderTypeOK
<1>1. /\ attachment'[a].volume = v /\ attachment'[a].node = attachment[a].node
      /\ attachment'[a].server = attachment[a].server /\ attachment'[a].state = "attaching"
      /\ \A b \in Attachments \ {a} : attachment'[b] = attachment[b]
      /\ status'[v] = "attaching" /\ \A u \in Volumes \ {v} : status'[u] = status[u]
      /\ a \in Held(v)
  BY DEF UpdateAttachment, Held, AttachmentRecord
<1>2. \A m \in Nodes, u \in Volumes : Mapped(m, u)' = Mapped(m, u)
  BY DEF Mapped
<1>3. Others(v) /\ SameHeld(v) /\ SameDevices(v) /\ Listed(v)' \subseteq Listed(v)
  BY <1>1, <1>2 DEF Others, SameHeld, SameDevices, Held, Listed
<1>4. Covered(v)'
  BY <1>3, SameCover DEF ServiceInv
<1>5. ServiceInv(v)'
  BY <1>1, <1>3, <1>4 DEF ServiceInv, SameHeld
<1> QED BY <1>3, <1>5

LEMMA CompleteEffect ==
    ASSUME CinderTypeOK, NEW a \in Attachments, NEW v \in Volumes,
           ServiceInv(v), CompleteAttachment(a, v), UNCHANGED device
    PROVE  /\ ServiceInv(v)' /\ Others(v) /\ SameDevices(v) /\ SameHeld(v)
           /\ Listed(v)' = Listed(v) \cup {a}
<1> USE ClusterAssumption DEF CinderTypeOK
<1>1. /\ attachment'[a].volume = v /\ attachment'[a].node = attachment[a].node
      /\ attachment'[a].server = attachment[a].server /\ attachment'[a].state = "attached"
      /\ \A b \in Attachments \ {a} : attachment'[b] = attachment[b]
      /\ \A u \in Volumes \ {v} : status'[u] = status[u]
      /\ a \in Held(v)
  BY DEF CompleteAttachment, Held, AttachmentRecord
<1>2. \A m \in Nodes, u \in Volumes : Mapped(m, u)' = Mapped(m, u)
  BY DEF Mapped
<1>3. Others(v) /\ SameHeld(v) /\ SameDevices(v) /\ Listed(v)' = Listed(v) \cup {a}
  BY <1>1, <1>2 DEF Others, SameHeld, SameDevices, Held, Listed
<1>4. Covered(v)'
  BY <1>3, SameCover DEF ServiceInv
<1>5. ServiceInv(v)'
  BY <1>3, <1>4 DEF ServiceInv, SameHeld
<1> QED BY <1>3, <1>5

\* Requests that change the status alone.
LEMMA StatusEffect ==
    ASSUME CinderTypeOK, NEW v \in Volumes, ServiceInv(v), UNCHANGED <<attachment, device>>,
           \/ UNCHANGED status \/ BeginDetaching(v) \/ DeleteVolume(v)
           \/ FinishCreation(v) \/ FinishDeletion(v)
    PROVE  /\ ServiceInv(v)' /\ Others(v) /\ SameDevices(v) /\ SameHeld(v)
           /\ Listed(v)' = Listed(v)
<1>1. /\ \A u \in Volumes \ {v} : status'[u] = status[u]
      /\ status'[v] \in {"in-use", "detaching"} => status[v] \in {"in-use", "detaching"}
  BY DEF CinderTypeOK, BeginDetaching, DeleteVolume, FinishCreation, FinishDeletion
<1>2. \A m \in Nodes, u \in Volumes : Mapped(m, u)' = Mapped(m, u)
  BY DEF Mapped
<1>3. Others(v) /\ SameHeld(v) /\ SameDevices(v) /\ Listed(v)' = Listed(v)
  BY <1>1, <1>2 DEF Others, SameHeld, SameDevices, Held, Listed
<1>4. Covered(v)'
  BY <1>3, SameCover DEF ServiceInv
<1>5. ServiceInv(v)'
  BY <1>1, <1>3, <1>4 DEF ServiceInv, SameHeld
<1> QED BY <1>3, <1>5

\* The attachment that is released has no device left.
LEMMA ReleaseEffect ==
    ASSUME IsFiniteSet(Attachments), IsFiniteSet(Paths), CinderTypeOK,
           NEW a \in Attachments, NEW v \in Volumes, NEW n \in Nodes,
           ServiceInv(v), attachment[a].node = n, Spare(n, v),
           ReleaseAttachment(a, v), UNCHANGED device
    PROVE  /\ ServiceInv(v)' /\ Others(v) /\ SameDevices(v)
           /\ Held(v)' = Held(v) \ {a} /\ Listed(v)' = Listed(v) \ {a}
           /\ \A b \in Held(v) \ {a} : attachment'[b] = attachment[b]
           /\ \A b \in Held(v)' : attachment'[b].server # None
<1> USE ClusterAssumption DEF CinderTypeOK
<1>1. /\ attachment'[a] = NoAttachment
      /\ \A b \in Attachments \ {a} : attachment'[b] = attachment[b]
      /\ \A u \in Volumes \ {v} : status'[u] = status[u]
      /\ a \in Held(v)
  BY DEF ReleaseAttachment
<1>2. Held(v)' = Held(v) \ {a} /\ Listed(v)' = Listed(v) \ {a}
  BY <1>1 DEF Held, Listed, NoAttachment
<1>3. \A m \in Nodes, u \in Volumes : Mapped(m, u)' = Mapped(m, u)
  BY DEF Mapped
<1>4. Others(v)
  <2>1. ASSUME NEW u \in Volumes \ {v}
        PROVE  Held(u)' = Held(u) /\ \A b \in Held(u) : attachment'[b] = attachment[b]
    BY <1>1 DEF Held, NoAttachment
  <2> QED BY <1>1, <1>3, <2>1 DEF Others
<1>5. HeldOn(n, v)' = HeldOn(n, v) \ {a} /\ a \in HeldOn(n, v)
  BY <1>1, <1>2 DEF HeldOn, Held
<1>6. ASSUME NEW m \in Nodes \ {n}
      PROVE  HeldOn(m, v)' = HeldOn(m, v)
  BY <1>1, <1>2 DEF HeldOn, Held
<1>7. Cardinality(HeldOn(n, v)') = Cardinality(HeldOn(n, v)) - 1
  <2>1. Cardinality(HeldOn(n, v) \ {a}) = Cardinality(HeldOn(n, v)) - 1
    BY <1>5, OneLess
  <2> QED BY <1>5, <2>1
<1>8. Covered(v)'
  BY <1>3, <1>6, <1>7, Finite DEF Covered, Spare, ServiceInv
<1>9. \A b \in Held(v)' : attachment'[b].server # None
  BY <1>1, <1>2 DEF ServiceInv, Held
<1>10. status'[v] \in {"in-use", "detaching"} => Listed(v)' # {}
  BY <1>2 DEF ReleaseAttachment
<1>11. ServiceInv(v)'
  BY <1>8, <1>9, <1>10 DEF ServiceInv
<1> QED BY <1>1, <1>2, <1>3, <1>4, <1>9, <1>11 DEF SameDevices, Held

\* The bridge connects a device for an attachment that has none yet.
LEMMA ConnectEffect ==
    ASSUME IsFiniteSet(Attachments), IsFiniteSet(Paths), BridgeTypeOK,
           NEW v \in Volumes, NEW n \in Nodes, NEW p \in Paths, ServiceInv(v), Spare(n, v),
           Connect(n, v, p), UNCHANGED <<status, attachment>>
    PROVE  /\ ServiceInv(v)' /\ Others(v) /\ SameHeld(v) /\ Listed(v)' = Listed(v)
           /\ Mapped(n, v)' # {} /\ \A m \in Nodes \ {n} : Mapped(m, v)' = Mapped(m, v)
           /\ \A m \in Nodes : Mapped(m, v) # {} => Mapped(m, v)' # {}
<1> USE ClusterAssumption DEF BridgeTypeOK
<1>1. Mapped(n, v)' = Mapped(n, v) \cup {p}
  BY DEF Connect, Mapped
<1>2. /\ \A m \in Nodes \ {n}, u \in Volumes : Mapped(m, u)' = Mapped(m, u)
      /\ \A u \in Volumes \ {v} : Mapped(n, u)' = Mapped(n, u)
  BY DEF Connect, Mapped
<1>3. Others(v) /\ SameHeld(v) /\ Listed(v)' = Listed(v)
  BY <1>2 DEF Others, SameHeld, Held, Listed
<1>4. \A m \in Nodes : HeldOn(m, v)' = HeldOn(m, v)
  BY DEF HeldOn, Held
<1>5. Cardinality(Mapped(n, v)') <= Cardinality(Mapped(n, v)) + 1
  <2>1. Cardinality(Mapped(n, v)') \in {Cardinality(Mapped(n, v)), Cardinality(Mapped(n, v)) + 1}
    <3>1. IsFiniteSet(Mapped(n, v))
      BY Finite
    <3> QED BY <1>1, <3>1, FS_AddElement
  <2>2. Cardinality(Mapped(n, v)) \in Nat
    BY Finite
  <2> QED BY <2>1, <2>2
<1>6. Cardinality(Mapped(n, v)') \in Nat
  <2>1. IsFiniteSet(Mapped(n, v)')
    BY <1>1, Finite, FS_AddElement
  <2> QED BY <2>1, FS_CardinalityType
<1>7. Covered(v)'
  BY <1>2, <1>4, <1>5, <1>6, Finite DEF Covered, Spare, ServiceInv
<1>8. ServiceInv(v)'
  BY <1>3, <1>7 DEF ServiceInv, SameHeld
<1> QED BY <1>1, <1>2, <1>3, <1>8

\* A disconnection leaves an attachment of the node to spare.
LEMMA DisconnectEffect ==
    ASSUME IsFiniteSet(Attachments), IsFiniteSet(Paths), BridgeTypeOK,
           NEW v \in Volumes, NEW n \in Nodes, ServiceInv(v), HeldOn(n, v) # {},
           Disconnect(n, v), UNCHANGED <<status, attachment>>
    PROVE  /\ ServiceInv(v)' /\ Others(v) /\ SameHeld(v) /\ Listed(v)' = Listed(v)
           /\ Spare(n, v)' /\ \A m \in Nodes : Mapped(m, v)' \subseteq Mapped(m, v)
<1> USE ClusterAssumption DEF BridgeTypeOK
<1>2. /\ \A m \in Nodes \ {n}, u \in Volumes : Mapped(m, u)' = Mapped(m, u)
      /\ \A u \in Volumes \ {v} : Mapped(n, u)' = Mapped(n, u)
  BY DEF Disconnect, Mapped
<1>3. Others(v) /\ SameHeld(v) /\ Listed(v)' = Listed(v)
  BY <1>2 DEF Others, SameHeld, Held, Listed
<1>4. \A m \in Nodes : HeldOn(m, v)' = HeldOn(m, v)
  BY DEF HeldOn, Held
<1>5. Spare(n, v)' /\ Mapped(n, v)' \subseteq Mapped(n, v)
  <2>1. CASE \E p \in Mapped(n, v) : device' = [device EXCEPT ![n][p] = None]
    <3>1. PICK p \in Mapped(n, v) : device' = [device EXCEPT ![n][p] = None]
      BY <2>1
    <3>2. Mapped(n, v)' = Mapped(n, v) \ {p}
      BY <3>1 DEF Mapped
    <3>3. Cardinality(Mapped(n, v)') = Cardinality(Mapped(n, v)) - 1
      BY <3>2, Finite, FS_RemoveElement
    <3> QED BY <1>4, <3>2, <3>3, Finite DEF Spare, Covered, ServiceInv
  <2>2. CASE Mapped(n, v) = {} /\ UNCHANGED device
    <3>1. Mapped(n, v)' = {}
      BY <2>2 DEF Mapped
    <3>2. Cardinality(HeldOn(n, v)) # 0
      BY Finite, FS_EmptySet
    <3> QED BY <1>4, <3>1, <3>2, Finite, FS_EmptySet DEF Spare
  <2> QED BY <2>1, <2>2 DEF Disconnect
<1>6. Covered(v)'
  <2>1. Cardinality(Mapped(n, v)') \in Nat
    <3>1. IsFiniteSet(Mapped(n, v)')
      BY <1>5, Finite, FS_Subset
    <3> QED BY <3>1, FS_CardinalityType
  <2>2. Cardinality(Mapped(n, v)') <= Cardinality(HeldOn(n, v)')
    BY <1>4, <1>5, <2>1, Finite DEF Spare
  <2>3. ASSUME NEW m \in Nodes \ {n}
        PROVE  Cardinality(Mapped(m, v)') <= Cardinality(HeldOn(m, v)')
    BY <1>2, <1>4 DEF Covered, ServiceInv
  <2> QED BY <2>2, <2>3 DEF Covered
<1>7. ServiceInv(v)'
  BY <1>3, <1>6 DEF ServiceInv, SameHeld
<1> QED BY <1>2, <1>3, <1>5, <1>7

-----------------------------------------------------------------------------
(* The steps of a handler *)

\* What a handler may rely on.
LEMMA HandlerFacts ==
    ASSUME DetachInv, NEW c \in Calls, call[c].pc # "idle"
    PROVE  /\ call[c].volume \in Volumes /\ call[c].waiting /\ SlotInv(c)
           /\ ServiceInv(call[c].volume) /\ ViewInv(call[c].volume)
           /\ pv[call[c].volume].phase # "attached"
           /\ call[c].pc \in PublishPC \cup UnpublishPC => call[c].node \in Nodes
           /\ call[c].pc \in Requests /\ call[c] \in CallFields
<1>1. call[c] \in CallRecord
  BY DEF DetachInv, TypeOK
<1>2. call[c].volume \in Volumes /\ SlotInv(c) /\ call[c].pc \in Requests
  BY <1>1 DEF DetachInv, CallRecord, CallFields
<1> QED BY <1>1, <1>2 DEF DetachInv, CallRecord, SlotInv, Requests

\* The three ways in which a handler leaves its request.
LEMMA AnswerFacts ==
    ASSUME DetachInv, NEW c \in Calls, call[c].pc # "idle", NEW view, Answer(c, view)
    PROVE  /\ call'[c] = Idle /\ \A d \in Calls \ {c} : call'[d] = call[d]
           /\ pv'[call[c].volume] = view
           /\ \A u \in Volumes \ {call[c].volume} : pv'[u] = pv[u]
<1>1. call[c].volume \in Volumes /\ call[c].waiting
  BY HandlerFacts
<1> QED BY <1>1 DEF DetachInv, TypeOK, Answer

LEMMA FailFacts ==
    ASSUME DetachInv, NEW c \in Calls, call[c].pc # "idle", Fail(c)
    PROVE  call'[c] = Idle /\ (\A d \in Calls \ {c} : call'[d] = call[d]) /\ UNCHANGED pv
<1>1. call[c].volume \in Volumes /\ call[c].waiting
  BY HandlerFacts
<1> QED BY <1>1 DEF DetachInv, TypeOK, Fail, Answer

\* A handler goes on with its call at the request pc.
Resumes(c, pc) ==
    /\ call'[c].pc = pc /\ call'[c].volume = call[c].volume /\ call'[c].node = call[c].node
    /\ call'[c].waiting = call[c].waiting
    /\ \A d \in Calls \ {c} : call'[d] = call[d]
    /\ UNCHANGED pv

LEMMA GotoFacts ==
    ASSUME DetachInv, NEW c \in Calls, NEW pc, Goto(c, pc), UNCHANGED pv, call[c].pc # "idle"
    PROVE  Resumes(c, pc) /\ call'[c].att = call[c].att
<1>1. call \in [Calls -> CallRecord] /\ call[c] \in CallFields
  BY HandlerFacts DEF DetachInv, TypeOK
<1> QED BY <1>1 DEF Goto, Resumes, CallFields

LEMMA PollFacts ==
    ASSUME DetachInv, NEW c \in Calls, NEW steps, Poll(c, steps), call[c].pc # "idle"
    PROVE  Fail(c) \/ (Resumes(c, call[c].pc) /\ call'[c].att = call[c].att)
<1>1. call \in [Calls -> CallRecord] /\ call[c] \in CallFields
  BY HandlerFacts DEF DetachInv, TypeOK
<1> QED BY <1>1 DEF Poll, Resumes, CallFields

\* A step of a call of a volume that no other call is about.
LEMMA VolumeStep ==
    ASSUME DetachInv, TypeOK', SingleNodeInv', NEW c \in Calls, NEW v \in Volumes, Others(v),
           \A d \in Calls \ {c} : call[d].pc # "idle" => call[d].volume # v,
           \A u \in Volumes \ {v} : pv'[u] = pv[u],
           \A d \in Calls \ {c} : call'[d] = call[d],
           call'[c] = Idle \/ (call'[c].volume = v /\ SlotInv(c)'),
           ServiceInv(v)', ViewInv(v)'
    PROVE  DetachInv'
<1>1. \A d \in Calls \ {c} : call[d].pc # "idle" => call[d].volume # v
  OBVIOUS
<1>2. ASSUME NEW d \in Calls
      PROVE  SlotInv(d)'
  <2>1. CASE d = c
    BY <2>1, IdleType DEF SlotInv
  <2>2. CASE d # c /\ call[d].pc # "idle"
    <3>1. PICK u \in Volumes \ {v} : u = call[d].volume
      BY <1>1, <2>2, HandlerFacts
    <3>2. PICK n : n = call[d].node
      OBVIOUS
    <3>3. call'[d] = call[d] /\ pv'[u] = pv[u] /\ SlotInv(d)
      BY <2>2, <3>1, HandlerFacts
    <3>4. /\ status'[u] = status[u] /\ Held(u)' = Held(u)
          /\ \A a \in Held(u) : attachment'[a] = attachment[a]
          /\ \A m \in Nodes : Mapped(m, u)' = Mapped(m, u) /\ HeldOn(m, u)' = HeldOn(m, u)
      BY SameOthers DEF Others
    <3>5. call[d].pc \in PublishPC \cup UnpublishPC => n \in Nodes
      BY <2>2, <3>2, HandlerFacts
    <3>6. Own(d) => Own(d)'
      BY <3>1, <3>3, <3>4 DEF Own
    <3>7. n \in Nodes /\ Spare(n, u) => Spare(n, u)'
      BY <3>4 DEF Spare
    <3> QED BY <3>1, <3>2, <3>3, <3>4, <3>5, <3>6, <3>7
            DEF SlotInv, PublishPC, UnpublishPC
  <2>3. CASE d # c /\ call[d].pc = "idle"
    BY <2>3 DEF SlotInv
  <2> QED BY <2>1, <2>2, <2>3
<1>3. ASSUME NEW u \in Volumes
      PROVE  ServiceInv(u)' /\ ViewInv(u)'
  <2>1. CASE u = v
    BY <2>1
  <2>2. CASE u # v
    <3>1. ServiceInv(u)' /\ Listed(u)' = Listed(u)
      BY <2>2, SameOthers DEF DetachInv
    <3>2. /\ status'[u] = status[u] /\ pv'[u] = pv[u]
          /\ \A a \in Listed(u) : attachment'[a] = attachment[a]
          /\ \A m \in Nodes : Mapped(m, u)' = Mapped(m, u)
      BY <2>2 DEF Others, Listed
    <3>3. pv[u].phase = "attached" => pv[u].node \in Nodes
      BY DEF DetachInv, TypeOK, Views
    <3>4. ViewInv(u)
      BY DEF DetachInv
    <3>5. PICK n : n = pv[u].node
      OBVIOUS
    <3>6. n \in Nodes => Mapped(n, u)' = Mapped(n, u)
      BY <3>2
    <3> QED BY <3>1, <3>2, <3>3, <3>4, <3>5, <3>6 DEF ViewInv
  <2> QED BY <2>1, <2>2
<1>4. OneHandler'
  <2> SUFFICES ASSUME NEW d \in Calls, NEW e \in Calls, call'[d].pc # "idle",
                      call'[e].pc # "idle", call'[d].volume = call'[e].volume, d # e
               PROVE  FALSE
    BY DEF OneHandler
  <2>1. CASE d = c
    BY <1>1, <2>1, IdleType
  <2>2. CASE e = c
    BY <1>1, <2>2, IdleType
  <2>3. CASE d # c /\ e # c
    BY <2>3 DEF DetachInv, OneHandler
  <2> QED BY <2>1, <2>2, <2>3
<1> QED BY <1>2, <1>3, <1>4 DEF DetachInv

LEMMA LocalStep ==
    ASSUME DetachInv, TypeOK', SingleNodeInv', NEW c \in Calls, call[c].pc # "idle",
           NEW v \in Volumes, v = call[c].volume, Others(v),
           \A u \in Volumes \ {v} : pv'[u] = pv[u],
           \A d \in Calls \ {c} : call'[d] = call[d],
           call'[c] = Idle \/ (call'[c].volume = v /\ SlotInv(c)'),
           ServiceInv(v)', ViewInv(v)'
    PROVE  DetachInv'
<1>1. \A d \in Calls \ {c} : call[d].pc # "idle" => call[d].volume # v
  BY DEF DetachInv, OneHandler
<1> QED BY <1>1, VolumeStep

\* A handler that returns with an error leaves the view of the sidecars alone.
LEMMA FailStep ==
    ASSUME DetachInv, TypeOK', SingleNodeInv', NEW c \in Calls, call[c].pc # "idle", Fail(c),
           NEW v \in Volumes, v = call[c].volume, Others(v), ServiceInv(v)', ViewInv(v)'
    PROVE  DetachInv'
  BY FailFacts, LocalStep

\* A request that reads leaves what is known of the volume alone.
LEMMA ReadStep ==
    ASSUME DetachInv, NEW c \in Calls, call[c].pc # "idle", UNCHANGED <<status, attachment, device>>,
           NEW v \in Volumes, v = call[c].volume
    PROVE  /\ ServiceInv(v)' /\ Others(v) /\ SameDevices(v) /\ SameHeld(v)
           /\ Listed(v)' = Listed(v)
           /\ pv'[v] = pv[v] => ViewInv(v)'
           /\ Own(c) /\ call'[c].att = call[c].att /\ call'[c].volume = v
                /\ call'[c].node = call[c].node => Own(c)'
           /\ \A n \in Nodes : Spare(n, v)' = Spare(n, v)
<1>1. CinderTypeOK /\ ServiceInv(v) /\ ViewInv(v) /\ pv[v].phase # "attached"
  BY HandlerFacts DEF DetachInv, TypeOK
<1>2. /\ ServiceInv(v)' /\ Others(v) /\ SameDevices(v) /\ SameHeld(v)
      /\ Listed(v)' = Listed(v)
  BY <1>1, StatusEffect
<1>3. pv'[v] = pv[v] => ViewInv(v)'
  BY <1>1, <1>2 DEF ViewInv
<1>4. \A n \in Nodes : Spare(n, v)' = Spare(n, v)
  BY DEF Spare, Mapped, HeldOn, Held
<1>5. Own(c) /\ call'[c].att = call[c].att /\ call'[c].volume = v
         /\ call'[c].node = call[c].node => Own(c)'
  BY <1>2 DEF Own, SameHeld
<1> QED BY <1>2, <1>3, <1>4, <1>5

\* The requests of a publishing handler that ask nothing of Cinder but to read.
LEMMA PublishReads ==
    ASSUME DetachInv, TypeOK', SingleNodeInv', NEW c \in Calls,
           GetVolume(c) \/ WaitAttached(c) \/ GetPath(c)
    PROVE  DetachInv'
<1> USE DEF backend
<1>0. call[c].pc # "idle" /\ call[c].pc \in {"getVolume", "waitAttached", "getPath"}
      /\ UNCHANGED <<status, attachment, device>>
  BY DEF GetVolume, WaitAttached, GetPath
<1>1. PICK v \in Volumes, n \in Nodes : v = call[c].volume /\ n = call[c].node
  BY <1>0, HandlerFacts DEF PublishPC
<1>2. /\ SlotInv(c) /\ ServiceInv(v) /\ ViewInv(v) /\ call[c].waiting
      /\ pv[v].phase = "attaching" /\ pv[v].node = n
  BY <1>0, <1>1, HandlerFacts DEF SlotInv, PublishPC
<1>3. /\ ServiceInv(v)' /\ Others(v) /\ SameDevices(v) /\ SameHeld(v)
      /\ Listed(v)' = Listed(v) /\ (pv'[v] = pv[v] => ViewInv(v)')
  BY <1>0, <1>1, ReadStep
<1>4. ASSUME Fail(c) PROVE DetachInv'
  BY <1>0, <1>1, <1>3, <1>4, FailStep, FailFacts
<1>5. ASSUME NEW pc \in {"createAttachment", "waitAttached", "getPath"}, Resumes(c, pc),
             pc # "createAttachment" => Mapped(n, v) # {}
      PROVE  DetachInv'
  <2>1. SlotInv(c)'
    BY <1>1, <1>2, <1>3, <1>5
       DEF SlotInv, Resumes, PublishPC, UnpublishPC, DeletePC, SameDevices
  <2> QED BY <1>0, <1>1, <1>3, <1>5, <2>1, LocalStep DEF Resumes
<1>6. CASE GetVolume(c)
  <2>1. CASE Fail(c)
    BY <2>1, <1>4
  <2>2. CASE \E s : /\ call' = [call EXCEPT ![c] =
                                   [@ EXCEPT !.pc = "createAttachment", !.server = s]]
                    /\ UNCHANGED pv
    <3>1. call \in [Calls -> CallRecord] /\ call[c] \in CallFields
      BY <1>0, HandlerFacts DEF DetachInv, TypeOK
    <3>2. Resumes(c, "createAttachment")
      BY <2>2, <3>1 DEF Resumes, CallFields
    <3> QED BY <3>2, <1>5
  <2> QED BY <1>6, <2>1, <2>2 DEF GetVolume
<1>7. CASE WaitAttached(c)
  <2>0. Mapped(n, v) # {}
    BY <1>1, <1>2, <1>7 DEF SlotInv, WaitAttached
  <2>1. CASE Goto(c, "getPath") /\ UNCHANGED pv
    BY <1>0, <2>0, <2>1, <1>5, GotoFacts
  <2>2. CASE Poll(c, AttachSteps)
    <3>1. Fail(c) \/ Resumes(c, "waitAttached")
      BY <1>0, <1>7, <2>2, PollFacts DEF WaitAttached
    <3> QED BY <2>0, <3>1, <1>4, <1>5
  <2> QED BY <1>7, <2>1, <2>2 DEF WaitAttached
<1>8. CASE GetPath(c)
  <2>1. CASE Fail(c)
    BY <2>1, <1>4
  <2>2. CASE ~Fail(c)
    <3>1. PICK a \in OwnListed(c) :
             Answer(c, [phase |-> "attached", node |-> n, path |-> attachment[a].path])
      BY <1>1, <1>8, <2>2 DEF GetPath
    <3>2. status[v] = "in-use" /\ Mapped(n, v) # {}
      BY <1>1, <1>2, <1>8, <2>2 DEF GetPath, SlotInv
    <3>3. /\ pv'[v].phase = "attached" /\ pv'[v].node = n /\ call'[c] = Idle
          /\ \A d \in Calls \ {c} : call'[d] = call[d]
          /\ \A u \in Volumes \ {v} : pv'[u] = pv[u]
      BY <1>0, <1>1, <3>1, AnswerFacts
    <3>4. a \in Listed(v) /\ attachment[a].server # None
      BY <1>1, <3>1, ControllerAssumption DEF OwnListed
    <3>5. \A b \in Listed(v) : attachment[b].server # None
      BY <1>2, <3>4 DEF ServiceInv, Listed
    <3>6. status'[v] = status[v] /\ attachment' = attachment /\ Mapped(n, v)' = Mapped(n, v)
      BY <1>0, <1>3 DEF SameDevices
    <3>7. ViewInv(v)'
      BY <1>2, <1>3, <3>2, <3>3, <3>5, <3>6 DEF ViewInv
    <3> QED BY <1>0, <1>1, <1>3, <3>3, <3>7, LocalStep
  <2> QED BY <2>1, <2>2
<1> QED BY <1>6, <1>7, <1>8

\* The requests of a publishing handler that change something.
LEMMA PublishWrites ==
    ASSUME IsFiniteSet(Attachments), IsFiniteSet(Paths),
           DetachInv, TypeOK', SingleNodeInv', NEW c \in Calls,
           \/ Create(c) \/ ConnectVolume(c) \/ Update(c) \/ Complete(c)
           \/ UndoConnect(c) \/ UndoCreate(c)
    PROVE  DetachInv'
<1>0. call[c].pc # "idle" /\ call[c].pc \in PublishPC
  BY DEF Create, ConnectVolume, Update, Complete, UndoConnect, UndoCreate, PublishPC
<1>1. PICK v \in Volumes, n \in Nodes : v = call[c].volume /\ n = call[c].node
  BY <1>0, HandlerFacts
<1>2. /\ SlotInv(c) /\ ServiceInv(v) /\ ViewInv(v) /\ call[c].waiting
      /\ pv[v].phase = "attaching" /\ pv[v].node = n
  BY <1>0, <1>1, HandlerFacts DEF SlotInv
<1>3. /\ CinderTypeOK /\ BridgeTypeOK /\ FreeUnheld
      /\ call \in [Calls -> CallRecord] /\ call[c] \in CallFields
  BY <1>0, HandlerFacts DEF DetachInv, SingleNodeInv, TypeOK
<1>4. ASSUME NEW pc \in {"connect", "update", "complete", "waitAttached", "undoCreate"},
             Resumes(c, pc), Others(v), ServiceInv(v)',
             \A a \in Listed(v)' : attachment'[a].node = n,
             pc # "waitAttached" => Own(c)',
             pc \in {"connect", "undoCreate"} => Spare(n, v)',
             pc \in {"update", "complete", "waitAttached"} => Mapped(n, v)' # {}
      PROVE  DetachInv'
  <2>1. ViewInv(v)'
    BY <1>2, <1>4 DEF ViewInv, Resumes
  <2>2. SlotInv(c)'
    BY <1>1, <1>2, <1>4 DEF SlotInv, Resumes, PublishPC, UnpublishPC, DeletePC
  <2> QED BY <1>0, <1>1, <1>4, <2>1, <2>2, LocalStep DEF Resumes
<1>5. ASSUME SameHeld(v), Own(c), call'[c].volume = v, call'[c].node = n,
             call'[c].att = call[c].att
      PROVE  Own(c)'
  BY <1>1, <1>5 DEF Own, SameHeld
<1>6. \A a \in Listed(v) : attachment[a].node = n /\ a \in Held(v)
  BY <1>2 DEF ViewInv, Listed
<1>7. CASE Create(c)
  <2>1. PICK a \in Attachments :
           /\ CreateAttachment(a, v, n, call[c].server)
           /\ call' = [call EXCEPT ![c] = [@ EXCEPT !.pc = "connect", !.att = a]]
    BY <1>1, <1>7 DEF Create
  <2>2. Resumes(c, "connect") /\ call'[c].att = a
    BY <1>3, <1>7, <2>1 DEF Resumes, CallFields, Create
  <2>3. /\ ServiceInv(v)' /\ Others(v) /\ a \in Held(v)' /\ attachment'[a].node = n
        /\ Spare(n, v)' /\ Listed(v)' = Listed(v)
        /\ \A b \in Held(v) : attachment'[b] = attachment[b]
    <3>1. PICK s \in Servers \cup {None} : s = call[c].server
      BY <1>3 DEF CallFields
    <3>2. CreateAttachment(a, v, n, s) /\ UNCHANGED device
      BY <1>7, <2>1, <3>1 DEF Create
    <3> QED BY <1>2, <1>3, <3>2, CreateEffect
  <2>4. Own(c)'
    BY <1>1, <2>2, <2>3 DEF Own, Resumes
  <2> QED BY <1>4, <1>6, <2>2, <2>3, <2>4
<1>8. CASE ConnectVolume(c)
  <2>1. PICK p \in Paths :
           /\ Connect(n, v, p)
           /\ call' = [call EXCEPT ![c] = [@ EXCEPT !.pc = "update", !.path = p]]
    BY <1>1, <1>8 DEF ConnectVolume
  <2>2. Resumes(c, "update") /\ call'[c].att = call[c].att
    BY <1>3, <1>8, <2>1 DEF Resumes, CallFields, ConnectVolume
  <2>3. Own(c) /\ Spare(n, v)
    BY <1>1, <1>2, <1>8 DEF SlotInv, ConnectVolume
  <2>4. /\ ServiceInv(v)' /\ Others(v) /\ SameHeld(v) /\ Listed(v)' = Listed(v)
        /\ Mapped(n, v)' # {}
    BY <1>2, <1>3, <1>8, <2>1, <2>3, ConnectEffect DEF ConnectVolume
  <2>5. Own(c)'
    BY <1>1, <1>5, <2>2, <2>3, <2>4 DEF Resumes
  <2> QED BY <1>4, <1>6, <2>2, <2>4, <2>5 DEF SameHeld
<1>9. CASE Update(c)
  <2>1. Resumes(c, "complete") /\ call'[c].att = call[c].att
    BY <1>0, <1>9, GotoFacts DEF Update
  <2>2. Own(c) /\ Mapped(n, v) # {} /\ call[c].att \in Attachments
    BY <1>1, <1>2, <1>9 DEF SlotInv, Update, Own, Held
  <2>3. /\ ServiceInv(v)' /\ Others(v) /\ SameDevices(v) /\ SameHeld(v)
        /\ Listed(v)' \subseteq Listed(v)
    BY <1>1, <1>2, <1>3, <1>9, <2>2, UpdateEffect DEF Update
  <2>4. Own(c)'
    BY <1>1, <1>5, <2>1, <2>2, <2>3 DEF Resumes
  <2>5. Mapped(n, v)' # {} /\ \A a \in Listed(v)' : attachment'[a].node = n
    BY <1>6, <2>2, <2>3 DEF SameDevices, SameHeld
  <2> QED BY <1>4, <2>1, <2>3, <2>4, <2>5
<1>10. CASE Complete(c)
  <2>1. Resumes(c, "waitAttached") /\ call'[c].att = call[c].att
    BY <1>3, <1>10 DEF Complete, Resumes, CallFields
  <2>2. Own(c) /\ Mapped(n, v) # {} /\ call[c].att \in Attachments
    BY <1>1, <1>2, <1>10 DEF SlotInv, Complete, Own, Held
  <2>3. /\ ServiceInv(v)' /\ Others(v) /\ SameDevices(v) /\ SameHeld(v)
        /\ Listed(v)' = Listed(v) \cup {call[c].att}
    BY <1>1, <1>2, <1>3, <1>10, <2>2, CompleteEffect DEF Complete
  <2>4. Mapped(n, v)' # {} /\ \A a \in Listed(v)' : attachment'[a].node = n
    BY <1>1, <1>6, <2>2, <2>3 DEF SameDevices, SameHeld, Own
  <2> QED BY <1>4, <2>1, <2>3, <2>4
<1>11. CASE UndoConnect(c)
  <2>1. Resumes(c, "undoCreate") /\ call'[c].att = call[c].att
    BY <1>0, <1>11, GotoFacts DEF UndoConnect
  <2>2. Own(c) /\ HeldOn(n, v) # {}
    BY <1>1, <1>2, <1>11 DEF SlotInv, UndoConnect, Own, HeldOn
  <2>3. /\ ServiceInv(v)' /\ Others(v) /\ SameHeld(v) /\ Listed(v)' = Listed(v)
        /\ Spare(n, v)'
    BY <1>1, <1>2, <1>3, <1>11, <2>2, DisconnectEffect DEF UndoConnect
  <2>4. Own(c)'
    BY <1>1, <1>5, <2>1, <2>2, <2>3 DEF Resumes
  <2> QED BY <1>4, <1>6, <2>1, <2>3, <2>4 DEF SameHeld
<1>12. CASE UndoCreate(c)
  <2>1. Own(c) /\ Spare(n, v) /\ call[c].att \in Attachments
    BY <1>1, <1>2, <1>12 DEF SlotInv, UndoCreate, Own, Held
  <2>2. /\ ServiceInv(v)' /\ Others(v) /\ Listed(v)' = Listed(v) \ {call[c].att}
        /\ \A b \in Held(v) \ {call[c].att} : attachment'[b] = attachment[b]
    BY <1>1, <1>2, <1>3, <1>12, <2>1, ReleaseEffect DEF UndoCreate, Own
  <2>3. pv' = pv
    BY <1>0, <1>12, FailFacts DEF UndoCreate
  <2>4. ViewInv(v)'
    BY <1>2, <1>6, <2>2, <2>3 DEF ViewInv
  <2> QED BY <1>0, <1>1, <1>12, <2>2, <2>4, FailStep DEF UndoCreate
<1> QED BY <1>7, <1>8, <1>9, <1>10, <1>11, <1>12

\* A handler that detaches.
LEMMA UnpublishSteps ==
    ASSUME IsFiniteSet(Attachments), IsFiniteSet(Paths),
           DetachInv, TypeOK', SingleNodeInv', NEW c \in Calls, Unpublish(c)
    PROVE  DetachInv'
<1> USE DEF backend
<1>0. call[c].pc # "idle" /\ call[c].pc \in UnpublishPC
  BY DEF Unpublish, Begin, ReadAttachments, GetAttachment, DisconnectVolume, Release,
         WaitDetached, UnpublishPC
<1>1. PICK v \in Volumes, n \in Nodes : v = call[c].volume /\ n = call[c].node
  BY <1>0, HandlerFacts
<1>2. /\ SlotInv(c) /\ ServiceInv(v) /\ ViewInv(v) /\ call[c].waiting
      /\ pv[v].phase = "detaching" /\ pv[v].node = n
  BY <1>0, <1>1, HandlerFacts DEF SlotInv
<1>3. /\ CinderTypeOK /\ BridgeTypeOK /\ FreeUnheld /\ OwnServer
      /\ call \in [Calls -> CallRecord] /\ call[c] \in CallFields
  BY <1>0, HandlerFacts DEF DetachInv, SingleNodeInv, TypeOK
<1>4. ASSUME NEW pc \in UnpublishPC, Resumes(c, pc), Others(v), ServiceInv(v)',
             \A a \in Listed(v)' : attachment'[a].node = n,
             pc \in {"getAttachment", "disconnect", "release"} => Own(c)',
             pc = "release" => Spare(n, v)',
             pc = "readAttachments" => status'[v] = "detaching",
             pc = "waitDetached" => \A a \in Held(v)' : attachment'[a].server # None
      PROVE  DetachInv'
  <2>1. ViewInv(v)'
    BY <1>2, <1>4 DEF ViewInv, Resumes
  <2>2. SlotInv(c)'
    BY <1>1, <1>2, <1>4 DEF SlotInv, Resumes, PublishPC, UnpublishPC, DeletePC
  <2> QED BY <1>0, <1>1, <1>4, <2>1, <2>2, LocalStep DEF Resumes
<1>5. ASSUME Answer(c, Detached), Listed(v) = {}, UNCHANGED <<status, attachment, device>>
      PROVE  DetachInv'
  <2>1. /\ call'[c] = Idle /\ \A d \in Calls \ {c} : call'[d] = call[d]
        /\ pv'[v] = Detached /\ \A u \in Volumes \ {v} : pv'[u] = pv[u]
    BY <1>0, <1>1, <1>5, AnswerFacts
  <2>2. ServiceInv(v)' /\ Others(v) /\ Listed(v)' = Listed(v)
    BY <1>0, <1>1, <1>5, ReadStep
  <2>3. ViewInv(v)'
    BY <1>5, <2>1, <2>2 DEF ViewInv, Detached
  <2> QED BY <1>0, <1>1, <2>1, <2>2, <2>3, LocalStep
<1>6. /\ \A a \in Listed(v) : attachment[a].node = n /\ a \in Held(v)
      /\ Deleted(c) => Listed(v) = {}
  BY <1>1, <1>2, <1>3 DEF ViewInv, Listed, Deleted, FreeUnheld, Unused
<1>7. CASE Begin(c)
  <2>1. CASE BeginDetaching(v) /\ Goto(c, "readAttachments") /\ UNCHANGED pv
    <3>1. Resumes(c, "readAttachments")
      BY <1>0, <2>1, GotoFacts
    <3>2. /\ ServiceInv(v)' /\ Others(v) /\ Listed(v)' = Listed(v) /\ SameHeld(v)
          /\ status'[v] = "detaching"
      BY <1>2, <1>3, <1>7, <2>1, StatusEffect DEF Begin, BeginDetaching, CinderTypeOK
    <3> QED BY <1>4, <1>6, <3>1, <3>2 DEF UnpublishPC, SameHeld
  <2>2. CASE Deleted(c) /\ Answer(c, Detached) /\ UNCHANGED <<status, attachment>>
    BY <1>5, <1>6, <1>7, <2>2 DEF Begin
  <2> QED BY <1>1, <1>7, <2>1, <2>2 DEF Begin
<1>8. CASE ReadAttachments(c)
  <2>0. status[v] = "detaching" /\ Listed(v) # {} /\ UNCHANGED <<status, attachment, device>>
    BY <1>1, <1>2, <1>8 DEF SlotInv, ServiceInv, ReadAttachments
  <2>1. PICK a \in Listed(v) :
           /\ call' = [call EXCEPT ![c] = [@ EXCEPT !.pc = "getAttachment", !.att = a]]
           /\ UNCHANGED pv
    BY <1>1, <1>8, <2>0 DEF ReadAttachments, Deleted
  <2>2. Resumes(c, "getAttachment") /\ call'[c].att = a
    BY <1>3, <2>1 DEF Resumes, CallFields
  <2>3. ServiceInv(v)' /\ Others(v) /\ Listed(v)' = Listed(v) /\ SameHeld(v)
    BY <1>0, <1>1, <2>0, ReadStep
  <2>4. Own(c)'
    BY <1>1, <1>6, <2>1, <2>2, <2>3 DEF Own, Resumes, SameHeld
  <2> QED BY <1>4, <1>6, <2>2, <2>3, <2>4 DEF UnpublishPC, SameHeld
<1>9. CASE GetAttachment(c)
  <2>0. Own(c) /\ UNCHANGED <<status, attachment, device>>
    BY <1>2, <1>9 DEF SlotInv, GetAttachment
  <2>1. Resumes(c, "disconnect") /\ call'[c].att = call[c].att
    BY <1>0, <1>9, <2>0, GotoFacts DEF GetAttachment, Own
  <2>2. ServiceInv(v)' /\ Others(v) /\ Listed(v)' = Listed(v) /\ SameHeld(v) /\ Own(c)'
    BY <1>0, <1>1, <2>0, <2>1, ReadStep DEF Resumes
  <2> QED BY <1>4, <1>6, <2>1, <2>2 DEF UnpublishPC, SameHeld
<1>10. CASE DisconnectVolume(c)
  <2>1. Resumes(c, "release") /\ call'[c].att = call[c].att
    BY <1>0, <1>10, GotoFacts DEF DisconnectVolume
  <2>2. Own(c) /\ HeldOn(n, v) # {}
    BY <1>1, <1>2, <1>10 DEF SlotInv, DisconnectVolume, Own, HeldOn
  <2>3. /\ ServiceInv(v)' /\ Others(v) /\ SameHeld(v) /\ Listed(v)' = Listed(v)
        /\ Spare(n, v)'
    BY <1>1, <1>2, <1>3, <1>10, <2>2, DisconnectEffect DEF DisconnectVolume
  <2>4. Own(c)'
    BY <1>1, <2>1, <2>2, <2>3 DEF Own, SameHeld, Resumes
  <2> QED BY <1>4, <1>6, <2>1, <2>3, <2>4 DEF UnpublishPC, SameHeld
<1>11. CASE Release(c)
  <2>1. Own(c) /\ Spare(n, v) /\ call[c].att \in Attachments
    BY <1>1, <1>2, <1>11 DEF SlotInv, Release, Own, Held
  <2>2. /\ ReleaseAttachment(call[c].att, v) /\ UNCHANGED pv
        /\ call' = [call EXCEPT ![c] = [@ EXCEPT !.pc = "waitDetached", !.tries = 0]]
    BY <1>1, <1>11, <2>1 DEF Release, Own
  <2>3. Resumes(c, "waitDetached")
    BY <1>3, <2>2 DEF Resumes, CallFields
  <2>4. /\ ServiceInv(v)' /\ Others(v) /\ Listed(v)' = Listed(v) \ {call[c].att}
        /\ \A b \in Held(v) \ {call[c].att} : attachment'[b] = attachment[b]
        /\ \A b \in Held(v)' : attachment'[b].server # None
    BY <1>1, <1>2, <1>3, <1>11, <2>1, <2>2, ReleaseEffect DEF Release, Own
  <2> QED BY <1>4, <1>6, <2>3, <2>4 DEF UnpublishPC
<1>12. CASE WaitDetached(c)
  <2>0. /\ UNCHANGED <<status, attachment, device>>
        /\ \A a \in Held(v) : attachment[a].server # None
    BY <1>1, <1>2, <1>12 DEF SlotInv, WaitDetached
  <2>1. Listed(v) \subseteq OwnListed(c)
    <3>1. ASSUME NEW a \in Listed(v)
          PROVE  attachment[a].server = EcsNode[n]
      <4>1. a \in Attachments /\ attachment[a].volume # None /\ attachment[a].server # None
        BY <2>0, ClusterAssumption DEF Listed, Held
      <4> QED BY <1>3, <1>6, <4>1 DEF OwnServer
    <3> QED BY <1>1, <3>1 DEF OwnListed
  <2>2. CASE SeesDetached(c) /\ Answer(c, Detached)
    BY <1>5, <1>6, <2>0, <2>1, <2>2 DEF SeesDetached
  <2>3. CASE Poll(c, DetachSteps)
    <3>1. /\ ServiceInv(v)' /\ Others(v) /\ Listed(v)' = Listed(v) /\ SameHeld(v)
          /\ (pv'[v] = pv[v] => ViewInv(v)')
      BY <1>0, <1>1, <2>0, ReadStep
    <3>2. CASE Fail(c)
      BY <1>0, <1>1, <3>1, <3>2, FailStep, FailFacts
    <3>3. CASE Resumes(c, "waitDetached")
      BY <1>4, <1>6, <2>0, <3>1, <3>3 DEF UnpublishPC, SameHeld
    <3> QED BY <1>0, <1>12, <2>3, <3>2, <3>3, PollFacts DEF WaitDetached
  <2> QED BY <1>12, <2>2, <2>3 DEF WaitDetached
<1> QED BY <1>7, <1>8, <1>9, <1>10, <1>11, <1>12 DEF Unpublish

\* A handler that deletes finds nothing listed.
LEMMA DeleteSteps ==
    ASSUME DetachInv, TypeOK', SingleNodeInv', NEW c \in Calls, DiskIsUsed(c) \/ Delete(c)
    PROVE  DetachInv'
<1> USE DEF backend
<1>0. call[c].pc # "idle" /\ call[c].pc \in DeletePC
  BY DEF DiskIsUsed, Delete, DeletePC
<1>1. PICK v \in Volumes : v = call[c].volume
  BY <1>0, HandlerFacts
<1>2. /\ SlotInv(c) /\ ServiceInv(v) /\ ViewInv(v) /\ call[c].waiting
      /\ pv[v].phase = "deleting" /\ CinderTypeOK
  BY <1>0, <1>1, HandlerFacts DEF SlotInv, DetachInv, TypeOK
<1>3. Listed(v) = {}
  BY <1>2 DEF ViewInv
<1>4. ServiceInv(v)' /\ Others(v) /\ Listed(v)' = {}
  <2>1. UNCHANGED <<attachment, device>> /\ (UNCHANGED status \/ DeleteVolume(v))
    BY <1>1 DEF DiskIsUsed, Delete, DeleteVolume
  <2> QED BY <1>2, <1>3, <2>1, StatusEffect
<1>5. CASE Answer(c, DeletedView)
  <2>1. /\ call'[c] = Idle /\ \A d \in Calls \ {c} : call'[d] = call[d]
        /\ pv'[v] = DeletedView /\ \A u \in Volumes \ {v} : pv'[u] = pv[u]
    BY <1>0, <1>1, <1>5, AnswerFacts
  <2>2. ViewInv(v)'
    BY <1>4, <2>1 DEF ViewInv, DeletedView, Detached
  <2> QED BY <1>0, <1>1, <1>4, <2>1, <2>2, LocalStep
<1>6. ASSUME UNCHANGED pv PROVE ViewInv(v)'
  BY <1>2, <1>4, <1>6 DEF ViewInv
<1>7. CASE Fail(c)
  BY <1>0, <1>1, <1>4, <1>6, <1>7, FailStep, FailFacts
<1>8. CASE Goto(c, "delete") /\ UNCHANGED pv
  <2>1. Resumes(c, "delete")
    BY <1>0, <1>8, GotoFacts
  <2>2. SlotInv(c)'
    BY <1>1, <1>2, <2>1 DEF SlotInv, Resumes, PublishPC, UnpublishPC, DeletePC
  <2> QED BY <1>0, <1>1, <1>4, <1>6, <2>1, <2>2, LocalStep DEF Resumes
<1> QED BY <1>5, <1>7, <1>8 DEF DiskIsUsed, Delete

\* A request that is refused or fails, whatever it has done.
LEMMA FailingSteps ==
    ASSUME IsFiniteSet(Attachments), IsFiniteSet(Paths), DetachInv, TypeOK', SingleNodeInv',
           NEW c \in Calls, RequestRefused(c) \/ RequestFails(c), call[c].pc # "idle"
    PROVE  DetachInv'
<1> USE DEF backend
<1>1. PICK v \in Volumes : v = call[c].volume
  BY HandlerFacts
<1>2. PICK n : n = call[c].node
  OBVIOUS
<1>3. /\ SlotInv(c) /\ ServiceInv(v) /\ ViewInv(v) /\ call[c].waiting /\ CinderTypeOK
      /\ BridgeTypeOK /\ FreeUnheld /\ pv[v].phase # "attached"
      /\ call[c].pc \in PublishPC \cup UnpublishPC => n \in Nodes /\ pv[v].node = n
      /\ call[c].pc \in DeletePC => pv[v].phase = "deleting"
      /\ call[c].pc \in PublishPC => pv[v].phase = "attaching"
      /\ call[c].server \in Servers \cup {None}
  BY <1>1, <1>2, HandlerFacts DEF DetachInv, SingleNodeInv, TypeOK, SlotInv, CallFields
<1>4. \A a \in Listed(v) : attachment[a].node = pv[v].node /\ a \in Held(v)
  BY <1>3 DEF ViewInv, Listed
<1>5. ErrorPath(c)
  BY DEF RequestRefused, RequestFails
<1> DEFINE Kept == /\ ServiceInv(v)' /\ Others(v)
                   /\ \A a \in Listed(v)' : attachment'[a].node = pv[v].node
                   /\ pv[v].phase \notin {"attaching", "detaching"} => Listed(v)' = {}
<1>6. pv[v].phase \notin {"attaching", "detaching"} => Listed(v) = {}
  BY <1>3 DEF ViewInv
<1>7. ASSUME UNCHANGED <<attachment, device>>,
             UNCHANGED status \/ BeginDetaching(v) \/ DeleteVolume(v)
      PROVE  Kept
  BY <1>3, <1>4, <1>6, <1>7, StatusEffect DEF SameHeld
<1>8. ASSUME NEW a \in Attachments, call[c].pc = "createAttachment", UNCHANGED device,
             CreateAttachment(a, v, n, call[c].server)
      PROVE  Kept
  <2>1. PICK s \in Servers \cup {None} : s = call[c].server
    BY <1>3
  <2>2. n \in Nodes /\ CreateAttachment(a, v, n, s)
    BY <1>3, <1>8, <2>1 DEF PublishPC
  <2> QED BY <1>3, <1>4, <1>6, <1>8, <2>2, CreateEffect
<1>9. ASSUME call[c].pc = "update", UNCHANGED device,
             UpdateAttachment(call[c].att, v, call[c].path)
      PROVE  Kept
  <2>1. call[c].att \in Attachments
    BY <1>9 DEF UpdateAttachment, Held
  <2>2. /\ ServiceInv(v)' /\ Others(v) /\ SameHeld(v) /\ Listed(v)' \subseteq Listed(v)
    BY <1>3, <1>9, <2>1, UpdateEffect
  <2> QED BY <1>4, <1>6, <2>2 DEF SameHeld
<1>10. ASSUME call[c].pc = "complete", UNCHANGED device, CompleteAttachment(call[c].att, v)
       PROVE  Kept
  <2>1. Own(c) /\ call[c].att \in Attachments /\ pv[v].phase = "attaching" /\ pv[v].node = n
    BY <1>1, <1>3, <1>10 DEF SlotInv, Own, Held, PublishPC
  <2>2. ServiceInv(v)' /\ Others(v) /\ SameHeld(v) /\ Listed(v)' = Listed(v) \cup {call[c].att}
    BY <1>3, <1>10, <2>1, CompleteEffect
  <2> QED BY <1>1, <1>2, <1>4, <2>1, <2>2 DEF SameHeld, Own
<1>11. ASSUME call[c].pc \in {"undoConnect", "disconnect"}, Disconnect(n, v),
              UNCHANGED <<status, attachment>>
       PROVE  Kept
  <2>1. n \in Nodes /\ HeldOn(n, v) # {}
    BY <1>1, <1>2, <1>3, <1>11 DEF SlotInv, Own, HeldOn, PublishPC, UnpublishPC
  <2>2. ServiceInv(v)' /\ Others(v) /\ SameHeld(v) /\ Listed(v)' = Listed(v)
    BY <1>3, <1>11, <2>1, DisconnectEffect
  <2> QED BY <1>4, <1>6, <2>2 DEF SameHeld
<1>12. ASSUME call[c].pc \in {"undoCreate", "release"}, UNCHANGED device,
              ReleaseAttachment(call[c].att, v)
       PROVE  Kept
  <2>1. n \in Nodes /\ Own(c) /\ Spare(n, v) /\ call[c].att \in Attachments
    BY <1>1, <1>2, <1>3, <1>12 DEF SlotInv, Own, Held, PublishPC, UnpublishPC
  <2>2. /\ ServiceInv(v)' /\ Others(v) /\ Listed(v)' = Listed(v) \ {call[c].att}
        /\ \A b \in Held(v) \ {call[c].att} : attachment'[b] = attachment[b]
    BY <1>2, <1>3, <1>12, <2>1, ReleaseEffect DEF Own
  <2> QED BY <1>4, <1>6, <2>2
<1>13. Kept
  <2>1. CASE UNCHANGED backend
    BY <1>7, <2>1
  <2>2. CASE Effect(c)
    BY <1>1, <1>2, <1>7, <1>8, <1>9, <1>10, <1>11, <1>12, <2>2
       DEF Effect, BeginDetaching, DeleteVolume
  <2> QED BY <2>1, <2>2 DEF RequestRefused, RequestFails
<1>14. ASSUME UNCHANGED pv PROVE ViewInv(v)'
  BY <1>3, <1>13, <1>14 DEF ViewInv
<1>15. CASE Fail(c)
  BY <1>1, <1>13, <1>14, <1>15, FailStep, FailFacts
<1>16. CASE ~Fail(c)
  <2>1. /\ call[c].pc \in {"connect", "update"} /\ Goto(c, OnError(call[c].pc))
        /\ UNCHANGED pv
    BY <1>5, <1>16 DEF ErrorPath, OnError
  <2>2. Own(c) /\ n \in Nodes /\ pv[v].phase = "attaching" /\ pv[v].node = n
    BY <1>3, <2>1 DEF SlotInv, PublishPC
  <2>3. CASE call[c].pc = "connect"
    <3>1. Resumes(c, "undoCreate") /\ call'[c].att = call[c].att
      BY <2>1, <2>3, GotoFacts DEF OnError
    <3>2. Spare(n, v) /\ UNCHANGED <<status, attachment, device>>
      BY <1>1, <1>2, <1>3, <2>3 DEF SlotInv, RequestRefused, RequestFails, Effect
    <3>3. Own(c)' /\ Spare(n, v)'
      BY <1>1, <2>2, <3>1, <3>2, ReadStep DEF Resumes
    <3>4. SlotInv(c)'
      BY <1>1, <1>2, <1>3, <2>2, <3>1, <3>3
         DEF SlotInv, Resumes, PublishPC, UnpublishPC, DeletePC
    <3> QED BY <1>1, <1>13, <1>14, <2>1, <3>1, <3>4, LocalStep DEF Resumes
  <2>4. CASE call[c].pc = "update"
    <3>1. Resumes(c, "undoConnect") /\ call'[c].att = call[c].att
      BY <2>1, <2>4, GotoFacts DEF OnError
    <3>2. \/ UNCHANGED <<status, attachment, device>>
          \/ UpdateAttachment(call[c].att, v, call[c].path) /\ UNCHANGED device
      BY <1>1, <2>4 DEF RequestRefused, RequestFails, Effect
    <3>3. call[c].att \in Attachments
      BY <2>2 DEF Own, Held
    <3>4. SameHeld(v)
      BY <1>1, <1>3, <3>2, <3>3, ReadStep, UpdateEffect
    <3>5. Own(c)'
      BY <1>1, <2>2, <3>1, <3>4 DEF Own, SameHeld, Resumes
    <3>6. SlotInv(c)'
      BY <1>1, <1>2, <1>3, <2>2, <3>1, <3>5
         DEF SlotInv, Resumes, PublishPC, UnpublishPC, DeletePC
    <3> QED BY <1>1, <1>13, <1>14, <2>1, <3>1, <3>6, LocalStep DEF Resumes
  <2> QED BY <2>1, <2>3, <2>4
<1> QED BY <1>15, <1>16

-----------------------------------------------------------------------------
(* The steps of the sidecars, of Cinder and of the process *)

\* A sidecar calls for a volume that no handler is busy with.
LEMMA StartStep ==
    ASSUME DetachInv, TypeOK', SingleNodeInv', NEW c \in Calls, NEW v \in Volumes,
           NEW n, NEW pc \in {"getVolume", "beginDetaching", "diskIsUsed"}, Start(c, v, n, pc),
           \A u \in Volumes \ {v} : pv'[u] = pv[u],
           \A a \in Listed(v) : pv'[v].phase \in {"attaching", "detaching"}
                                /\ attachment[a].node = pv'[v].node,
           pc = "getVolume" => pv'[v].phase = "attaching" /\ pv'[v].node = n,
           pc = "beginDetaching" => pv'[v].phase = "detaching" /\ pv'[v].node = n,
           pc = "diskIsUsed" => pv'[v].phase = "deleting"
    PROVE  DetachInv'
<1>1. /\ UNCHANGED <<status, attachment, device>> /\ CinderTypeOK /\ ServiceInv(v)
      /\ call \in [Calls -> CallRecord]
  BY DEF Start, backend, DetachInv, TypeOK
<1>2. ServiceInv(v)' /\ Others(v) /\ Listed(v)' = Listed(v)
  BY <1>1, StatusEffect
<1>3. ViewInv(v)'
  BY <1>1, <1>2 DEF ViewInv
<1>4. \A d \in Calls \ {c} : call[d].pc # "idle" => call[d].volume # v
  BY HandlerFacts DEF Start
<1>5. /\ call'[c].pc = pc /\ call'[c].volume = v /\ call'[c].node = n /\ call'[c].waiting
      /\ \A d \in Calls \ {c} : call'[d] = call[d]
  BY <1>1 DEF Start, Idle
<1>6. SlotInv(c)'
  BY <1>5 DEF SlotInv, PublishPC, UnpublishPC, DeletePC
<1> QED BY <1>2, <1>3, <1>4, <1>5, <1>6, VolumeStep

LEMMA SidecarSteps ==
    ASSUME DetachInv, TypeOK', SingleNodeInv', NEW c \in Calls, NEW v \in Volumes,
           (\E n \in Nodes : CallPublish(c, v, n)) \/ CallUnpublish(c, v) \/ CallDelete(c, v)
    PROVE  DetachInv'
<1>1. ViewInv(v) /\ pv \in [Volumes -> Views] /\ pv[v] \in ViewFields
  BY DEF DetachInv, TypeOK, Views
<1>2. ASSUME NEW n \in Nodes, CallPublish(c, v, n)
      PROVE  DetachInv'
  <2>1. /\ pv'[v].phase = "attaching" /\ pv'[v].node = n
        /\ \A u \in Volumes \ {v} : pv'[u] = pv[u]
    BY <1>1, <1>2 DEF CallPublish
  <2>2. \A a \in Listed(v) : attachment[a].node = n
    BY <1>1, <1>2 DEF CallPublish, ViewInv
  <2> QED BY <1>2, <2>1, <2>2, StartStep DEF CallPublish
<1>3. CASE CallUnpublish(c, v)
  <2>1. PICK n : n = pv[v].node
    OBVIOUS
  <2>2. /\ pv'[v].phase = "detaching" /\ pv'[v].node = n
        /\ \A u \in Volumes \ {v} : pv'[u] = pv[u]
    BY <1>1, <1>3, <2>1 DEF CallUnpublish, ViewFields
  <2>3. \A a \in Listed(v) : attachment[a].node = n
    BY <1>1, <2>1 DEF ViewInv
  <2>4. Start(c, v, n, "beginDetaching")
    BY <1>3, <2>1 DEF CallUnpublish
  <2> QED BY <2>2, <2>3, <2>4, StartStep
<1>4. CASE CallDelete(c, v)
  <2>1. /\ pv'[v].phase = "deleting" /\ \A u \in Volumes \ {v} : pv'[u] = pv[u]
    BY <1>1, <1>4 DEF CallDelete, ViewFields
  <2>2. Listed(v) = {}
    BY <1>1, <1>4 DEF CallDelete, ViewInv
  <2> QED BY <1>4, <2>1, <2>2, StartStep DEF CallDelete
<1> QED BY <1>2, <1>3, <1>4

\* What Cinder does in the background concerns no volume that is attached.
LEMMA BackgroundSteps ==
    ASSUME DetachInv, TypeOK', SingleNodeInv', NEW v \in Volumes, CinderWorks(v)
    PROVE  DetachInv'
<1>1. /\ CinderTypeOK /\ ServiceInv(v) /\ ViewInv(v)
      /\ UNCHANGED <<attachment, device, call, pv>>
      /\ status[v] \notin {"in-use", "detaching"}
      /\ \A u \in Volumes \ {v} : status'[u] = status[u]
  BY DEF DetachInv, TypeOK, CinderTypeOK, CinderWorks, FinishCreation, FinishDeletion
<1>2. \A u \in Volumes : ServiceInv(u)' /\ Listed(u)' = Listed(u)
  <2>1. ServiceInv(v)' /\ Others(v) /\ Listed(v)' = Listed(v)
    BY <1>1, StatusEffect DEF CinderWorks, FinishCreation, FinishDeletion
  <2> QED BY <2>1, SameOthers DEF DetachInv
<1>3. \A u \in Volumes : ViewInv(u)'
  BY <1>1, <1>2 DEF DetachInv, ViewInv, Mapped
<1>4. ASSUME NEW d \in Calls
      PROVE  SlotInv(d)'
  <2>1. SlotInv(d)
    BY DEF DetachInv
  <2>2. CASE call[d].pc = "readAttachments"
    <3>1. call[d].volume \in Volumes /\ status[call[d].volume] = "detaching"
      BY <2>1, <2>2, HandlerFacts DEF SlotInv
    <3>2. status'[call[d].volume] = "detaching"
      BY <1>1, <3>1
    <3> QED BY <1>1, <2>1, <2>2, <3>2 DEF SlotInv, PublishPC, UnpublishPC, DeletePC
  <2>3. CASE call[d].pc # "readAttachments"
    BY <1>1, <2>1, <2>3 DEF SlotInv, Own, Spare, HeldOn, Held, Mapped
  <2> QED BY <2>2, <2>3
<1>5. OneHandler'
  BY <1>1 DEF DetachInv, OneHandler
<1> QED BY <1>2, <1>3, <1>4, <1>5 DEF DetachInv

\* Where the services and the sidecars do nothing, handlers may go on or be gone.
LEMMA QuietSteps ==
    ASSUME DetachInv, TypeOK', SingleNodeInv', UNCHANGED <<status, attachment, device, pv>>,
           \A c \in Calls : call'[c] = call[c] \/ call'[c] = Idle
    PROVE  DetachInv'
<1>1. \A u \in Volumes : ServiceInv(u)' /\ ViewInv(u)'
  BY DEF DetachInv, ServiceInv, Covered, ViewInv, HeldOn, Listed, Held, Mapped
<1>2. ASSUME NEW d \in Calls
      PROVE  SlotInv(d)'
  <2>1. SlotInv(d)
    BY DEF DetachInv
  <2> QED BY <2>1, IdleType DEF SlotInv, Own, Spare, HeldOn, Held, Mapped
<1>3. OneHandler'
  BY IdleType DEF DetachInv, OneHandler
<1> QED BY <1>1, <1>2, <1>3 DEF DetachInv

LEMMA DetachStep ==
    ASSUME ~Deadlines, IsFiniteSet(Attachments), IsFiniteSet(Paths), DetachInv, [Next]_vars
    PROVE  DetachInv'
<1>0. TypeOK' /\ SingleNodeInv'
  BY TypeStep, SingleNodeStep DEF DetachInv
<1>1. ASSUME NEW c \in Calls, HandlerStep(c)
      PROVE  DetachInv'
  <2>1. call[c].pc # "idle"
    BY <1>1, HandlerRequests
  <2>2. \/ GetVolume(c) \/ WaitAttached(c) \/ GetPath(c)
        \/ Create(c) \/ ConnectVolume(c) \/ Update(c) \/ Complete(c)
        \/ UndoConnect(c) \/ UndoCreate(c)
        \/ Unpublish(c) \/ DiskIsUsed(c) \/ Delete(c) \/ RequestRefused(c) \/ RequestFails(c)
    BY <1>1 DEF HandlerStep, Handler, Publish
  <2> QED BY <1>0, <2>1, <2>2, PublishReads, PublishWrites, UnpublishSteps, DeleteSteps,
             FailingSteps
<1>2. ASSUME NEW c \in Calls, NEW v \in Volumes,
             (\E n \in Nodes : CallPublish(c, v, n)) \/ CallUnpublish(c, v) \/ CallDelete(c, v)
      PROVE  DetachInv'
  BY <1>0, <1>2, SidecarSteps
<1>3. ASSUME NEW v \in Volumes, CinderWorks(v)
      PROVE  DetachInv'
  BY <1>0, <1>3, BackgroundSteps
<1>4. CASE LookupByName \/ Restart \/ UNCHANGED vars
  BY <1>0, <1>4, QuietSteps DEF LookupByName, Restart, vars, backend
<1> QED BY <1>1, <1>2, <1>3, <1>4 DEF Next, HandlerStep, DeadlineExpires

LEMMA DetachInit ==
    ASSUME IsFiniteSet(Attachments), IsFiniteSet(Paths), Init
    PROVE  DetachInv
<1>1. \A c \in Calls : call[c].pc = "idle"
  BY IdleType DEF Init
<1>2. ASSUME NEW v \in Volumes
      PROVE  ServiceInv(v) /\ ViewInv(v)
  <2>1. Held(v) = {} /\ Listed(v) = {}
    BY ClusterAssumption DEF Init, CinderInit, NoAttachment, Held, Listed
  <2>2. status[v] = "creating" /\ pv[v].phase = "detached"
    BY DEF Init, CinderInit, Detached
  <2>3. \A n \in Nodes : Mapped(n, v) = {}
    BY ClusterAssumption DEF Init, BridgeInit, Mapped
  <2>4. Covered(v)
    BY <2>3, Finite, FS_EmptySet DEF Covered
  <2> QED BY <2>1, <2>2, <2>4 DEF ServiceInv, ViewInv
<1> QED BY <1>1, <1>2, TypeInit, SingleNodeInit DEF DetachInv, SlotInv, OneHandler

LEMMA DetachInvariant ==
    ASSUME ~Deadlines, IsFiniteSet(Attachments), IsFiniteSet(Paths)
    PROVE  Spec => []DetachInv
<1>1. Init => DetachInv
  BY DetachInit
<1>2. DetachInv /\ [Next]_vars => DetachInv'
  BY DetachStep
<1> QED BY <1>1, <1>2, PTL DEF Spec

\* A handler changes what the sidecars think of its own volume only.
LEMMA OwnView ==
    ASSUME DetachInv, NEW c \in Calls, HandlerStep(c)
    PROVE  \A u \in Volumes \ {call[c].volume} : pv'[u] = pv[u]
<1>1. CallStep(c) /\ call[c].volume \in Volumes /\ pv \in [Volumes -> Views]
  BY HandlerCalls, HandlerRequests, HandlerFacts DEF DetachInv, TypeOK
<1> QED BY <1>1 DEF CallStep, Proceeds, Poll, Fail, Answer

\* A handler that tells its sidecar that the volume is attached has only read.
LEMMA GrantReads ==
    ASSUME DetachInv, NEW c \in Calls, HandlerStep(c), pv'[call[c].volume].phase = "attached"
    PROVE  UNCHANGED <<status, attachment, device>>
<1>0. call[c].pc # "idle" /\ pv[call[c].volume].phase # "attached"
  BY HandlerRequests, HandlerFacts
<1>1. ~UNCHANGED pv /\ ~Fail(c)
  BY <1>0, FailFacts
<1>2. ~Answer(c, Detached) /\ ~Answer(c, DeletedView)
  BY <1>0, AnswerFacts DEF Detached, DeletedView
<1> QED
  BY <1>1, <1>2, HandlerCases
     DEF GetVolume, Create, ConnectVolume, Update, Complete, WaitAttached, GetPath, UndoConnect,
         UndoCreate, Begin, ReadAttachments, GetAttachment, DisconnectVolume, Release,
         WaitDetached, DiskIsUsed, Delete, RequestRefused, RequestFails, ErrorPath, backend

-----------------------------------------------------------------------------
(* What follows *)

\* A device has an attachment of its node, and an attached volume is in use there.
LEMMA DeviceFacts ==
    ASSUME IsFiniteSet(Attachments), IsFiniteSet(Paths), DetachInv,
           NEW n \in Nodes, NEW v \in Volumes, Mapped(n, v) # {}
    PROVE  \E a \in Held(v) : attachment[a].node = n
<1>1. Cardinality(Mapped(n, v)) # 0 /\ Cardinality(Mapped(n, v)) <= Cardinality(HeldOn(n, v))
  BY Finite, FS_EmptySet DEF DetachInv, ServiceInv, Covered
<1>2. HeldOn(n, v) # {}
  BY <1>1, Finite, FS_EmptySet
<1> QED BY <1>2 DEF HeldOn

\* No failure, retry or exit of the plugin leaves a device behind whose attachment
\* is forgotten.
THEOREM NoOrphanDeviceCorrect ==
    ASSUME ~Deadlines, IsFiniteSet(Attachments), IsFiniteSet(Paths)
    PROVE  Spec => []NoOrphanDevice
<1>1. DetachInv => NoOrphanDevice
  BY DeviceFacts DEF NoOrphanDevice
<1> QED BY <1>1, DetachInvariant, PTL

\* No two nodes have a device of the same volume: every device has an attachment
\* of its node, and all attachments are for one node.
THEOREM DevicesOnOneNodeCorrect ==
    ASSUME ~Deadlines, IsFiniteSet(Attachments), IsFiniteSet(Paths)
    PROVE  Spec => []DevicesOnOneNode
<1>1. DetachInv => DevicesOnOneNode
  BY DeviceFacts DEF DevicesOnOneNode, DetachInv, SingleNodeInv, SingleNodeAttached
<1> QED BY <1>1, DetachInvariant, PTL

\* Once Cinder has accepted begin-detaching, the volume lists an attachment, so
\* that reading the first one does not end the plugin.
THEOREM DetachFindsAttachmentCorrect ==
    ASSUME ~Deadlines, IsFiniteSet(Attachments), IsFiniteSet(Paths)
    PROVE  Spec => []DetachFindsAttachment
<1>1. ASSUME DetachInv, NEW c \in Calls, call[c].pc = "readAttachments"
      PROVE  Listed(call[c].volume) # {}
  BY <1>1, HandlerFacts DEF SlotInv, ServiceInv
<1>2. DetachInv => DetachFindsAttachment
  BY <1>1 DEF DetachFindsAttachment
<1> QED BY <1>2, DetachInvariant, PTL

\* What a handler disconnects and releases is an attachment of its own node.
THEOREM ReleasesOwnCorrect ==
    ASSUME ~Deadlines, IsFiniteSet(Attachments), IsFiniteSet(Paths)
    PROVE  Spec => []ReleasesOwn
<1>1. ASSUME DetachInv, NEW c \in Calls,
             call[c].pc \in {"undoConnect", "undoCreate", "disconnect", "release"}
      PROVE  attachment[call[c].att].node = call[c].node
  BY <1>1, HandlerFacts DEF SlotInv, Own
<1>2. DetachInv => ReleasesOwn
  BY <1>1 DEF ReleasesOwn
<1> QED BY <1>2, DetachInvariant, PTL

LEMMA AttachedFacts == DetachInv => AttachedIsAttached
<1> SUFFICES ASSUME DetachInv, NEW v \in Volumes, pv[v].phase = "attached"
             PROVE  /\ status[v] = "in-use" /\ PublishedNodeIds(v) = {EcsNode[pv[v].node]}
                    /\ Mapped(pv[v].node, v) # {}
  BY DEF AttachedIsAttached
<1>1. status[v] = "in-use" /\ Mapped(pv[v].node, v) # {} /\ Listed(v) # {}
  BY DEF DetachInv, ViewInv, ServiceInv
<1>2. ASSUME NEW a \in Listed(v)
      PROVE  attachment[a].server = EcsNode[pv[v].node]
  <2>1. attachment[a].server # None /\ attachment[a].node = pv[v].node
    BY DEF DetachInv, ViewInv
  <2>2. a \in Attachments /\ attachment[a].volume # None
    BY ClusterAssumption DEF Listed, Held
  <2>3. OwnServer
    BY DEF DetachInv, SingleNodeInv
  <2> QED BY <2>1, <2>2, <2>3 DEF OwnServer
<1> QED BY <1>1, <1>2 DEF PublishedNodeIds

\* A volume of which the sidecars were told that it is attached is in use, has a
\* device on its node and is reported as published to this node only.
THEOREM AttachedIsAttachedCorrect ==
    ASSUME ~Deadlines, IsFiniteSet(Attachments), IsFiniteSet(Paths)
    PROVE  Spec => []AttachedIsAttached
  BY AttachedFacts, DetachInvariant, PTL

\* A volume that is deleted has no device on any node.
THEOREM DeletedNotMappedCorrect ==
    ASSUME ~Deadlines, IsFiniteSet(Attachments), IsFiniteSet(Paths)
    PROVE  Spec => []DeletedNotMapped
<1>1. ASSUME DetachInv, NEW v \in Volumes, status[v] = "deleted", NEW n \in Nodes
      PROVE  Mapped(n, v) = {}
  <2>1. Held(v) = {}
    BY <1>1 DEF DetachInv, SingleNodeInv, FreeUnheld, Unused
  <2> QED BY <1>1, <2>1, DeviceFacts
<1>2. DetachInv => DeletedNotMapped
  BY <1>1 DEF DeletedNotMapped
<1> QED BY <1>2, DetachInvariant, PTL

\* When a detachment is answered with success, nothing of the volume is listed.
THEOREM UnpublishTruthfulCorrect ==
    ASSUME ~Deadlines, IsFiniteSet(Attachments), IsFiniteSet(Paths)
    PROVE  Spec => UnpublishTruthful
<1> DEFINE Truthful == \A v \in Volumes :
                          pv[v].phase = "detaching" /\ pv'[v].phase = "detached" =>
                             ~\E a \in Listed(v)' : attachment'[a].node = pv[v].node
<1>1. DetachInv' => Truthful
  BY DEF DetachInv, ViewInv
<1>2. Spec => [][Truthful]_vars
  BY <1>1, DetachInvariant, PTL
<1> QED BY <1>2 DEF UnpublishTruthful

=============================================================================
