----------------------- MODULE ControllerAttachProofs -----------------------
(* Theorems about ControllerAttach, for every value of its constants. *)
EXTENDS ControllerAttach, FiniteSetTheorems, TLAPS

-----------------------------------------------------------------------------
(* Types *)

\* The requests to Cinder keep its records well formed.
LEMMA CinderTypes ==
    ASSUME CinderTypeOK, NEW a \in Attachments \cup {None}, NEW v \in Volumes,
           NEW n \in Nodes \cup {None}, NEW s \in Servers \cup {None},
           NEW p \in Paths \cup {None},
           \/ CreateAttachment(a, v, n, s) \/ UpdateAttachment(a, v, p)
           \/ CompleteAttachment(a, v) \/ BeginDetaching(v)
           \/ ReleaseAttachment(a, v) \/ DeleteVolume(v)
           \/ UNCHANGED <<status, attachment>>
    PROVE  CinderTypeOK'
  BY DEF CinderTypeOK, CreateAttachment, UpdateAttachment, CompleteAttachment,
         BeginDetaching, ReleaseAttachment, DeleteVolume, AttachmentRecord, NoAttachment, Statuses

\* Connecting and disconnecting change one path of one node.
LEMMA ConnectTypes ==
    ASSUME BridgeTypeOK, NEW n \in Nodes \cup {None}, NEW v \in Volumes, NEW p \in Paths,
           Connect(n, v, p)
    PROVE  BridgeTypeOK'
  BY DEF BridgeTypeOK, Connect

LEMMA DisconnectTypes ==
    ASSUME BridgeTypeOK, NEW n \in Nodes \cup {None}, NEW v \in Volumes, Disconnect(n, v)
    PROVE  BridgeTypeOK'
  BY DEF BridgeTypeOK, Disconnect, Mapped

\* What a handler knows of its call.
LEMMA CallFacts ==
    ASSUME TypeOK, NEW c \in Calls, call[c].pc # "idle"
    PROVE  /\ call[c].volume \in Volumes
           /\ call[c].node \in Nodes \cup {None}
           /\ call[c].server \in Servers \cup {None}
           /\ call[c].att \in Attachments \cup {None}
           /\ call[c].path \in Paths \cup {None}
  BY DEF TypeOK, CallRecord, CallFields

CallsOK == call \in [Calls -> CallRecord]

PvOK == pv \in [Volumes -> Views]

LEMMA StepsPositive ==
    AttachSteps \in Nat /\ DetachSteps \in Nat /\ 0 < AttachSteps
  BY ControllerAssumption

LEMMA IdleType ==
    Idle \in CallRecord /\ Idle.pc = "idle"
  BY StepsPositive DEF Idle, CallRecord, CallFields, PublishPC, UnpublishPC

LEMMA ViewTypes ==
    Detached \in Views /\ DeletedView \in Views
  BY DEF Detached, DeletedView, Views, ViewFields, Phases

\* A handler that returns leaves a well-formed view of the sidecars behind.
LEMMA AnswerTypes ==
    ASSUME CallsOK, PvOK, NEW c \in Calls, call[c].pc # "idle",
           NEW view \in Views, Answer(c, view)
    PROVE  CallsOK' /\ PvOK'
<1>1. CallsOK'
  BY IdleType DEF Answer, CallsOK
<1>2. call[c].volume \in Volumes
  BY DEF CallsOK, CallRecord
<1>3. PvOK'
  BY <1>2 DEF Answer, PvOK
<1> QED BY <1>1, <1>3

LEMMA FailTypes ==
    ASSUME CallsOK, PvOK, NEW c \in Calls, call[c].pc # "idle", Fail(c)
    PROVE  CallsOK' /\ PvOK'
<1>1. pv[call[c].volume] \in Views
  BY DEF CallsOK, PvOK, CallRecord
<1> QED BY <1>1, AnswerTypes DEF Fail

LEMMA PollTypes ==
    ASSUME CallsOK, PvOK, NEW c \in Calls, call[c].pc # "idle",
           NEW steps \in {AttachSteps, DetachSteps}, Poll(c, steps)
    PROVE  CallsOK' /\ PvOK'
<1>1. CASE Fail(c)
  BY <1>1, FailTypes
<1>2. CASE call[c].tries + 1 < steps /\ call' = [call EXCEPT ![c].tries = @ + 1] /\ UNCHANGED pv
  <2> DEFINE r == [call[c] EXCEPT !.tries = @ + 1]
  <2>1. r \in CallRecord
    BY <1>2, StepsPositive DEF CallsOK, CallRecord, CallFields
  <2>2. call' = [call EXCEPT ![c] = r]
    BY <1>2
  <2> HIDE DEF r
  <2>3. CallsOK'
    BY <2>1, <2>2 DEF CallsOK
  <2> QED BY <1>2, <2>3 DEF PvOK
<1> QED BY <1>1, <1>2 DEF Poll

\* The next request of a handler is one of the same call: a call for a node does
\* not turn into another one.
NextRequest(c, pc) ==
    /\ call[c].pc # "idle" /\ pc \in Requests
    /\ pc \in PublishPC \cup UnpublishPC => call[c].pc \in PublishPC \cup UnpublishPC

\* A handler sends its next request.
Proceeds(c, pc) ==
    /\ NextRequest(c, pc)
    /\ UNCHANGED pv
    /\ \/ Goto(c, pc)
       \/ \E a \in Attachments \cup {None} :
            call' = [call EXCEPT ![c] = [@ EXCEPT !.pc = pc, !.att = a]]
       \/ \E p \in Paths \cup {None} :
            call' = [call EXCEPT ![c] = [@ EXCEPT !.pc = pc, !.path = p]]
       \/ \E s \in Servers \cup {None} :
            call' = [call EXCEPT ![c] = [@ EXCEPT !.pc = pc, !.server = s]]
       \/ call' = [call EXCEPT ![c] = [@ EXCEPT !.pc = pc, !.tries = 0]]

LEMMA GotoTypes ==
    ASSUME CallsOK, NEW c \in Calls, NEW pc, Proceeds(c, pc)
    PROVE  CallsOK'
<1> DEFINE old == call[c]
<1>1. old \in CallRecord
  BY DEF CallsOK
<1>2. ASSUME NEW r \in CallRecord, call' = [call EXCEPT ![c] = r]
      PROVE  CallsOK'
  BY <1>2 DEF CallsOK
<1>2a. NextRequest(c, pc)
  BY DEF Proceeds
<1> USE <1>1, <1>2a DEF NextRequest
<1>3. CASE Goto(c, pc)
  <2> DEFINE r == [old EXCEPT !.pc = pc]
  <2>1. r \in CallRecord
    BY DEF CallRecord, CallFields
  <2>2. call' = [call EXCEPT ![c] = r]
    BY <1>3 DEF Goto
  <2> HIDE DEF r
  <2> QED BY <2>1, <2>2, <1>2
<1>4. ASSUME NEW a \in Attachments \cup {None},
             call' = [call EXCEPT ![c] = [@ EXCEPT !.pc = pc, !.att = a]]
      PROVE  CallsOK'
  <2> DEFINE r == [old EXCEPT !.pc = pc, !.att = a]
  <2>1. r \in CallRecord
    BY DEF CallRecord, CallFields
  <2>2. call' = [call EXCEPT ![c] = r]
    BY <1>4
  <2> HIDE DEF r
  <2> QED BY <2>1, <2>2, <1>2
<1>5. ASSUME NEW p \in Paths \cup {None},
             call' = [call EXCEPT ![c] = [@ EXCEPT !.pc = pc, !.path = p]]
      PROVE  CallsOK'
  <2> DEFINE r == [old EXCEPT !.pc = pc, !.path = p]
  <2>1. r \in CallRecord
    BY DEF CallRecord, CallFields
  <2>2. call' = [call EXCEPT ![c] = r]
    BY <1>5
  <2> HIDE DEF r
  <2> QED BY <2>1, <2>2, <1>2
<1>6. ASSUME NEW s \in Servers \cup {None},
             call' = [call EXCEPT ![c] = [@ EXCEPT !.pc = pc, !.server = s]]
      PROVE  CallsOK'
  <2> DEFINE r == [old EXCEPT !.pc = pc, !.server = s]
  <2>1. r \in CallRecord
    BY DEF CallRecord, CallFields
  <2>2. call' = [call EXCEPT ![c] = r]
    BY <1>6
  <2> HIDE DEF r
  <2> QED BY <2>1, <2>2, <1>2
<1>7. CASE call' = [call EXCEPT ![c] = [@ EXCEPT !.pc = pc, !.tries = 0]]
  <2> DEFINE r == [old EXCEPT !.pc = pc, !.tries = 0]
  <2>1. r \in CallRecord
    BY StepsPositive DEF CallRecord, CallFields
  <2>2. call' = [call EXCEPT ![c] = r]
    BY <1>7
  <2> HIDE DEF r
  <2> QED BY <2>1, <2>2, <1>2
<1> QED BY <1>3, <1>4, <1>5, <1>6, <1>7 DEF Proceeds

-----------------------------------------------------------------------------
(* What a handler asks of the services, whether its request succeeds or not *)

CinderRequest(c) ==
    LET v == call[c].volume
        pc == call[c].pc
    IN  \/ pc = "createAttachment"
           /\ \E a \in Attachments : /\ \A d \in Calls : call[d].att # a
                                     /\ CreateAttachment(a, v, call[c].node, call[c].server)
        \/ pc = "update" /\ UpdateAttachment(call[c].att, v, call[c].path)
        \/ pc = "complete" /\ CompleteAttachment(call[c].att, v)
        \/ pc = "beginDetaching" /\ BeginDetaching(v)
        \/ pc \in {"undoCreate", "release"} /\ ReleaseAttachment(call[c].att, v)
        \/ pc = "delete" /\ DeleteVolume(v)
        \/ UNCHANGED <<status, attachment>>

BridgeRequest(c) ==
    LET v == call[c].volume
        n == call[c].node
    IN  \/ call[c].pc = "connect" /\ \E p \in Paths : Connect(n, v, p)
        \/ call[c].pc \in {"undoConnect", "disconnect"} /\ Disconnect(n, v)
        \/ UNCHANGED device

HandlerStep(c) == Handler(c) \/ RequestFails(c)

\* The steps of a handler, one by one.
LEMMA HandlerCases ==
    ASSUME NEW c, HandlerStep(c)
    PROVE  \/ GetVolume(c) \/ Create(c) \/ ConnectVolume(c) \/ Update(c) \/ Complete(c)
           \/ WaitAttached(c) \/ GetPath(c) \/ UndoConnect(c) \/ UndoCreate(c) \/ Begin(c)
           \/ ReadAttachments(c) \/ GetAttachment(c) \/ DisconnectVolume(c) \/ Release(c) \/ WaitDetached(c)
           \/ DiskIsUsed(c) \/ Delete(c) \/ RequestRefused(c) \/ RequestFails(c)
  BY DEF HandlerStep, Handler, Publish, Unpublish

LEMMA HandlerRequests ==
    ASSUME NEW c \in Calls, HandlerStep(c)
    PROVE  CinderRequest(c) /\ BridgeRequest(c) /\ call[c].pc # "idle"
<1> USE DEF CinderRequest, BridgeRequest, backend, bounds
<1>1. CASE GetVolume(c)
  BY <1>1 DEF GetVolume
<1>2. CASE Create(c)
  BY <1>2 DEF Create
<1>3. CASE ConnectVolume(c)
  BY <1>3 DEF ConnectVolume
<1>4. CASE Update(c)
  BY <1>4 DEF Update
<1>5. CASE Complete(c)
  BY <1>5 DEF Complete
<1>6. CASE WaitAttached(c)
  BY <1>6 DEF WaitAttached
<1>7. CASE GetPath(c)
  BY <1>7 DEF GetPath
<1>8. CASE UndoConnect(c)
  BY <1>8 DEF UndoConnect
<1>9. CASE UndoCreate(c)
  BY <1>9 DEF UndoCreate
<1>10. CASE Begin(c)
  BY <1>10 DEF Begin
<1>11. CASE ReadAttachments(c)
  BY <1>11 DEF ReadAttachments
<1>12. CASE GetAttachment(c)
  BY <1>12 DEF GetAttachment
<1>13. CASE DisconnectVolume(c)
  BY <1>13 DEF DisconnectVolume
<1>14. CASE Release(c)
  BY <1>14 DEF Release
<1>15. CASE WaitDetached(c)
  BY <1>15 DEF WaitDetached
<1>16. CASE DiskIsUsed(c)
  BY <1>16 DEF DiskIsUsed
<1>17. CASE Delete(c)
  BY <1>17 DEF Delete
<1>18. CASE RequestRefused(c)
  BY <1>18 DEF RequestRefused, Refused
<1>19. CASE RequestFails(c)
  <2>1. call[c].pc # "idle"
    BY <1>19, ControllerAssumption
       DEF RequestFails, Requests, PublishPC, UnpublishPC, DeletePC
  <2>2. CinderRequest(c) /\ BridgeRequest(c)
    BY <1>19 DEF RequestFails, Effect
  <2> QED BY <2>1, <2>2
<1> QED BY HandlerCases, <1>1, <1>2, <1>3, <1>4, <1>5, <1>6, <1>7, <1>8, <1>9, <1>10, <1>11, <1>12, <1>13, <1>14, <1>15, <1>16, <1>17, <1>18, <1>19

-----------------------------------------------------------------------------
(* The handler's own state *)

\* A handler sends its next request, polls once more, returns, or goes down with
\* the plugin.
CallStep(c) ==
    \/ \E pc : Proceeds(c, pc)
    \/ \E steps \in {AttachSteps, DetachSteps} : Poll(c, steps)
    \/ \E view \in Views : Answer(c, view)
    \/ call' = [d \in Calls |-> Idle] /\ UNCHANGED pv

LEMMA CallStepTypes ==
    ASSUME CallsOK, PvOK, NEW c \in Calls, call[c].pc # "idle", CallStep(c)
    PROVE  CallsOK' /\ PvOK'
<1>1. CASE \E pc : Proceeds(c, pc)
  <2>1. PICK pc : Proceeds(c, pc)
    BY <1>1
  <2>2. CallsOK'
    BY <2>1, GotoTypes
  <2> QED BY <2>1, <2>2 DEF Proceeds, PvOK
<1>2. CASE \E steps \in {AttachSteps, DetachSteps} : Poll(c, steps)
  BY <1>2, PollTypes
<1>3. CASE \E view \in Views : Answer(c, view)
  BY <1>3, AnswerTypes
<1>4. CASE call' = [d \in Calls |-> Idle] /\ UNCHANGED pv
  BY <1>4, IdleType DEF CallsOK, PvOK
<1> QED BY <1>1, <1>2, <1>3, <1>4 DEF CallStep

\* An error answer is one of these steps.
LEMMA ErrorSteps ==
    ASSUME TypeOK, NEW c \in Calls, call[c].pc # "idle", ErrorPath(c)
    PROVE  CallStep(c)
<1>1. CASE Fail(c)
  <2>1. pv[call[c].volume] \in Views
    BY CallFacts DEF TypeOK
  <2> QED BY <1>1, <2>1 DEF Fail, CallStep
<1>2. CASE ~Fail(c)
  <2>1. Goto(c, OnError(call[c].pc)) /\ UNCHANGED pv /\ OnError(call[c].pc) # "idle"
    BY <1>2 DEF ErrorPath
  <2>2. NextRequest(c, OnError(call[c].pc))
    BY <2>1 DEF NextRequest, OnError, Requests, PublishPC
  <2> QED BY <2>1, <2>2 DEF Proceeds, CallStep
<1> QED BY <1>1, <1>2

LEMMA HandlerCalls ==
    ASSUME TypeOK, NEW c \in Calls, HandlerStep(c)
    PROVE  CallStep(c)
<1> DEFINE v == call[c].volume
<1>a. call[c].pc # "idle"
  BY HandlerRequests
<1>b. v \in Volumes /\ pv[v] \in Views
  BY <1>a, CallFacts DEF TypeOK
<1>c. ASSUME Fail(c) PROVE CallStep(c)
  BY <1>b, <1>c DEF Fail, CallStep
<1>d. ASSUME Answer(c, Detached) \/ Answer(c, DeletedView) PROVE CallStep(c)
  BY <1>d, ViewTypes DEF CallStep
<1>e. ASSUME NEW pc, Proceeds(c, pc) PROVE CallStep(c)
  BY <1>e DEF CallStep
<1> HIDE DEF v
<1> USE DEF NextRequest, Requests, PublishPC, UnpublishPC, DeletePC
<1>1. CASE GetVolume(c)
  <2>1. CASE Fail(c)
    BY <2>1, <1>c
  <2>2. CASE ~Fail(c)
    <3>1. call[c].node \in Nodes
      BY <1>1 DEF GetVolume, TypeOK, CallRecord
    <3>2. PICK s \in {EcsNode[call[c].node]}
                       \cup (IF "nodeId" \in Faulty THEN {None} ELSE {}) :
               /\ call' = [call EXCEPT ![c] =
                              [@ EXCEPT !.pc = "createAttachment", !.server = s]]
               /\ UNCHANGED pv
      BY <1>1, <2>2 DEF GetVolume
    <3>3. s \in Servers \cup {None}
      BY <3>1, ControllerAssumption
    <3>4. Proceeds(c, "createAttachment")
      BY <1>1, <3>2, <3>3 DEF Proceeds, GetVolume
    <3> QED BY <3>4, <1>e
  <2> QED BY <2>1, <2>2
<1>2. CASE Create(c)
  BY <1>2, <1>e DEF Create, Proceeds
<1>3. CASE ConnectVolume(c)
  BY <1>3, <1>e DEF ConnectVolume, Proceeds
<1>4. CASE Update(c)
  BY <1>4, <1>e DEF Update, Proceeds
<1>5. CASE Complete(c)
  BY <1>5, <1>e DEF Complete, Proceeds
<1>6. CASE WaitAttached(c)
  <2>1. CASE Goto(c, "getPath") /\ UNCHANGED pv
    BY <1>6, <2>1, <1>e DEF WaitAttached, Proceeds
  <2>2. CASE Poll(c, AttachSteps)
    BY <2>2 DEF CallStep
  <2> QED BY <1>6, <2>1, <2>2 DEF WaitAttached
<1>7. CASE GetPath(c)
  <2>1. CASE Fail(c)
    BY <2>1, <1>c
  <2>2. CASE ~Fail(c)
    <3>1. PICK a \in OwnListed(c) :
             Answer(c, [phase |-> "attached", node |-> call[c].node, path |-> attachment[a].path])
      BY <1>7, <2>2 DEF GetPath
    <3>2. attachment[a].path \in Paths \cup {None}
      BY DEF OwnListed, Listed, Held, TypeOK, CinderTypeOK, AttachmentRecord
    <3>3. call[c].node \in Nodes
      BY <1>7 DEF GetPath, TypeOK, CallRecord
    <3>4. [phase |-> "attached", node |-> call[c].node, path |-> attachment[a].path] \in Views
      BY <3>2, <3>3 DEF Views, ViewFields, Phases
    <3> QED BY <3>1, <3>4 DEF CallStep
  <2> QED BY <2>1, <2>2
<1>8. CASE UndoConnect(c)
  BY <1>8, <1>e DEF UndoConnect, Proceeds
<1>9. CASE UndoCreate(c)
  BY <1>9, <1>c DEF UndoCreate
<1>10. CASE Begin(c)
  BY <1>10, <1>d, <1>e DEF Begin, Proceeds
<1>11. CASE ReadAttachments(c)
  <2>1. CASE \E a \in Listed(call[c].volume) :
               /\ call' = [call EXCEPT ![c] = [@ EXCEPT !.pc = "getAttachment", !.att = a]]
               /\ UNCHANGED pv
    <3>1. Listed(call[c].volume) \subseteq Attachments
      BY DEF Listed, Held
    <3> QED BY <1>11, <2>1, <3>1, <1>e DEF ReadAttachments, Proceeds
  <2>2. CASE Answer(c, Detached)
    BY <2>2, <1>d
  <2>3. CASE call' = [d \in Calls |-> Idle] /\ UNCHANGED pv
    BY <2>3 DEF CallStep
  <2> QED BY <1>11, <2>1, <2>2, <2>3 DEF ReadAttachments
<1>12. CASE GetAttachment(c)
  BY <1>12, <1>d, <1>e DEF GetAttachment, Proceeds
<1>13. CASE DisconnectVolume(c)
  BY <1>13, <1>e DEF DisconnectVolume, Proceeds
<1>14. CASE Release(c)
  BY <1>14, <1>d, <1>e DEF Release, Proceeds
<1>15. CASE WaitDetached(c)
  <2>1. CASE Poll(c, DetachSteps)
    BY <2>1 DEF CallStep
  <2> QED BY <1>15, <2>1, <1>d DEF WaitDetached
<1>16. CASE DiskIsUsed(c)
  BY <1>16, <1>c, <1>d, <1>e DEF DiskIsUsed, Proceeds
<1>17. CASE Delete(c)
  BY <1>17, <1>d DEF Delete
<1>18. CASE RequestRefused(c)
  BY <1>18, <1>a, ErrorSteps DEF RequestRefused
<1>19. CASE RequestFails(c)
  BY <1>19, <1>a, ErrorSteps DEF RequestFails
<1> QED BY HandlerCases, <1>1, <1>2, <1>3, <1>4, <1>5, <1>6, <1>7, <1>8, <1>9, <1>10, <1>11, <1>12, <1>13, <1>14, <1>15, <1>16, <1>17, <1>18, <1>19

\* A call that a sidecar starts.
LEMMA StartTypes ==
    ASSUME TypeOK, NEW c \in Calls, NEW v \in Volumes, NEW n \in Nodes \cup {None},
           NEW pc \in Requests, pc \in DeletePC \/ n \in Nodes, Start(c, v, n, pc)
    PROVE  CallsOK'
<1> DEFINE r == [Idle EXCEPT !.pc = pc, !.volume = v, !.node = n, !.waiting = TRUE]
<1>1. r \in CallRecord
  BY StepsPositive DEF Idle, CallRecord, CallFields, Requests, PublishPC, UnpublishPC, DeletePC
<1>2. call' = [call EXCEPT ![c] = r]
  BY DEF Start
<1> HIDE DEF r
<1> QED BY <1>1, <1>2 DEF CallsOK, TypeOK

\* The types of the services' variables follow from what is asked of them.
LEMMA RequestTypes ==
    ASSUME TypeOK, NEW c \in Calls, HandlerStep(c)
    PROVE  CinderTypeOK' /\ BridgeTypeOK'
<1>1. /\ call[c].volume \in Volumes /\ call[c].node \in Nodes \cup {None}
      /\ call[c].server \in Servers \cup {None} /\ call[c].att \in Attachments \cup {None}
      /\ call[c].path \in Paths \cup {None}
  BY HandlerRequests, CallFacts
<1>2. CinderTypeOK'
  <2>1. CinderTypeOK
    BY DEF TypeOK
  <2>2. PICK a \in Attachments \cup {None} :
           \/ CreateAttachment(a, call[c].volume, call[c].node, call[c].server)
           \/ UpdateAttachment(a, call[c].volume, call[c].path)
           \/ CompleteAttachment(a, call[c].volume)
           \/ BeginDetaching(call[c].volume)
           \/ ReleaseAttachment(a, call[c].volume)
           \/ DeleteVolume(call[c].volume)
           \/ UNCHANGED <<status, attachment>>
    BY <1>1, HandlerRequests DEF CinderRequest
  <2> QED BY <1>1, <2>1, <2>2, CinderTypes
<1>3. BridgeTypeOK'
  <2>1. BridgeTypeOK
    BY DEF TypeOK
  <2>2. CASE UNCHANGED device
    BY <2>1, <2>2 DEF BridgeTypeOK
  <2>3. CASE \E p \in Paths : Connect(call[c].node, call[c].volume, p)
    BY <1>1, <2>1, <2>3, ConnectTypes
  <2>4. CASE Disconnect(call[c].node, call[c].volume)
    BY <1>1, <2>1, <2>4, DisconnectTypes
  <2> QED BY <2>2, <2>3, <2>4, HandlerRequests DEF BridgeRequest
<1> QED BY <1>2, <1>3

LEMMA TypeStep ==
    ASSUME TypeOK, [Next]_vars
    PROVE  TypeOK'
<1> USE DEF backend, bounds
<1>0. CinderTypeOK /\ BridgeTypeOK /\ CallsOK /\ PvOK
      /\ microversion \in Microversions /\ faults \in Nat /\ restarts \in Nat
  BY DEF TypeOK, CallsOK, PvOK
<1>a. ASSUME CinderTypeOK', BridgeTypeOK', CallsOK', PvOK',
             microversion' \in Microversions, faults' \in Nat, restarts' \in Nat
      PROVE  TypeOK'
  BY <1>a DEF TypeOK, CallsOK, PvOK
<1>b. UNCHANGED <<status, attachment, device>> => CinderTypeOK' /\ BridgeTypeOK'
  BY <1>0 DEF CinderTypeOK, BridgeTypeOK, AttachmentRecord
<1>c. ASSUME NEW v \in Volumes, NEW view \in Views, pv' = [pv EXCEPT ![v] = view]
      PROVE  PvOK'
  BY <1>0, <1>c DEF PvOK
<1>d. ASSUME NEW v \in Volumes, pv[v].node \in Nodes \/ pv'[v].phase = "deleting",
             \E ph \in Phases : pv' = [pv EXCEPT ![v].phase = ph]
      PROVE  PvOK'
  BY <1>0, <1>d DEF PvOK, Views, ViewFields, Phases
<1>1. ASSUME NEW c \in Calls, HandlerStep(c)
      PROVE  TypeOK'
  <2>1. CallsOK' /\ PvOK'
    BY <1>0, <1>1, HandlerCalls, HandlerRequests, CallStepTypes
  <2>2. microversion' \in Microversions /\ faults' \in Nat /\ restarts' \in Nat
    <3>1. /\ microversion' \in {microversion, "none", "3.54"}
          /\ faults' \in {faults, faults + 1} /\ restarts' = restarts
      BY <1>1, HandlerCases
         DEF GetVolume, Create, ConnectVolume, Update, Complete, WaitAttached, GetPath,
             UndoConnect, UndoCreate, Begin, ReadAttachments, GetAttachment,
             DisconnectVolume, Release, WaitDetached, DiskIsUsed, Delete,
             RequestRefused, RequestFails, SetsMicroversion
    <3> QED BY <1>0, <3>1 DEF Microversions
  <2> QED BY <1>1, <1>a, <2>1, <2>2, RequestTypes
<1>2. ASSUME NEW c \in Calls, DeadlineExpires(c)
      PROVE  TypeOK'
  <2> DEFINE r == [call[c] EXCEPT !.waiting = FALSE]
  <2>1. r \in CallRecord
    BY <1>0 DEF CallsOK, CallRecord, CallFields
  <2>2. call' = [call EXCEPT ![c] = r]
    BY <1>2 DEF DeadlineExpires
  <2> HIDE DEF r
  <2>3. CallsOK'
    BY <1>0, <2>1, <2>2 DEF CallsOK
  <2> QED BY <1>0, <1>2, <1>a, <1>b, <2>3 DEF DeadlineExpires, PvOK
<1>3. ASSUME NEW c \in Calls, NEW v \in Volumes, NEW n \in Nodes, CallPublish(c, v, n)
      PROVE  TypeOK'
  <2>1. [phase |-> "attaching", node |-> n, path |-> None] \in Views
    BY DEF Views, ViewFields, Phases
  <2>2. PvOK'
    BY <1>3, <1>c, <2>1 DEF CallPublish
  <2>3. CallsOK'
    BY <1>3, StartTypes DEF CallPublish, Requests, PublishPC
  <2> QED BY <1>0, <1>3, <1>a, <1>b, <2>2, <2>3 DEF CallPublish, Start
<1>4. ASSUME NEW c \in Calls, NEW v \in Volumes, CallUnpublish(c, v)
      PROVE  TypeOK'
  <2>1. pv[v].node \in Nodes
    BY <1>0, <1>4 DEF CallUnpublish, PvOK, Views
  <2>2. PvOK'
    BY <1>4, <1>d, <2>1 DEF CallUnpublish, Phases
  <2>3. CallsOK'
    BY <1>4, <2>1, StartTypes DEF CallUnpublish, Requests, UnpublishPC
  <2> QED BY <1>0, <1>4, <1>a, <1>b, <2>2, <2>3 DEF CallUnpublish, Start
<1>5. ASSUME NEW c \in Calls, NEW v \in Volumes, CallDelete(c, v)
      PROVE  TypeOK'
  <2>1. pv'[v].phase = "deleting"
    BY <1>0, <1>5 DEF CallDelete, PvOK, Views, ViewFields
  <2>2. PvOK'
    BY <1>5, <1>d, <2>1 DEF CallDelete, Phases
  <2>3. CallsOK'
    BY <1>5, StartTypes DEF CallDelete, Requests, DeletePC
  <2> QED BY <1>0, <1>5, <1>a, <1>b, <2>2, <2>3 DEF CallDelete, Start
<1>6. ASSUME NEW v \in Volumes, CinderWorks(v)
      PROVE  TypeOK'
  <2>1. CinderTypeOK'
    BY <1>0, <1>6 DEF CinderWorks, FinishCreation, FinishDeletion, CinderTypeOK, Statuses
  <2> QED BY <1>0, <1>6, <1>a, <2>1 DEF CinderWorks, CallsOK, PvOK, BridgeTypeOK
<1>7. CASE LookupByName
  BY <1>0, <1>7, <1>a, <1>b DEF LookupByName, CallsOK, PvOK, Microversions
<1>8. CASE Restart
  BY <1>0, <1>8, <1>a, <1>b, IdleType DEF Restart, CallsOK, PvOK, Microversions
<1>9. CASE UNCHANGED vars
  BY <1>0, <1>9, <1>a, <1>b DEF vars, CallsOK, PvOK
<1> QED BY <1>1, <1>2, <1>3, <1>4, <1>5, <1>6, <1>7, <1>8, <1>9 DEF Next, HandlerStep

LEMMA TypeInit == Init => TypeOK
  BY IdleType, ViewTypes
     DEF Init, CinderInit, BridgeInit, TypeOK, CinderTypeOK, BridgeTypeOK, Statuses,
         AttachmentRecord, NoAttachment, Microversions

\* Every reachable state is well formed: handlers, sidecars, Cinder and bridges
\* never leave the values the model gives them.
THEOREM TypeCorrect == Spec => []TypeOK
  BY TypeInit, TypeStep, PTL DEF Spec

-----------------------------------------------------------------------------
(* A volume is attached to one node only *)

\* The statuses of a volume that is not in use for a node.
Unused == {"creating", "available", "error", "deleting", "deleted"}

\* A volume that may be reserved or deleted has no attachments: Cinder's status
\* is not ahead of its attachments, whatever was interrupted.
FreeUnheld ==
    \A v \in Volumes : status[v] \in Unused => Held(v) = {}

\* An attachment is known by the id of its node or by no id at all.
OwnServer ==
    \A a \in Attachments : attachment[a].volume # None =>
        /\ attachment[a].node \in Nodes
        /\ attachment[a].server \in {EcsNode[attachment[a].node], None}

CallServer ==
    \A c \in Calls : call[c].pc = "createAttachment" =>
        call[c].server \in {EcsNode[call[c].node], None}

SingleNodeInv == FreeUnheld /\ OwnServer /\ CallServer /\ SingleNodeAttached

\* The requests other than the creation of an attachment neither move an
\* attachment to another volume or node nor make one.
Shrinks ==
    \A a \in Attachments :
        \/ attachment'[a].volume = None
        \/ /\ attachment'[a].volume = attachment[a].volume
           /\ attachment'[a].node = attachment[a].node
           /\ attachment'[a].server = attachment[a].server

LEMMA ShrinkSteps ==
    ASSUME CinderTypeOK, NEW a, NEW v \in Volumes, NEW p,
           \/ UpdateAttachment(a, v, p) \/ CompleteAttachment(a, v)
           \/ BeginDetaching(v) \/ ReleaseAttachment(a, v) \/ DeleteVolume(v)
           \/ FinishCreation(v) \/ FinishDeletion(v) \/ UNCHANGED <<status, attachment>>
    PROVE  Shrinks
  BY DEF Shrinks, CinderTypeOK, UpdateAttachment, CompleteAttachment, BeginDetaching,
         ReleaseAttachment, DeleteVolume, FinishCreation, FinishDeletion, Held, NoAttachment, AttachmentRecord

LEMMA FreeSteps ==
    ASSUME CinderTypeOK, FreeUnheld, NEW a, NEW v \in Volumes, NEW p, Shrinks,
           \/ UpdateAttachment(a, v, p) \/ CompleteAttachment(a, v)
           \/ BeginDetaching(v) \/ ReleaseAttachment(a, v) \/ DeleteVolume(v)
           \/ FinishCreation(v) \/ FinishDeletion(v) \/ UNCHANGED <<status, attachment>>
    PROVE  FreeUnheld'
<1> SUFFICES ASSUME NEW u \in Volumes,
                    status'[u] \in Unused,
                    NEW b \in Attachments, attachment'[b].volume = u
             PROVE  FALSE
  BY DEF FreeUnheld, Held
<1>1. attachment[b].volume = u
  BY ClusterAssumption DEF Shrinks
<1>2. status[u] \notin Unused
  BY <1>1 DEF FreeUnheld, Held
<1>3. CASE UpdateAttachment(a, v, p) \/ CompleteAttachment(a, v)
  BY <1>2, <1>3 DEF UpdateAttachment, CompleteAttachment, CinderTypeOK, Unused
<1>4. CASE BeginDetaching(v) \/ DeleteVolume(v) \/ FinishCreation(v) \/ FinishDeletion(v)
  BY <1>2, <1>4
     DEF BeginDetaching, DeleteVolume, Deletable, FinishCreation, FinishDeletion,
         CinderTypeOK, Unused
<1>5. CASE ReleaseAttachment(a, v)
  <2>1. u = v
    BY <1>2, <1>5 DEF ReleaseAttachment, CinderTypeOK, Unused
  <2>2. b = a
    BY <1>1, <1>5, <2>1 DEF ReleaseAttachment, CinderTypeOK, Held, Unused
  <2>3. attachment'[a].volume = None
    BY <1>5, <2>2 DEF ReleaseAttachment, CinderTypeOK, NoAttachment
  <2> QED BY <2>2, <2>3, ClusterAssumption
<1>6. CASE UNCHANGED <<status, attachment>>
  BY <1>2, <1>6
<1> QED BY <1>3, <1>4, <1>5, <1>6

LEMMA CreateSteps ==
    ASSUME CinderTypeOK, FreeUnheld, OwnServer, SingleNodeAttached,
           NEW a \in Attachments, NEW v \in Volumes, NEW n \in Nodes,
           NEW s \in {EcsNode[n], None}, CreateAttachment(a, v, n, s)
    PROVE  FreeUnheld' /\ OwnServer' /\ SingleNodeAttached'
<1> USE ClusterAssumption DEF CinderTypeOK
<1>1. /\ attachment' = [attachment EXCEPT ![a] =
             [volume |-> v, node |-> n, server |-> s, path |-> None, state |-> "attaching"]]
      /\ status' = [status EXCEPT ![v] = "attaching"]
      /\ attachment[a] = NoAttachment
  BY DEF CreateAttachment
<1>2. \A b \in Attachments \ {a} : attachment'[b] = attachment[b]
  BY <1>1
<1>3. /\ attachment'[a].volume = v /\ attachment'[a].node = n /\ attachment'[a].server = s
  BY <1>1
<1>4. FreeUnheld'
  BY <1>1, <1>2, <1>3 DEF FreeUnheld, Held, Unused
<1>5. OwnServer'
  BY <1>2, <1>3 DEF OwnServer
<1>6. \A b \in Held(v) : attachment[b].node = n
  <2>1. CASE status[v] = "available"
    BY <2>1 DEF FreeUnheld, Unused
  <2>2. CASE s # None /\ \E b \in Held(v) : attachment[b].server = s
    <3>1. PICK b \in Held(v) : attachment[b].server = s
      BY <2>2
    <3>2. attachment[b].node \in Nodes /\ EcsNode[attachment[b].node] = EcsNode[n]
      BY <2>2, <3>1 DEF OwnServer, Held
    <3>3. attachment[b].node = n
      BY <3>2, ControllerAssumption
    <3> QED BY <3>1, <3>3 DEF SingleNodeAttached
  <2> QED BY <2>1, <2>2 DEF CreateAttachment, CanReserve
<1>7. SingleNodeAttached'
  BY <1>2, <1>3, <1>6 DEF SingleNodeAttached, Held
<1> QED BY <1>4, <1>5, <1>7

LEMMA ShrinkKeeps ==
    ASSUME OwnServer, SingleNodeAttached, Shrinks
    PROVE  OwnServer' /\ SingleNodeAttached'
<1>1. OwnServer'
  BY DEF OwnServer, Shrinks
<1>2. SingleNodeAttached'
  BY ClusterAssumption DEF SingleNodeAttached, Held, Shrinks
<1> QED BY <1>1, <1>2

\* The only way to the creation of an attachment is through GetVolume, which
\* asks the node for its id.
LEMMA ToCreate ==
    ASSUME TypeOK, NEW c \in Calls, HandlerStep(c), NEW d \in Calls,
           call'[d].pc = "createAttachment", call'[d] # call[d]
    PROVE  GetVolume(c) /\ d = c /\ call[c].node \in Nodes
           /\ call'[d].node = call[c].node
           /\ call'[d].server \in {EcsNode[call[c].node], None}
<1> USE DEF Goto, Answer, Fail, Poll
<1>a. call \in [Calls -> CallRecord] /\ Idle.pc = "idle" /\ call[c] \in CallFields
  BY IdleType DEF TypeOK, CallRecord
<1>b. (\A e \in Calls \ {c} : call'[e] = call[e]) => d = c
  OBVIOUS
<1>1. CASE GetVolume(c)
  <2>1. ~Fail(c)
    BY <1>a, <1>1
  <2>2. PICK s \in {EcsNode[call[c].node]} \cup (IF "nodeId" \in Faulty THEN {None} ELSE {}) :
           call' = [call EXCEPT ![c] = [@ EXCEPT !.pc = "createAttachment", !.server = s]]
    BY <1>1, <2>1 DEF GetVolume
  <2>3. call'[c] = [call[c] EXCEPT !.pc = "createAttachment", !.server = s] /\ d = c
    BY <1>a, <2>2
  <2>4. call[c].node \in Nodes
    BY <1>1, <1>a DEF GetVolume, CallRecord, PublishPC
  <2> QED BY <1>1, <1>a, <2>2, <2>3, <2>4 DEF CallFields
<1>2. CASE Create(c)
  BY <1>a, <1>2 DEF Create, CallFields
<1>3. CASE ConnectVolume(c)
  BY <1>a, <1>3 DEF ConnectVolume, CallFields
<1>4. CASE Update(c)
  BY <1>a, <1>4 DEF Update, CallFields
<1>5. CASE Complete(c)
  BY <1>a, <1>5 DEF Complete, CallFields
<1>6. CASE WaitAttached(c)
  BY <1>a, <1>6 DEF WaitAttached, CallFields
<1>7. CASE GetPath(c)
  BY <1>a, <1>7 DEF GetPath, CallFields
<1>8. CASE UndoConnect(c)
  BY <1>a, <1>8 DEF UndoConnect, CallFields
<1>9. CASE UndoCreate(c)
  BY <1>a, <1>9 DEF UndoCreate, CallFields
<1>10. CASE Begin(c)
  BY <1>a, <1>10 DEF Begin, CallFields
<1>11. CASE ReadAttachments(c)
  BY <1>a, <1>11 DEF ReadAttachments, CallFields
<1>12. CASE GetAttachment(c)
  BY <1>a, <1>12 DEF GetAttachment, CallFields
<1>13. CASE DisconnectVolume(c)
  BY <1>a, <1>13 DEF DisconnectVolume, CallFields
<1>14. CASE Release(c)
  BY <1>a, <1>14 DEF Release, CallFields
<1>15. CASE WaitDetached(c)
  BY <1>a, <1>15 DEF WaitDetached, CallFields
<1>16. CASE DiskIsUsed(c)
  BY <1>a, <1>16 DEF DiskIsUsed, CallFields
<1>17. CASE Delete(c)
  BY <1>a, <1>17 DEF Delete, CallFields
<1>18. CASE RequestRefused(c) \/ RequestFails(c)
  BY <1>a, <1>18 DEF RequestRefused, RequestFails, ErrorPath, OnError, CallFields
<1> QED BY HandlerCases, <1>1, <1>2, <1>3, <1>4, <1>5, <1>6, <1>7, <1>8, <1>9, <1>10, <1>11, <1>12, <1>13, <1>14, <1>15, <1>16, <1>17, <1>18

LEMMA SingleNodeStep ==
    ASSUME TypeOK, SingleNodeInv, [Next]_vars
    PROVE  SingleNodeInv'
<1> USE DEF SingleNodeInv
<1>0. CinderTypeOK
  BY DEF TypeOK
<1>a. ASSUME UNCHANGED <<status, attachment>>
      PROVE  FreeUnheld' /\ OwnServer' /\ SingleNodeAttached'
  BY <1>a DEF FreeUnheld, OwnServer, SingleNodeAttached, Held
<1>b. ASSUME \A d \in Calls : call'[d].pc = "createAttachment" => call'[d] = call[d]
      PROVE  CallServer'
  BY <1>b DEF CallServer
<1>1. ASSUME NEW c \in Calls, HandlerStep(c)
      PROVE  SingleNodeInv'
  <2>1. call[c].volume \in Volumes /\ call[c].pc # "idle"
    BY <1>1, HandlerRequests, CallFacts
  <2>2. FreeUnheld' /\ OwnServer' /\ SingleNodeAttached'
    <3>1. CASE /\ call[c].pc = "createAttachment"
               /\ \E a \in Attachments : CreateAttachment(a, call[c].volume, call[c].node,
                                                          call[c].server)
      <4>1. call[c].node \in Nodes
        BY <3>1 DEF TypeOK, CallRecord, PublishPC
      <4>2. call[c].server \in {EcsNode[call[c].node], None}
        BY <3>1 DEF CallServer
      <4> QED BY <1>0, <2>1, <3>1, <4>1, <4>2, CreateSteps
    <3>2. CASE \/ UpdateAttachment(call[c].att, call[c].volume, call[c].path)
               \/ CompleteAttachment(call[c].att, call[c].volume)
               \/ BeginDetaching(call[c].volume)
               \/ ReleaseAttachment(call[c].att, call[c].volume)
               \/ DeleteVolume(call[c].volume)
               \/ UNCHANGED <<status, attachment>>
      <4>1. Shrinks
        BY <1>0, <2>1, <3>2, ShrinkSteps
      <4>2. FreeUnheld'
        BY <1>0, <2>1, <3>2, <4>1, FreeSteps
      <4> QED BY <4>1, <4>2, ShrinkKeeps
    <3> QED BY <1>1, <3>1, <3>2, HandlerRequests DEF CinderRequest
  <2>3. CallServer'
    BY <1>1, ToCreate DEF CallServer
  <2> QED BY <2>2, <2>3
<1>2. ASSUME NEW c \in Calls, NEW v \in Volumes, NEW n \in Nodes \cup {None},
             NEW pc \in {"getVolume", "beginDetaching", "diskIsUsed"}, Start(c, v, n, pc)
      PROVE  SingleNodeInv'
  <2>1. \A d \in Calls : call'[d].pc = "createAttachment" => call'[d] = call[d]
    BY <1>2 DEF Start, TypeOK, Idle
  <2> QED BY <1>2, <1>a, <1>b, <2>1 DEF Start, backend
<1>3. ASSUME NEW c \in Calls, DeadlineExpires(c)
      PROVE  SingleNodeInv'
  <2>1. CallServer'
    BY <1>3 DEF DeadlineExpires, CallServer, TypeOK, CallRecord, CallFields
  <2> QED BY <1>3, <1>a, <2>1 DEF DeadlineExpires, backend
<1>4. ASSUME NEW v \in Volumes, CinderWorks(v)
      PROVE  SingleNodeInv'
  <2>1. Shrinks
    BY <1>0, <1>4, ShrinkSteps DEF CinderWorks
  <2>2. FreeUnheld'
    BY <1>0, <1>4, <2>1, FreeSteps DEF CinderWorks
  <2> QED BY <1>4, <1>b, <2>1, <2>2, ShrinkKeeps DEF CinderWorks
<1>5. CASE LookupByName \/ UNCHANGED vars
  BY <1>5, <1>a, <1>b DEF LookupByName, vars, backend
<1>6. CASE Restart
  <2>1. \A d \in Calls : call'[d].pc # "createAttachment"
    BY <1>6, IdleType DEF Restart
  <2> QED BY <1>6, <1>a, <1>b, <2>1 DEF Restart, backend
<1>7. ASSUME NEW c \in Calls, NEW v \in Volumes, NEW n \in Nodes, CallPublish(c, v, n)
      PROVE  SingleNodeInv'
  BY <1>2, <1>7 DEF CallPublish
<1>8. ASSUME NEW c \in Calls, NEW v \in Volumes, CallUnpublish(c, v)
      PROVE  SingleNodeInv'
  <2>1. pv[v].node \in Nodes \cup {None}
    BY DEF TypeOK, Views, ViewFields
  <2> QED BY <1>2, <1>8, <2>1 DEF CallUnpublish
<1>9. ASSUME NEW c \in Calls, NEW v \in Volumes, CallDelete(c, v)
      PROVE  SingleNodeInv'
  BY <1>2, <1>9 DEF CallDelete
<1> QED BY <1>1, <1>3, <1>4, <1>5, <1>6, <1>7, <1>8, <1>9 DEF Next, HandlerStep

LEMMA SingleNodeInit == Init => SingleNodeInv
  BY IdleType, ClusterAssumption
     DEF Init, CinderInit, NoAttachment, SingleNodeInv, FreeUnheld, OwnServer, CallServer,
         SingleNodeAttached, Held

LEMMA SingleNodeInvariant == Spec => []SingleNodeInv
  BY SingleNodeInit, SingleNodeStep, TypeCorrect, PTL DEF Spec

\* A volume is attached to one node only, whatever fails, however often the
\* plugin restarts, and also when calls that their callers gave up on go on.
THEOREM SingleNodeCorrect == Spec => []SingleNodeAttached
<1>1. SingleNodeInv => SingleNodeAttached
  BY DEF SingleNodeInv
<1> QED BY <1>1, SingleNodeInvariant, PTL

-----------------------------------------------------------------------------
(* Devices and attachments while calls overlap, where the bridge refuses to  *)
(* disconnect what it has not connected: `rbd unmap`                         *)

\* The attachments of a volume to a node.
HeldOn(n, v) == {a \in Held(v) : attachment[a].node = n}

LEMMA Finite ==
    ASSUME IsFiniteSet(Attachments), IsFiniteSet(Paths), NEW n, NEW v
    PROVE  /\ IsFiniteSet(HeldOn(n, v)) /\ Cardinality(HeldOn(n, v)) \in Nat
           /\ IsFiniteSet(Mapped(n, v)) /\ Cardinality(Mapped(n, v)) \in Nat
<1>1. HeldOn(n, v) \in SUBSET Attachments /\ Mapped(n, v) \in SUBSET Paths
  BY DEF HeldOn, Held, Mapped
<1>2. IsFiniteSet(HeldOn(n, v)) /\ IsFiniteSet(Mapped(n, v))
  BY <1>1, FS_Subset
<1> QED BY <1>2, FS_CardinalityType

\* An attachment without a device: a handler is about to connect it, or has
\* disconnected it and is about to release it.
BarePC == {"connect", "undoCreate", "release"}

Bare(a) == \E c \in Calls : call[c].att = a /\ call[c].pc \in BarePC

Backed(n, v) == {a \in HeldOn(n, v) : ~Bare(a)}

\* A node has at most one device of a volume for each of its other attachments.
BackedDevices ==
    \A n \in Nodes, v \in Volumes : Cardinality(Mapped(n, v)) <= Cardinality(Backed(n, v))

\* The attachment that a handler has seen is still one of its volume, or is gone: an
\* identifier in use is not given to another volume.
OfVolume(c) ==
    call[c].att # None => attachment[call[c].att].volume \in {None, call[c].volume}

\* Nobody else knows the attachment that a handler is about to connect, as it is
\* not listed yet.
Fresh(c) ==
    call[c].pc = "connect" =>
        /\ call[c].att \in HeldOn(call[c].node, call[c].volume)
        /\ attachment[call[c].att].state = "attaching"
        /\ \A d \in Calls \ {c} : call[d].att # call[c].att

OverlapInv ==
    /\ TypeOK /\ SingleNodeInv /\ BackedDevices
    /\ \A c \in Calls : OfVolume(c) /\ Fresh(c)

\* Volumes of Ceph alone.
OnlyRbd == \A v \in Volumes : Transport[v] = "rbd"

LEMMA FiniteBacked ==
    ASSUME IsFiniteSet(Attachments), NEW n, NEW v
    PROVE  IsFiniteSet(Backed(n, v)) /\ Cardinality(Backed(n, v)) \in Nat
<1>1. Backed(n, v) \in SUBSET Attachments
  BY DEF Backed, HeldOn, Held
<1>2. IsFiniteSet(Backed(n, v))
  BY <1>1, FS_Subset
<1> QED BY <1>2, FS_CardinalityType

\* What a step of a handler leaves of its own call: it keeps its attachment, or
\* takes one that is new or listed.
Moves(c) ==
    /\ call'[c].volume = call[c].volume /\ call'[c].node = call[c].node
    /\ \/ /\ call'[c].att = call[c].att
          /\ \/ call'[c].pc \notin BarePC
             \/ call[c].pc = "connect" /\ call'[c].pc = "undoCreate"
             \/ UndoConnect(c) /\ call'[c].pc = "undoCreate"
             \/ DisconnectVolume(c) /\ call'[c].pc = "release"
       \/ /\ call'[c].pc = "connect" /\ call'[c].att \in Attachments
          /\ \A d \in Calls : call[d].att # call'[c].att
          /\ CreateAttachment(call'[c].att, call[c].volume, call[c].node, call[c].server)
       \/ /\ call'[c].pc = "getAttachment" /\ call'[c].att \in Listed(call[c].volume)
          /\ UNCHANGED <<status, attachment, device>>

LEMMA HandlerMoves ==
    ASSUME TypeOK, NEW c \in Calls, HandlerStep(c)
    PROVE  /\ call'[c] = Idle \/ Moves(c)
           /\ \A d \in Calls \ {c} : call'[d] = call[d] \/ call'[d] = Idle
<1> USE DEF Goto, Answer, Fail, Poll, BarePC, Moves, backend
<1>a. call \in [Calls -> CallRecord] /\ call[c] \in CallFields
  BY DEF TypeOK, CallRecord
<1>1. CASE GetVolume(c)
  <2>1. CASE Fail(c)
    BY <1>a, <2>1
  <2>2. CASE \E s : call' = [call EXCEPT ![c] = [@ EXCEPT !.pc = "createAttachment", !.server = s]]
    <3>1. PICK s : call'[c] = [call[c] EXCEPT !.pc = "createAttachment", !.server = s]
                   /\ \A d \in Calls \ {c} : call'[d] = call[d]
      BY <1>a, <2>2
    <3> QED BY <1>a, <3>1 DEF CallFields
  <2> QED BY <1>1, <2>1, <2>2 DEF GetVolume
<1>2. CASE Create(c)
  BY <1>a, <1>2 DEF Create, CallFields
<1>3. CASE ConnectVolume(c)
  BY <1>a, <1>3 DEF ConnectVolume, CallFields
<1>4. CASE Update(c)
  BY <1>a, <1>4 DEF Update, CallFields
<1>5. CASE Complete(c)
  BY <1>a, <1>5 DEF Complete, CallFields
<1>6. CASE WaitAttached(c)
  BY <1>a, <1>6 DEF WaitAttached, CallFields
<1>7. CASE GetPath(c)
  BY <1>a, <1>7 DEF GetPath, CallFields
<1>8. CASE UndoConnect(c)
  <2>1. call' = [call EXCEPT ![c].pc = "undoCreate"]
    BY <1>8 DEF UndoConnect
  <2> QED BY <1>a, <1>8, <2>1 DEF CallFields
<1>9. CASE UndoCreate(c)
  BY <1>a, <1>9 DEF UndoCreate, CallFields
<1>10. CASE Begin(c)
  BY <1>a, <1>10 DEF Begin, CallFields
<1>11. CASE ReadAttachments(c)
  <2>1. CASE \E a \in Listed(call[c].volume) :
               call' = [call EXCEPT ![c] = [@ EXCEPT !.pc = "getAttachment", !.att = a]]
    <3>1. PICK a \in Listed(call[c].volume) :
             /\ call'[c] = [call[c] EXCEPT !.pc = "getAttachment", !.att = a]
             /\ \A d \in Calls \ {c} : call'[d] = call[d]
      BY <1>a, <2>1
    <3> QED BY <1>a, <1>11, <3>1 DEF ReadAttachments, CallFields
  <2>2. CASE Answer(c, Detached) \/ call' = [d \in Calls |-> Idle]
    BY <1>a, <2>2
  <2> QED BY <1>11, <2>1, <2>2 DEF ReadAttachments
<1>12. CASE GetAttachment(c)
  BY <1>a, <1>12 DEF GetAttachment, CallFields
<1>13. CASE DisconnectVolume(c)
  <2>1. call' = [call EXCEPT ![c].pc = "release"]
    BY <1>13 DEF DisconnectVolume
  <2> QED BY <1>a, <1>13, <2>1 DEF CallFields
<1>14. CASE Release(c)
  <2>1. CASE Answer(c, Detached)
    BY <1>a, <2>1
  <2>2. CASE call' = [call EXCEPT ![c] = [@ EXCEPT !.pc = "waitDetached", !.tries = 0]]
    <3>1. /\ call'[c] = [call[c] EXCEPT !.pc = "waitDetached", !.tries = 0]
          /\ \A d \in Calls \ {c} : call'[d] = call[d]
      BY <1>a, <2>2
    <3> QED BY <1>a, <3>1 DEF CallFields
  <2> QED BY <1>14, <2>1, <2>2 DEF Release
<1>15. CASE WaitDetached(c)
  BY <1>a, <1>15 DEF WaitDetached, CallFields
<1>16. CASE DiskIsUsed(c)
  BY <1>a, <1>16 DEF DiskIsUsed, CallFields
<1>17. CASE Delete(c)
  BY <1>a, <1>17 DEF Delete, CallFields
<1>18. CASE RequestRefused(c) \/ RequestFails(c)
  BY <1>a, <1>18 DEF RequestRefused, RequestFails, ErrorPath, OnError, CallFields
<1> QED BY HandlerCases, <1>1, <1>2, <1>3, <1>4, <1>5, <1>6, <1>7, <1>8, <1>9, <1>10, <1>11,
           <1>12, <1>13, <1>14, <1>15, <1>16, <1>17, <1>18

\* A handler touches the attachment of its call, or one that no call knows, and only
\* releasing one takes it from its volume.
LEMMA Touches ==
    ASSUME TypeOK, NEW c \in Calls, HandlerStep(c), NEW a \in Attachments
    PROVE  /\ \/ attachment'[a] = attachment[a]
              \/ a = call[c].att /\ a \in Held(call[c].volume)
              \/ attachment[a] = NoAttachment /\ \A d \in Calls : call[d].att # a
           /\ \/ attachment[a].volume = None
              \/ attachment'[a].volume = attachment[a].volume
                    /\ attachment'[a].node = attachment[a].node
              \/ a = call[c].att /\ call[c].pc \in {"undoCreate", "release"}
                    /\ attachment'[a].volume = None
<1>1. attachment \in [Attachments -> AttachmentRecord] /\ attachment[a] \in AttachmentRecord
  BY DEF TypeOK, CinderTypeOK
<1>2. CASE \E b \in Attachments : /\ \A d \in Calls : call[d].att # b
                                  /\ CreateAttachment(b, call[c].volume, call[c].node, call[c].server)
  BY <1>1, <1>2 DEF CreateAttachment, NoAttachment
<1>3. CASE UpdateAttachment(call[c].att, call[c].volume, call[c].path)
  BY <1>1, <1>3 DEF UpdateAttachment, AttachmentRecord
<1>4. CASE CompleteAttachment(call[c].att, call[c].volume)
  BY <1>1, <1>4 DEF CompleteAttachment, AttachmentRecord
<1>5. CASE /\ call[c].pc \in {"undoCreate", "release"}
           /\ ReleaseAttachment(call[c].att, call[c].volume)
  BY <1>1, <1>5 DEF ReleaseAttachment, NoAttachment
<1>6. CASE UNCHANGED attachment
  BY <1>6
<1> QED BY HandlerRequests, <1>2, <1>3, <1>4, <1>5, <1>6
        DEF CinderRequest, BeginDetaching, DeleteVolume

\* What a handler does to the devices: only the request of AttachVolume connects one.
LEMMA DeviceChanges ==
    ASSUME NEW c \in Calls, HandlerStep(c)
    PROVE  \/ ConnectVolume(c)
           \/ UNCHANGED device
           \/ /\ call[c].pc \in {"undoConnect", "disconnect"}
              /\ Disconnect(call[c].node, call[c].volume)
<1>1. CASE RequestFails(c)
  BY <1>1 DEF RequestFails, Effect, backend
<1>2. CASE ~RequestFails(c)
  BY <1>2, HandlerCases
     DEF GetVolume, Create, Update, Complete, WaitAttached, GetPath, UndoConnect, UndoCreate, Begin,
         ReadAttachments, GetAttachment, DisconnectVolume, Release, WaitDetached, DiskIsUsed,
         Delete, RequestRefused, backend
<1> QED BY <1>1, <1>2

-----------------------------------------------------------------------------
(* What the steps of a handler preserve *)

LEMMA OfVolumeStep ==
    ASSUME OverlapInv, NEW c \in Calls, HandlerStep(c), TypeOK', NEW d \in Calls
    PROVE  OfVolume(d)'
<1>0. TypeOK /\ OfVolume(c) /\ OfVolume(d)
  BY DEF OverlapInv
<1>1. CASE call'[d] = Idle
  BY <1>1 DEF OfVolume, Idle
<1>2. CASE call'[d].att = call[d].att /\ call'[d].volume = call[d].volume
  <2>1. CASE call[d].att = None
    BY <1>2, <2>1 DEF OfVolume
  <2>2. CASE call[d].att # None
    <3>1. call[d].att \in Attachments
      BY <1>0, <2>2 DEF TypeOK, CallRecord, CallFields
    <3>2. PICK a \in Attachments : a = call[d].att
      BY <3>1
    <3>3. attachment'[a].volume \in {attachment[a].volume, None}
      <4>1. attachment'[a] = attachment[a] \/ a \in Held(call[c].volume)
        BY <1>0, <3>2, Touches
      <4>2. call[c].volume # None
        BY HandlerRequests, CallFacts, <1>0, ClusterAssumption
      <4>3. attachment'[a] = attachment[a] \/ attachment[a].volume # None
        BY <4>1, <4>2 DEF Held
      <4> QED BY <1>0, <4>3, Touches
    <3> QED BY <1>0, <1>2, <2>2, <3>2, <3>3 DEF OfVolume
  <2> QED BY <2>1, <2>2
<1>3. CASE d = c /\ Moves(c) /\ call'[c].att # call[c].att
  <2>1. PICK a : a = call'[c].att
    OBVIOUS
  <2>2. attachment'[a].volume = call[c].volume
    <3>1. attachment \in [Attachments -> AttachmentRecord]
      BY <1>0 DEF TypeOK, CinderTypeOK
    <3>2. CASE a \in Attachments /\ CreateAttachment(a, call[c].volume, call[c].node, call[c].server)
      BY <3>1, <3>2 DEF CreateAttachment
    <3>3. CASE a \in Listed(call[c].volume) /\ UNCHANGED attachment
      BY <3>3 DEF Listed, Held
    <3> QED BY <1>3, <2>1, <3>2, <3>3 DEF Moves
  <2> QED BY <1>3, <2>1, <2>2 DEF Moves, OfVolume
<1> QED BY <1>0, <1>1, <1>2, <1>3, HandlerMoves DEF Moves

LEMMA FreshStep ==
    ASSUME OverlapInv, NEW c \in Calls, HandlerStep(c), TypeOK', NEW d \in Calls
    PROVE  Fresh(d)'
<1>0. TypeOK /\ Fresh(c) /\ Fresh(d) /\ attachment \in [Attachments -> AttachmentRecord]
  BY DEF OverlapInv, TypeOK, CinderTypeOK
<1> SUFFICES ASSUME call'[d].pc = "connect"
             PROVE  Fresh(d)'
  BY DEF Fresh
<1>1. call'[c] = Idle \/ Moves(c)
  BY <1>0, HandlerMoves
<1>2. call'[d] # Idle /\ Idle.att = None
  BY IdleType DEF Idle
<1>3. CASE d = c
  <2>1. /\ call'[c].volume = call[c].volume /\ call'[c].node = call[c].node
        /\ call'[c].att \in Attachments /\ \A e \in Calls : call[e].att # call'[c].att
        /\ CreateAttachment(call'[c].att, call[c].volume, call[c].node, call[c].server)
    BY <1>1, <1>2, <1>3 DEF Moves, BarePC
  <2>2. PICK a \in Attachments : a = call'[c].att
    BY <2>1
  <2>3. /\ attachment'[a].volume = call[c].volume /\ attachment'[a].node = call[c].node
        /\ attachment'[a].state = "attaching"
    BY <1>0, <2>1, <2>2 DEF CreateAttachment
  <2>4. \A e \in Calls \ {c} : call'[e].att # a
    BY <1>0, <1>2, <2>1, <2>2, HandlerMoves, ControllerAssumption
  <2> QED BY <1>3, <2>1, <2>2, <2>3, <2>4 DEF Fresh, HeldOn, Held
<1>4. CASE d # c
  <2>1. call'[d] = call[d]
    BY <1>0, <1>2, <1>4, HandlerMoves
  <2>2. PICK a \in Attachments :
           /\ a = call[d].att /\ a \in HeldOn(call[d].node, call[d].volume)
           /\ attachment[a].state = "attaching" /\ \A e \in Calls \ {d} : call[e].att # a
    BY <1>0, <2>1 DEF Fresh, HeldOn, Held
  <2>3. attachment'[a] = attachment[a]
    BY <1>0, <1>4, <2>2, Touches
  <2>4. call'[c].att # a
    BY <1>1, <1>2, <1>4, <2>2, ControllerAssumption DEF Moves, Listed
  <2>5. \A e \in Calls \ {d} : call'[e].att # a
    BY <1>0, <1>2, <2>2, <2>4, HandlerMoves, ControllerAssumption
  <2> QED BY <2>1, <2>2, <2>3, <2>5 DEF Fresh, HeldOn, Held
<1> QED BY <1>3, <1>4

\* Unless it has just disconnected a device, a handler leaves every attachment that has
\* one as it is: it releases only what is bare already.
LEMMA StaysBacked ==
    ASSUME OverlapInv, NEW c \in Calls, HandlerStep(c), NEW n \in Nodes, NEW v \in Volumes,
           NEW a \in Backed(n, v)
    PROVE  \/ a \in Backed(n, v)'
           \/ (UndoConnect(c) \/ DisconnectVolume(c)) /\ a = call[c].att
<1>0. TypeOK /\ a \in Attachments /\ a \in HeldOn(n, v) /\ ~Bare(a) /\ v # None
  BY ClusterAssumption DEF OverlapInv, Backed, HeldOn, Held
<1>1. a \in HeldOn(n, v)'
  <2>1. ~(a = call[c].att /\ call[c].pc \in {"undoCreate", "release"})
    BY <1>0 DEF Bare, BarePC
  <2> QED BY <1>0, <2>1, Touches DEF HeldOn, Held
<1>2. ASSUME NEW d \in Calls, call'[d].att = a, call'[d].pc \in BarePC
      PROVE  (UndoConnect(c) \/ DisconnectVolume(c)) /\ a = call[c].att
  <2>1. call'[d] # Idle
    BY <1>2, IdleType DEF BarePC
  <2>2. call'[d] # call[d]
    BY <1>0, <1>2 DEF Bare
  <2>3. d = c /\ Moves(c)
    BY <1>0, <2>1, <2>2, HandlerMoves
  <2>4. ~CreateAttachment(a, call[c].volume, call[c].node, call[c].server)
    BY <1>0 DEF CreateAttachment, HeldOn, Held, NoAttachment
  <2>5. ~(call[c].pc = "connect" /\ call[c].att = a)
    BY <1>0 DEF Bare, BarePC
  <2> QED BY <1>2, <2>3, <2>4, <2>5 DEF Moves, BarePC
<1> QED BY <1>1, <1>2 DEF Backed, Bare

\* Fewer devices, or more attachments that have one, keep the balance.
LEMMA Balance ==
    ASSUME IsFiniteSet(Attachments), IsFiniteSet(Paths), NEW n, NEW v,
           Cardinality(Mapped(n, v)) <= Cardinality(Backed(n, v)),
           Mapped(n, v)' \subseteq Mapped(n, v), Backed(n, v) \subseteq Backed(n, v)'
    PROVE  Cardinality(Mapped(n, v)') <= Cardinality(Backed(n, v)')
<1>1. PICK S, T, U, W : S = Mapped(n, v) /\ T = Mapped(n, v)' /\ U = Backed(n, v) /\ W = Backed(n, v)'
  OBVIOUS
<1>2. IsFiniteSet(S) /\ IsFiniteSet(W)
  <2>1. W \in SUBSET Attachments
    BY <1>1 DEF Backed, HeldOn, Held
  <2> QED BY <1>1, <2>1, Finite, FS_Subset
<1>3. Cardinality(T) <= Cardinality(S) /\ Cardinality(U) <= Cardinality(W)
  BY <1>1, <1>2, FS_Subset
<1>4. /\ Cardinality(S) \in Nat /\ Cardinality(T) \in Nat
      /\ Cardinality(U) \in Nat /\ Cardinality(W) \in Nat
  BY <1>1, <1>2, FS_Subset, FS_CardinalityType
<1>5. Cardinality(S) <= Cardinality(U)
  BY <1>1
<1> QED BY <1>1, <1>3, <1>4, <1>5

\* The device that is connected is that of an attachment that has had none.
LEMMA ConnectBalance ==
    ASSUME OnlyRbd, IsFiniteSet(Attachments), IsFiniteSet(Paths), OverlapInv,
           NEW c \in Calls, ConnectVolume(c)
    PROVE  BackedDevices'
<1>1. PICK n \in Nodes, v \in Volumes : n = call[c].node /\ v = call[c].volume
  BY DEF ConnectVolume, OverlapInv, TypeOK, CallRecord, PublishPC
<1>2. PICK p \in Paths : device[n][p] = None /\ device' = [device EXCEPT ![n][p] = v]
  BY <1>1 DEF ConnectVolume, Connect, OnlyRbd
<1>3. device \in [Nodes -> [Paths -> Volumes \cup {None}]] /\ v # None
  BY ClusterAssumption DEF OverlapInv, TypeOK, BridgeTypeOK
<1>4. HandlerStep(c) /\ ~UndoConnect(c) /\ ~DisconnectVolume(c)
  BY DEF HandlerStep, Handler, Publish, ConnectVolume, UndoConnect, DisconnectVolume
<1>5. \A m \in Nodes, u \in Volumes : Backed(m, u) \subseteq Backed(m, u)'
  BY <1>4, StaysBacked
<1>6. ASSUME NEW m \in Nodes, NEW u \in Volumes, m # n \/ u # v
      PROVE  Cardinality(Mapped(m, u)') <= Cardinality(Backed(m, u)')
  <2>1. Mapped(m, u)' \subseteq Mapped(m, u)
    BY <1>2, <1>3, <1>6 DEF Mapped
  <2> QED BY <1>5, <2>1, Balance DEF OverlapInv, BackedDevices
<1>7. PICK a \in Attachments :
         /\ a = call[c].att /\ a \in HeldOn(n, v) /\ \A d \in Calls \ {c} : call[d].att # a
  BY <1>1 DEF ConnectVolume, OverlapInv, Fresh, HeldOn, Held
<1>8. Bare(a)
  BY <1>7 DEF Bare, BarePC, ConnectVolume
<1>9. ~Bare(a)'
  <2>1. call'[c].pc = "update"
    BY <1>4 DEF ConnectVolume, OverlapInv, TypeOK, CallRecord, CallFields
  <2>2. \A d \in Calls \ {c} : call'[d] = call[d]
    BY DEF ConnectVolume, OverlapInv, TypeOK
  <2> QED BY <1>7, <2>1, <2>2 DEF Bare, BarePC
<1>10. a \in HeldOn(n, v)'
  BY <1>7 DEF ConnectVolume, HeldOn, Held
<1>11. Backed(n, v) \cup {a} \subseteq Backed(n, v)' /\ a \notin Backed(n, v)
  BY <1>5, <1>8, <1>9, <1>10 DEF Backed
<1>12. Mapped(n, v)' = Mapped(n, v) \cup {p} /\ p \notin Mapped(n, v)
  BY <1>2, <1>3 DEF Mapped
<1>13. Cardinality(Mapped(n, v)') = Cardinality(Mapped(n, v)) + 1
  <2>1. PICK S : S = Mapped(n, v)
    OBVIOUS
  <2>2. Cardinality(S \cup {p}) = Cardinality(S) + 1
    BY <1>12, <2>1, Finite, FS_AddElement
  <2> QED BY <1>12, <2>1, <2>2
<1>14. Cardinality(Backed(n, v)') >= Cardinality(Backed(n, v)) + 1 /\ Cardinality(Backed(n, v)') \in Nat
  <2>1. PICK S, T : S = Backed(n, v) /\ T = Backed(n, v)'
    OBVIOUS
  <2>2. IsFiniteSet(S) /\ IsFiniteSet(T)
    <3>1. S \in SUBSET Attachments /\ T \in SUBSET Attachments
      BY <2>1 DEF Backed, HeldOn, Held
    <3> QED BY <3>1, FS_Subset
  <2>3. Cardinality(S \cup {a}) = Cardinality(S) + 1
    BY <1>11, <2>1, <2>2, FS_AddElement
  <2>4. Cardinality(S \cup {a}) <= Cardinality(T)
    BY <1>11, <2>1, <2>2, FS_Subset
  <2>5. Cardinality(S) \in Nat /\ Cardinality(T) \in Nat
    BY <2>2, FS_CardinalityType
  <2> QED BY <2>1, <2>3, <2>4, <2>5
<1>15. Cardinality(Mapped(n, v)') <= Cardinality(Backed(n, v)')
  <2>1. Cardinality(Mapped(n, v)) <= Cardinality(Backed(n, v))
    BY DEF OverlapInv, BackedDevices
  <2> QED BY <1>13, <1>14, <2>1, Finite, FiniteBacked
<1> QED BY <1>6, <1>15 DEF BackedDevices

\* A device is disconnected only where there is one, so that there is also an attachment of
\* this node; the attachment of the call, if it is still there, is of the same node
\* and the only one that gets bare.
LEMMA DisconnectBalance ==
    ASSUME OnlyRbd, IsFiniteSet(Attachments), IsFiniteSet(Paths), OverlapInv, NEW c \in Calls,
           HandlerStep(c), Disconnect(call[c].node, call[c].volume),
           call[c].pc \in {"undoConnect", "disconnect"}
    PROVE  BackedDevices'
<1>1. PICK n \in Nodes, v \in Volumes : n = call[c].node /\ v = call[c].volume
  BY DEF OverlapInv, TypeOK, CallRecord, PublishPC, UnpublishPC
<1>2. PICK p \in Mapped(n, v) : device' = [device EXCEPT ![n][p] = None]
  BY <1>1 DEF Disconnect, OnlyRbd
<1>3. device \in [Nodes -> [Paths -> Volumes \cup {None}]] /\ \A u \in Volumes : u # None
  BY ClusterAssumption DEF OverlapInv, TypeOK, BridgeTypeOK
<1>4. PICK b \in Backed(n, v) : TRUE
  <2>1. Cardinality(Mapped(n, v)) # 0
    BY <1>2, Finite, FS_EmptySet
  <2>2. Cardinality(Mapped(n, v)) <= Cardinality(Backed(n, v))
    BY DEF OverlapInv, BackedDevices
  <2>3. Cardinality(Backed(n, v)) # 0
    BY <2>1, <2>2, Finite, FiniteBacked
  <2>4. Backed(n, v) # {}
    BY <2>3, FS_EmptySet
  <2> QED BY <2>4
<1>5. ASSUME NEW m \in Nodes, NEW u \in Volumes, call[c].att \in Held(u), attachment[call[c].att].node = m
      PROVE  m = n /\ u = v
  <2>1. call[c].att # None /\ u # None
    BY <1>3, <1>5, ControllerAssumption DEF Held
  <2>2. u = v
    BY <1>1, <1>5, <2>1 DEF OverlapInv, OfVolume, Held
  <2>3. b \in Held(v) /\ attachment[b].node = n
    BY <1>4 DEF Backed, HeldOn
  <2> QED BY <1>5, <2>2, <2>3 DEF OverlapInv, SingleNodeInv, SingleNodeAttached
<1>6. ASSUME NEW m \in Nodes, NEW u \in Volumes, m # n \/ u # v
      PROVE  Cardinality(Mapped(m, u)') <= Cardinality(Backed(m, u)')
  <2>1. Mapped(m, u)' \subseteq Mapped(m, u)
    BY <1>2, <1>3, <1>6 DEF Mapped
  <2>2. Backed(m, u) \subseteq Backed(m, u)'
    BY <1>5, <1>6, StaysBacked DEF Backed, HeldOn
  <2> QED BY <2>1, <2>2, Balance DEF OverlapInv, BackedDevices
<1>7. Mapped(n, v)' = Mapped(n, v) \ {p}
  BY <1>2, <1>3 DEF Mapped
<1>8. Cardinality(Mapped(n, v)') = Cardinality(Mapped(n, v)) - 1
  <2>1. PICK S : S = Mapped(n, v)
    OBVIOUS
  <2>2. Cardinality(S \ {p}) = Cardinality(S) - 1
    BY <1>2, <2>1, Finite, FS_RemoveElement
  <2> QED BY <1>7, <2>1, <2>2
<1>9. Cardinality(Backed(n, v)) <= Cardinality(Backed(n, v)') + 1 /\ Cardinality(Backed(n, v)') \in Nat
  <2>1. PICK S, T, a : S = Backed(n, v) /\ T = Backed(n, v)' /\ a = call[c].att
    OBVIOUS
  <2>2. IsFiniteSet(S) /\ IsFiniteSet(T)
    <3>1. S \in SUBSET Attachments /\ T \in SUBSET Attachments
      BY <2>1 DEF Backed, HeldOn, Held
    <3> QED BY <3>1, FS_Subset
  <2>3. S \subseteq T \cup {a}
    BY <2>1, StaysBacked
  <2>4. /\ Cardinality(S) <= Cardinality(T \cup {a})
        /\ Cardinality(T \cup {a}) \in {Cardinality(T), Cardinality(T) + 1}
    BY <2>2, <2>3, FS_Subset, FS_AddElement
  <2>5. Cardinality(S) \in Nat /\ Cardinality(T) \in Nat
    BY <2>2, FS_CardinalityType
  <2> QED BY <2>1, <2>4, <2>5
<1>10. Cardinality(Mapped(n, v)') <= Cardinality(Backed(n, v)')
  <2>1. Cardinality(Mapped(n, v)) <= Cardinality(Backed(n, v))
    BY DEF OverlapInv, BackedDevices
  <2> QED BY <1>8, <1>9, <2>1, Finite, FiniteBacked
<1> QED BY <1>6, <1>10 DEF BackedDevices

LEMMA DeviceStep ==
    ASSUME OnlyRbd, IsFiniteSet(Attachments), IsFiniteSet(Paths), OverlapInv,
           NEW c \in Calls, HandlerStep(c)
    PROVE  BackedDevices'
<1>1. CASE ConnectVolume(c)
  BY <1>1, ConnectBalance
<1>2. CASE /\ Disconnect(call[c].node, call[c].volume)
           /\ call[c].pc \in {"undoConnect", "disconnect"}
  BY <1>2, DisconnectBalance
<1>3. CASE UNCHANGED device /\ ~UndoConnect(c) /\ ~DisconnectVolume(c)
  <2>1. ASSUME NEW n \in Nodes, NEW v \in Volumes
        PROVE  Cardinality(Mapped(n, v)') <= Cardinality(Backed(n, v)')
    <3>1. Mapped(n, v)' \subseteq Mapped(n, v)
      BY <1>3 DEF Mapped
    <3>2. Backed(n, v) \subseteq Backed(n, v)'
      BY <1>3, StaysBacked
    <3> QED BY <3>1, <3>2, Balance DEF OverlapInv, BackedDevices
  <2> QED BY <2>1 DEF BackedDevices
<1> QED BY <1>1, <1>2, <1>3, DeviceChanges DEF UndoConnect, DisconnectVolume

\* The steps of the others give no call an attachment, and none a request at which
\* it would be bare.
LEMMA OtherSteps ==
    ASSUME IsFiniteSet(Attachments), IsFiniteSet(Paths), OverlapInv, TypeOK', SingleNodeInv',
           UNCHANGED <<attachment, device>>,
           \A d \in Calls :
              \/ call'[d].att = None /\ call'[d].pc \notin BarePC
              \/ /\ call'[d].pc = call[d].pc /\ call'[d].att = call[d].att
                 /\ call'[d].volume = call[d].volume /\ call'[d].node = call[d].node
    PROVE  OverlapInv'
<1>1. ASSUME NEW d \in Calls
      PROVE  OfVolume(d)' /\ Fresh(d)'
  <2>1. OfVolume(d) /\ Fresh(d)
    BY DEF OverlapInv
  <2>2. OfVolume(d)'
    BY <2>1 DEF OfVolume
  <2>3. Fresh(d)'
    BY <2>1, ControllerAssumption DEF Fresh, HeldOn, Held, BarePC
  <2> QED BY <2>2, <2>3
<1>2. ASSUME NEW a \in Attachments, Bare(a)'
      PROVE  Bare(a)
  BY <1>2 DEF Bare
<1>3. ASSUME NEW n \in Nodes, NEW v \in Volumes
      PROVE  Cardinality(Mapped(n, v)') <= Cardinality(Backed(n, v)')
  <2>1. Mapped(n, v)' \subseteq Mapped(n, v)
    BY DEF Mapped
  <2>2. Backed(n, v) \subseteq Backed(n, v)'
    BY <1>2 DEF Backed, HeldOn, Held
  <2> QED BY <2>1, <2>2, Balance DEF OverlapInv, BackedDevices
<1> QED BY <1>1, <1>3 DEF OverlapInv, BackedDevices

LEMMA OverlapStep ==
    ASSUME OnlyRbd, IsFiniteSet(Attachments), IsFiniteSet(Paths), OverlapInv, [Next]_vars
    PROVE  OverlapInv'
<1>0. TypeOK' /\ SingleNodeInv' /\ call \in [Calls -> CallRecord]
  BY TypeStep, SingleNodeStep DEF OverlapInv, TypeOK
<1>1. ASSUME NEW c \in Calls, HandlerStep(c)
      PROVE  OverlapInv'
  BY <1>0, <1>1, OfVolumeStep, FreshStep, DeviceStep DEF OverlapInv
<1>2. ASSUME NEW c \in Calls, NEW v, NEW n, NEW pc \in {"getVolume", "beginDetaching", "diskIsUsed"},
             Start(c, v, n, pc)
      PROVE  OverlapInv'
  <2>1. call'[c].att = None /\ call'[c].pc \notin BarePC
    BY <1>0, <1>2 DEF Start, Idle, BarePC
  <2>2. \A d \in Calls \ {c} : call'[d] = call[d]
    BY <1>0, <1>2 DEF Start
  <2> QED BY <1>0, <1>2, <2>1, <2>2, OtherSteps DEF Start, backend
<1>3. ASSUME NEW c \in Calls, DeadlineExpires(c)
      PROVE  OverlapInv'
  <2>1. \A d \in Calls : /\ call'[d].pc = call[d].pc /\ call'[d].att = call[d].att
                         /\ call'[d].volume = call[d].volume /\ call'[d].node = call[d].node
    BY <1>0, <1>3 DEF DeadlineExpires, CallRecord, CallFields
  <2> QED BY <1>0, <1>3, <2>1, OtherSteps DEF DeadlineExpires, backend
<1>4. ASSUME NEW v \in Volumes, CinderWorks(v)
      PROVE  OverlapInv'
  <2>1. UNCHANGED <<attachment, device, call>>
    BY <1>4 DEF CinderWorks, FinishCreation, FinishDeletion
  <2> QED BY <1>0, <2>1, OtherSteps
<1>5. CASE LookupByName \/ UNCHANGED vars
  BY <1>0, <1>5, OtherSteps DEF LookupByName, vars, backend
<1>6. CASE Restart
  <2>1. \A d \in Calls : call'[d].att = None /\ call'[d].pc \notin BarePC
    BY <1>6 DEF Restart, Idle, BarePC
  <2> QED BY <1>0, <1>6, <2>1, OtherSteps DEF Restart, backend
<1> QED BY <1>1, <1>2, <1>3, <1>4, <1>5, <1>6
        DEF Next, HandlerStep, CallPublish, CallUnpublish, CallDelete

LEMMA OverlapInit ==
    ASSUME IsFiniteSet(Attachments), IsFiniteSet(Paths), Init
    PROVE  OverlapInv
<1>1. \A c \in Calls : call[c].att = None /\ call[c].pc = "idle"
  BY DEF Init, Idle
<1>2. ASSUME NEW n \in Nodes, NEW v \in Volumes
      PROVE  Cardinality(Mapped(n, v)) <= Cardinality(Backed(n, v))
  <2>1. Mapped(n, v) = {}
    BY ClusterAssumption DEF Init, BridgeInit, Mapped
  <2> QED BY <2>1, FiniteBacked, FS_EmptySet
<1> QED BY <1>1, <1>2, TypeInit, SingleNodeInit
        DEF OverlapInv, BackedDevices, OfVolume, Fresh

LEMMA OverlapInvariant ==
    ASSUME OnlyRbd, IsFiniteSet(Attachments), IsFiniteSet(Paths)
    PROVE  Spec => []OverlapInv
<1>1. Init => OverlapInv
  BY OverlapInit
<1>2. OverlapInv /\ [Next]_vars => OverlapInv'
  BY OverlapStep
<1> QED BY <1>1, <1>2, PTL DEF Spec

LEMMA BackedFacts ==
    ASSUME IsFiniteSet(Attachments), IsFiniteSet(Paths), OverlapInv,
           NEW n \in Nodes, NEW v \in Volumes, Mapped(n, v) # {}
    PROVE  \E a \in Held(v) : attachment[a].node = n
<1>1. /\ Cardinality(Mapped(n, v)) # 0
      /\ Cardinality(Mapped(n, v)) <= Cardinality(Backed(n, v))
  BY Finite, FS_EmptySet DEF OverlapInv, BackedDevices
<1>2. Backed(n, v) # {}
  BY <1>1, Finite, FS_EmptySet
<1> QED BY <1>2 DEF Backed, HeldOn

\* Where disconnecting fails when nothing is connected, calls that overlap leave no device
\* behind either: neither a handler whose caller has given up, nor a failed request,
\* a rollback or an exit of the plugin gives up an attachment that has a device.
THEOREM NoOrphanDeviceOverlapping ==
    ASSUME OnlyRbd, IsFiniteSet(Attachments), IsFiniteSet(Paths)
    PROVE  Spec => []NoOrphanDevice
<1>1. OverlapInv => NoOrphanDevice
  BY BackedFacts DEF NoOrphanDevice
<1> QED BY <1>1, OverlapInvariant, PTL

\* Nor do they give two nodes a device of the same volume at a time.
THEOREM DevicesOnOneNodeOverlapping ==
    ASSUME OnlyRbd, IsFiniteSet(Attachments), IsFiniteSet(Paths)
    PROVE  Spec => []DevicesOnOneNode
<1>1. OverlapInv => DevicesOnOneNode
  BY BackedFacts DEF DevicesOnOneNode, OverlapInv, SingleNodeInv, SingleNodeAttached
<1> QED BY <1>1, OverlapInvariant, PTL

\* Nor is a volume deleted while a node has a device of it.
THEOREM DeletedNotMappedOverlapping ==
    ASSUME OnlyRbd, IsFiniteSet(Attachments), IsFiniteSet(Paths)
    PROVE  Spec => []DeletedNotMapped
<1>1. ASSUME OverlapInv, NEW v \in Volumes, status[v] = "deleted", NEW n \in Nodes
      PROVE  Mapped(n, v) = {}
  <2>1. Held(v) = {}
    BY <1>1 DEF OverlapInv, SingleNodeInv, FreeUnheld, Unused
  <2> QED BY <1>1, <2>1, BackedFacts
<1>2. OverlapInv => DeletedNotMapped
  BY <1>1 DEF DeletedNotMapped
<1> QED BY <1>2, OverlapInvariant, PTL

=============================================================================
