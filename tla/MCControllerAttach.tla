------------------------- MODULE MCControllerAttach -------------------------
(* The constants of ControllerAttach for TLC. *)
EXTENDS ControllerAttach, TLC

\* A node's id is made of its name, so that nodes stay interchangeable.
MCServers == {<<"ecs", n>> : n \in Nodes}
MCEcsNode == [n \in Nodes |-> <<"ecs", n>>]

AllRbd == [v \in Volumes |-> "rbd"]
AllIscsi == [v \in Volumes |-> "iscsi"]

AnyRequest == Requests \cup {"nodeId"}
NoRequest == {}
\* Requests whose failure leaves nothing behind, with the rollback of AttachVolume.
RolledBack == {"getVolume", "connect", "update"}

Symmetry ==
    Permutations(Volumes) \cup Permutations(Nodes) \cup Permutations(Attachments)
        \cup Permutations(Paths) \cup Permutations(Calls)
=============================================================================
