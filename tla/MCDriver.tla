------------------------------ MODULE MCDriver ------------------------------
(* The constants of Driver for TLC. *)
EXTENDS Driver, TLC

MCServers == {<<"ecs", n>> : n \in Nodes}
MCEcsNode == [n \in Nodes |-> <<"ecs", n>>]

AllRbd == [v \in Volumes |-> "rbd"]

\* Requests whose failure leaves nothing behind, with the rollback of AttachVolume.
RolledBack == {"getVolume", "connect", "update"}

Symmetry == Permutations(Nodes) \cup Permutations(Attachments) \cup Permutations(Paths)
=============================================================================
