---------------------------- MODULE MCNodeServer ----------------------------
(* The constants of NodeServer for TLC. *)
EXTENDS NodeServer, TLC

AllRbd == [v \in Volumes |-> "rbd"]

\* Nodes are interchangeable, and so are volumes of one kind.
Symmetry == Permutations(Paths) \cup Permutations(Calls) \cup Permutations(Nodes)
=============================================================================
