----------------------------- MODULE PodStorage -----------------------------
(***************************************************************************)
(* What pods may expect of their volumes: the promise that the controller  *)
(* plugin and the node plugins keep together.  A volume is used on one     *)
(* node at a time; it is formatted once, before its first use, and never   *)
(* when somebody has written to it; and nobody writes to it but the pod    *)
(* that uses it.                                                           *)
(***************************************************************************)
EXTENDS StorageCluster

CONSTANTS
    Block           \* the volumes used as raw block devices

VARIABLES
    content,        \* volume -> what is on it
    users           \* volume -> the nodes where a pod runs with it

vars == <<content, users>>

Init ==
    /\ content \in [Volumes -> {"blank", "data"}]
    /\ users = [v \in Volumes |-> {}]

Format(v) ==
    /\ v \notin Block
    /\ content[v] = "blank" /\ users[v] = {}
    /\ content' = [content EXCEPT ![v] = "empty"]
    /\ UNCHANGED users

\* A pod starts on a volume that has a file system, or needs none.
Start(v, n) ==
    /\ users[v] = {}
    /\ v \in Block \/ content[v] # "blank"
    /\ users' = [users EXCEPT ![v] = {n}]
    /\ UNCHANGED content

Write(v) ==
    /\ users[v] # {}
    /\ content' = [content EXCEPT ![v] = "data"]
    /\ UNCHANGED users

Stop(v) ==
    /\ users[v] # {}
    /\ users' = [users EXCEPT ![v] = {}]
    /\ UNCHANGED content

Next ==
    \E v \in Volumes :
        \/ Format(v) \/ Write(v) \/ Stop(v)
        \/ \E n \in Nodes : Start(v, n)

Spec == Init /\ [][Next]_vars
=============================================================================
