---- MODULE StorageCluster ----
(***************************************************************************)
(* What all components of the driver talk about: the volumes, the physical *)
(* nodes, the device paths of a node, and the value that stands for        *)
(* "nothing" wherever the Go code has an empty string, a nil or an absent  *)
(* map entry.                                                              *)
(***************************************************************************)
CONSTANTS
    Volumes,    \* volume identifiers
    Nodes,      \* node names, the NodeId the node plugin reports (os.Hostname)
    Paths,      \* block device paths of a node: /dev/rbd0, /dev/sdb, ...
    None        \* "no such thing"

ASSUME ClusterAssumption == None \notin Volumes \cup Nodes \cup Paths
====
