------------------------------- MODULE Bridge -------------------------------
(***************************************************************************)
(* The HTTP bridge that runs on every node (third_party/iscsi-cinder-      *)
(* briage/main.py) and connects and disconnects the block devices of       *)
(* volumes.  Device paths are local to a node and are used again for       *)
(* another volume once they are free.                                      *)
(***************************************************************************)
EXTENDS StorageCluster

CONSTANT
    Transport       \* volume -> the driver_volume_type of its connection

VARIABLE
    device          \* node -> (path -> the volume behind it, or None)

Transports == {"iscsi", "fibre_channel", "rbd"}

ASSUME BridgeAssumption == Transport \in [Volumes -> Transports]

BridgeTypeOK == device \in [Nodes -> [Paths -> Volumes \cup {None}]]

BridgeInit == device = [n \in Nodes |-> [p \in Paths |-> None]]

\* The device paths behind which a node has a volume.
Mapped(n, v) == {p \in Paths : device[n][p] = v}

\* `rbd map` gives every call a path of its own, os-brick's connect_volume
\* returns the path of a volume that is connected already.
Connect(n, v, p) ==
    \/ /\ Transport[v] = "rbd" \/ Mapped(n, v) = {}
       /\ device[n][p] = None
       /\ device' = [device EXCEPT ![n][p] = v]
    \/ /\ Transport[v] # "rbd"
       /\ p \in Mapped(n, v)
       /\ UNCHANGED device

\* `rbd unmap <image>` removes one of the image's mappings and fails when
\* there is none; os-brick's disconnect_volume may also find nothing to do.
Disconnect(n, v) ==
    \/ \E p \in Mapped(n, v) : device' = [device EXCEPT ![n][p] = None]
    \/ /\ Transport[v] # "rbd"
       /\ Mapped(n, v) = {}
       /\ UNCHANGED device

\* VolumeDeviceNotFound, or the exit status of `rbd unmap`.
CannotDisconnect(n, v) == Mapped(n, v) = {}
=============================================================================
