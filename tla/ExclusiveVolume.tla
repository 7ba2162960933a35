--------------------------- MODULE ExclusiveVolume ---------------------------
(***************************************************************************)
(* What the controller side promises to a cluster about a volume: one node *)
(* at a time holds it, only the holder has a device of it, the holder is   *)
(* told that it may use the volume only while it has a device, and it      *)
(* keeps the device until it has been asked to let go.                     *)
(***************************************************************************)
CONSTANTS Volumes, Nodes, None

VARIABLES
    holder,         \* volume -> the node that may have a device of it, or None
    connected,      \* volume -> the nodes that have a device of it
    granted         \* volume -> its holder was told that it may use the volume

vars == <<holder, connected, granted>>

Init ==
    /\ holder = [v \in Volumes |-> None]
    /\ connected = [v \in Volumes |-> {}]
    /\ granted = [v \in Volumes |-> FALSE]

Acquire(v, n) ==
    /\ holder[v] = None
    /\ holder' = [holder EXCEPT ![v] = n]
    /\ UNCHANGED <<connected, granted>>

Connect(v) ==
    /\ holder[v] # None
    /\ connected' = [connected EXCEPT ![v] = {holder[v]}]
    /\ UNCHANGED <<holder, granted>>

Grant(v) ==
    /\ connected[v] # {}
    /\ granted' = [granted EXCEPT ![v] = TRUE]
    /\ UNCHANGED <<holder, connected>>

Revoke(v) ==
    /\ granted' = [granted EXCEPT ![v] = FALSE]
    /\ UNCHANGED <<holder, connected>>

Disconnect(v) ==
    /\ ~granted[v]
    /\ connected' = [connected EXCEPT ![v] = {}]
    /\ UNCHANGED <<holder, granted>>

Free(v) ==
    /\ connected[v] = {}
    /\ holder' = [holder EXCEPT ![v] = None]
    /\ UNCHANGED <<connected, granted>>

Next ==
    \E v \in Volumes :
        \/ \E n \in Nodes : Acquire(v, n)
        \/ Connect(v) \/ Grant(v) \/ Revoke(v) \/ Disconnect(v) \/ Free(v)

Spec == Init /\ [][Next]_vars
=============================================================================
