------------------------------- MODULE Cinder -------------------------------
(***************************************************************************)
(* The OpenStack block storage service, as the driver uses it through      *)
(* gophercloud.  It is not part of the repository: every definition here   *)
(* is an assumption about an external service, and the only ones the       *)
(* driver relies on.                                                       *)
(*                                                                         *)
(* A volume has a status, and attachments of its own.  An attachment is    *)
(* made by attachments.Create (it is "attaching"), given a mount point by  *)
(* attachments.Update and turned into "attached" by attachments.Complete.  *)
(* Only attached ones are listed in the volume that volumes.Get returns.   *)
(* An attachment identifier that nobody refers to any more may be used     *)
(* again: identifiers are only ever compared, so this is no different      *)
(* from a service that never repeats one.                                  *)
(***************************************************************************)
EXTENDS StorageCluster, FiniteSets

CONSTANTS
    Servers,        \* the identifiers under which Cinder knows the nodes
    Attachments     \* attachment identifiers

VARIABLES
    status,         \* volume -> Cinder status
    attachment      \* attachment identifier -> what Cinder knows of it

cinderVars == <<status, attachment>>

Statuses == {"creating", "available", "error", "attaching", "in-use", "detaching",
             "deleting", "deleted"}

NoAttachment == [volume |-> None, node |-> None, server |-> None,
                 path |-> None, state |-> "free"]

AttachmentRecord ==
    [volume : Volumes \cup {None}, node : Nodes \cup {None},
     server : Servers \cup {None}, path : Paths \cup {None},
     state : {"free", "attaching", "attached"}]

CinderTypeOK ==
    /\ status \in [Volumes -> Statuses]
    /\ attachment \in [Attachments -> AttachmentRecord]

\* volumes.Create is answered while the volume is still being built.
CinderInit ==
    /\ status = [v \in Volumes |-> "creating"]
    /\ attachment = [a \in Attachments |-> NoAttachment]

\* The volume is built, or cannot be.
FinishCreation(v) ==
    /\ status[v] = "creating"
    /\ \E result \in {"available", "error"} : status' = [status EXCEPT ![v] = result]
    /\ UNCHANGED attachment

\* The attachments of a volume, and those volumes.Get shows to its caller.
Held(v) == {a \in Attachments : attachment[a].volume = v}
Listed(v) == {a \in Held(v) : attachment[a].state = "attached"}

\* Cinder reserves a free volume for anyone.  A volume that has an attachment
\* is reserved once more only for the same server, and only if the caller
\* names one.
CanReserve(v, server) ==
    \/ status[v] = "available"
    \/ server # None /\ \E a \in Held(v) : attachment[a].server = server

CreateAttachment(a, v, node, server) ==
    /\ CanReserve(v, server)
    /\ attachment[a] = NoAttachment
    /\ attachment' = [attachment EXCEPT ![a] =
            [volume |-> v, node |-> node, server |-> server,
             path |-> None, state |-> "attaching"]]
    /\ status' = [status EXCEPT ![v] = "attaching"]

UpdateAttachment(a, v, path) ==
    /\ a \in Held(v)
    /\ attachment' = [attachment EXCEPT ![a].path = path,
                                        ![a].state = "attaching"]
    /\ status' = [status EXCEPT ![v] = "attaching"]

CompleteAttachment(a, v) ==
    /\ a \in Held(v)
    /\ attachment' = [attachment EXCEPT ![a].state = "attached"]
    /\ status' = [status EXCEPT ![v] = "in-use"]

BeginDetaching(v) ==
    /\ status[v] = "in-use"
    /\ status' = [status EXCEPT ![v] = "detaching"]
    /\ UNCHANGED attachment

\* Deleting an attachment leaves the volume in the furthest state that its
\* other attachments have reached.
ReleaseAttachment(a, v) ==
    LET rest == Held(v) \ {a} IN
    /\ a \in Held(v)
    /\ attachment' = [attachment EXCEPT ![a] = NoAttachment]
    /\ status' = [status EXCEPT ![v] =
            IF rest = {} THEN "available"
            ELSE IF rest \cap Listed(v) # {} THEN "in-use"
            ELSE "attaching"]

\* volumes.Delete is accepted with 202 and carried out later.
Deletable(v) == status[v] \in {"available", "error"}

DeleteVolume(v) ==
    /\ Deletable(v)
    /\ status' = [status EXCEPT ![v] = "deleting"]
    /\ UNCHANGED attachment

FinishDeletion(v) ==
    /\ status[v] = "deleting"
    /\ status' = [status EXCEPT ![v] = "deleted"]
    /\ UNCHANGED attachment
=============================================================================
