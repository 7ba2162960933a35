----------------------------- MODULE Provision -----------------------------
(***************************************************************************)
(* CreateVolume of controllerserver.go with GetVolumesByName and           *)
(* CreateVolume of openstack_volume.go and RoundUpSize of utils.go.        *)
(*                                                                         *)
(* Cinder does not care about the names of volumes, so a handler makes its *)
(* call idempotent itself: it looks for a volume of the name and creates   *)
(* one only if there is none.  These are two requests, and other handlers  *)
(* run between them.  The caller is the external-provisioner, which has    *)
(* one call per name, repeats it until it succeeds and gives up waiting at *)
(* its deadline, whereas the handler goes on.                              *)
(***************************************************************************)
EXTENDS Integers, FiniteSets

CONSTANTS
    Names,          \* names of volumes to be provisioned
    Ids,            \* volume identifiers of Cinder
    Calls,          \* slots for calls that run at the same time
    Bytes,          \* the required bytes that a call may ask for
    GiB,            \* bytes of the unit in which Cinder counts sizes
    MaxFaults,      \* bound on failing requests
    MaxRestarts,    \* bound on exits of the plugin
    Deadlines,      \* TRUE: the provisioner may give up on a call that still runs
    None            \* "no such thing"

VARIABLES
    volume,         \* id -> name and size of a volume of Cinder, or None
    call,           \* slot -> the local state of its handler
    claim,          \* name -> what the provisioner wants and has got
    faults,
    restarts

vars == <<volume, call, claim, faults, restarts>>

ASSUME ProvisionAssumption ==
    /\ GiB \in Nat \ {0}
    /\ Bytes \subseteq Nat
    /\ None \notin Names \cup Ids
    /\ MaxFaults \in Nat
    /\ MaxRestarts \in Nat
    /\ Deadlines \in BOOLEAN

-----------------------------------------------------------------------------
(* Sizes *)

RoundUpSize_Truncates(bytes, unit) == bytes \div unit

RoundUpSize(bytes, unit) ==
    IF bytes % unit > 0 THEN bytes \div unit + 1 ELSE bytes \div unit

\* The size of the volume that a call for so many bytes is about, and the
\* capacity that it is told.  A call without a capacity range asks for 1 GiB.
SizeGB(bytes) == RoundUpSize(bytes, GiB)
Capacity(size) == size * GiB

-----------------------------------------------------------------------------
NoVolume == [name |-> None, size |-> 0]
Idle == [pc |-> "idle", name |-> None, bytes |-> 0, waiting |-> FALSE]
Unclaimed == [phase |-> "none", bytes |-> 0, id |-> None, capacity |-> 0]

TypeOK ==
    /\ volume \in [Ids -> [name : Names \cup {None}, size : Nat]]
    /\ call \in [Calls -> [pc : {"idle", "lookup", "create"}, name : Names \cup {None},
                           bytes : Nat, waiting : BOOLEAN]]
    /\ claim \in [Names -> [phase : {"none", "wanted", "bound"}, bytes : Nat,
                            id : Ids \cup {None}, capacity : Nat]]
    /\ faults \in Nat
    /\ restarts \in Nat

Init ==
    /\ volume = [i \in Ids |-> NoVolume]
    /\ call = [c \in Calls |-> Idle]
    /\ claim = [n \in Names |-> Unclaimed]
    /\ faults = 0
    /\ restarts = 0

Named(n) == {i \in Ids : volume[i].name = n}

\* The handler returns; a provisioner that still waits binds the claim to volume
\* i of the given size (getCreateVolumeResponse).
Answer(c, i, size) ==
    /\ call' = [call EXCEPT ![c] = Idle]
    /\ claim' = IF call[c].waiting
                THEN [claim EXCEPT ![call[c].name] =
                         [phase |-> "bound", bytes |-> call[c].bytes,
                          id |-> i, capacity |-> Capacity(size)]]
                ELSE claim

Fail(c) ==
    /\ call' = [call EXCEPT ![c] = Idle]
    /\ UNCHANGED claim

-----------------------------------------------------------------------------
\* GetVolumesByName: the only volume of the name is the answer if it has the
\* size, and several are an error.
Lookup_IgnoresSize(c) ==
    LET found == Named(call[c].name) IN
    /\ call[c].pc = "lookup"
    /\ \/ /\ found = {}
          /\ call' = [call EXCEPT ![c].pc = "create"]
          /\ UNCHANGED claim
       \/ \E i \in found : found = {i} /\ Answer(c, i, volume[i].size)
       \/ /\ found # {} /\ \A i \in found : found # {i}
          /\ Fail(c)
    /\ UNCHANGED <<volume, faults, restarts>>

Lookup_Skipped(c) ==
    /\ call[c].pc = "lookup"
    /\ call' = [call EXCEPT ![c].pc = "create"]
    /\ UNCHANGED <<volume, claim, faults, restarts>>

Lookup_NotIdempotent(c) ==
    LET found == Named(call[c].name) IN
    /\ call[c].pc = "lookup"
    /\ \/ /\ found = {}
          /\ call' = [call EXCEPT ![c].pc = "create"]
          /\ UNCHANGED claim
       \/ found # {} /\ Fail(c)
    /\ UNCHANGED <<volume, faults, restarts>>

Lookup(c) ==
    LET found == Named(call[c].name)
        right(i) == found = {i} /\ volume[i].size = SizeGB(call[c].bytes)
    IN
    /\ call[c].pc = "lookup"
    /\ \/ /\ found = {}
          /\ call' = [call EXCEPT ![c].pc = "create"]
          /\ UNCHANGED claim
       \/ \E i \in found : right(i) /\ Answer(c, i, volume[i].size)
       \/ /\ found # {} /\ \A i \in found : ~right(i)
          /\ Fail(c)
    /\ UNCHANGED <<volume, faults, restarts>>

\* Cinder accepts any name, taken or not, and no volume without a size.
Creates(c, i) ==
    /\ SizeGB(call[c].bytes) > 0
    /\ volume[i] = NoVolume
    /\ volume' = [volume EXCEPT ![i] =
                     [name |-> call[c].name, size |-> SizeGB(call[c].bytes)]]

Create(c) ==
    /\ call[c].pc = "create"
    /\ \E i \in Ids : Creates(c, i) /\ Answer(c, i, SizeGB(call[c].bytes))
    /\ UNCHANGED <<faults, restarts>>

CreateRefused(c) ==
    /\ call[c].pc = "create"
    /\ SizeGB(call[c].bytes) = 0
    /\ Fail(c)
    /\ UNCHANGED <<volume, faults, restarts>>

\* A request fails; volumes.Create may have made the volume all the same.
RequestFails(c) ==
    /\ call[c].pc # "idle"
    /\ faults < MaxFaults
    /\ faults' = faults + 1
    /\ \/ UNCHANGED volume
       \/ call[c].pc = "create" /\ \E i \in Ids : Creates(c, i)
    /\ Fail(c)
    /\ UNCHANGED restarts

-----------------------------------------------------------------------------
(* The provisioner and the process *)

\* One call per name; a claim that is not bound may come back with other bytes.
CallCreate(c, n, b) ==
    /\ call[c] = Idle
    /\ claim[n].phase # "bound"
    /\ \A d \in Calls : call[d].waiting => call[d].name # n
    /\ call' = [call EXCEPT ![c] =
                   [pc |-> "lookup", name |-> n, bytes |-> b, waiting |-> TRUE]]
    /\ claim' = [claim EXCEPT ![n] = [Unclaimed EXCEPT !.phase = "wanted", !.bytes = b]]
    /\ UNCHANGED <<volume, faults, restarts>>

DeadlineExpires(c) ==
    /\ Deadlines
    /\ call[c].waiting
    /\ call' = [call EXCEPT ![c].waiting = FALSE]
    /\ UNCHANGED <<volume, claim, faults, restarts>>

Restart ==
    /\ restarts < MaxRestarts
    /\ restarts' = restarts + 1
    /\ call' = [c \in Calls |-> Idle]
    /\ UNCHANGED <<volume, claim, faults>>

Handler(c) == Lookup(c) \/ Create(c) \/ CreateRefused(c)

Next ==
    \/ \E c \in Calls : Handler(c) \/ RequestFails(c) \/ DeadlineExpires(c)
    \/ \E c \in Calls, n \in Names, b \in Bytes : CallCreate(c, n, b)
    \/ Restart

Spec == Init /\ [][Next]_vars

-----------------------------------------------------------------------------
(* Properties *)

\* A name belongs to at most one volume, however often its creation failed and
\* was repeated (controllerserver.go:78, "Verify a volume with the provided name
\* doesn't already exist for this tenant").
OneVolumePerName ==
    \A i, j \in Ids : volume[i].name # None /\ volume[i].name = volume[j].name => i = j

\* A claim is bound to a volume of its own name that has the capacity it is told,
\* which is at least what was asked for and less than one unit more, whether
\* the volume was made by this call or by one that failed before.
CapacityCovers ==
    \A n \in Names : claim[n].phase = "bound" =>
        /\ volume[claim[n].id].name = n
        /\ claim[n].capacity = Capacity(volume[claim[n].id].size)
        /\ claim[n].bytes <= claim[n].capacity
        /\ claim[n].capacity < claim[n].bytes + GiB

Fairness ==
    /\ \A c \in Calls : WF_vars(Handler(c))
    /\ \A n \in Names :
         WF_vars(\E c \in Calls : claim[n].phase = "wanted" /\ CallCreate(c, n, claim[n].bytes))

FairSpec == Spec /\ Fairness

\* A claim is bound in the end, also when a request that failed had made its
\* volume.
Provisioned == \A n \in Names : claim[n].phase = "wanted" ~> claim[n].phase = "bound"
=============================================================================
