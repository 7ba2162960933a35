-------------------------- MODULE ProvisionProofs --------------------------
(***************************************************************************)
(* What Provision does for every number of names, volumes and calls and    *)
(* for every size.                                                         *)
(***************************************************************************)
EXTENDS Provision, TLAPS

\* RoundUpSize (utils.go) is the least number of units that holds so many bytes.
LEMMA RoundUpSizeCovers ==
    ASSUME NEW b \in Nat, NEW u \in Nat \ {0}
    PROVE  /\ RoundUpSize(b, u) \in Nat
           /\ b <= RoundUpSize(b, u) * u
           /\ RoundUpSize(b, u) * u < b + u
<1> DEFINE q == b \div u
           r == b % u
<1>1. q \in Nat /\ r \in 0 .. u - 1 /\ b = u * q + r
  OBVIOUS
<1>2. u * q = q * u /\ (q + 1) * u = q * u + u
  BY <1>1
<1> QED
  BY <1>1, <1>2 DEF RoundUpSize

-----------------------------------------------------------------------------
(* Types and capacities *)

\* A call that runs has a name, and a bound claim has a volume.
CallsNamed == \A c \in Calls : call[c].pc # "idle" \/ call[c].waiting => call[c].name \in Names
BoundIds == \A n \in Names : claim[n].phase = "bound" => claim[n].id \in Ids

CapacityInv == TypeOK /\ CallsNamed /\ BoundIds /\ CapacityCovers

LEMMA SizeCovers ==
    ASSUME NEW b \in Nat
    PROVE  /\ SizeGB(b) \in Nat
           /\ Capacity(SizeGB(b)) \in Nat
           /\ b <= Capacity(SizeGB(b))
           /\ Capacity(SizeGB(b)) < b + GiB
<1>1. GiB \in Nat \ {0}
  BY ProvisionAssumption
<1>2. \A n \in Nat : n * GiB \in Nat
  BY <1>1
<1> QED
  BY <1>1, <1>2, RoundUpSizeCovers DEF SizeGB, Capacity

LEMMA CapacityInit == Init => CapacityInv
BY ProvisionAssumption
   DEF Init, CapacityInv, TypeOK, CallsNamed, BoundIds, CapacityCovers, NoVolume, Idle, Unclaimed

\* The capacity told is that of the volume's size, and the size is the one for the
\* bytes of the call, so an answer keeps the invariant.
LEMMA AnswerCapacity ==
    ASSUME CapacityInv, NEW c \in Calls, call[c].pc # "idle", NEW i \in Ids,
           Answer(c, i, SizeGB(call[c].bytes)),
           volume' \in [Ids -> [name : Names \cup {None}, size : Nat]],
           \A j \in Ids : volume[j] # NoVolume => volume'[j] = volume[j],
           volume'[i] = [name |-> call[c].name, size |-> SizeGB(call[c].bytes)],
           UNCHANGED <<faults, restarts>>
    PROVE  CapacityInv'
<1> DEFINE n == call[c].name
           b == call[c].bytes
           bound == [phase |-> "bound", bytes |-> b, id |-> i,
                     capacity |-> Capacity(SizeGB(b))]
<1>1. n \in Names /\ b \in Nat /\ n # None
  BY ProvisionAssumption DEF CapacityInv, CallsNamed, TypeOK
<1>2. /\ SizeGB(b) \in Nat /\ Capacity(SizeGB(b)) \in Nat
      /\ b <= Capacity(SizeGB(b)) /\ Capacity(SizeGB(b)) < b + GiB
  BY <1>1, SizeCovers
<1>3. call' = [call EXCEPT ![c] = Idle]
  BY DEF Answer
<1>4. claim' = [claim EXCEPT ![n] = bound] \/ claim' = claim
  BY DEF Answer
<1>5. \A m \in Names : claim'[m] = claim[m] \/ (m = n /\ claim'[m] = bound)
  BY <1>1, <1>4 DEF CapacityInv, TypeOK
<1>6. TypeOK'
  <2>1. (call \in [Calls -> [pc : {"idle", "lookup", "create"}, name : Names \cup {None},
                             bytes : Nat, waiting : BOOLEAN]])'
    BY <1>3 DEF CapacityInv, TypeOK, Idle
  <2>2. (claim \in [Names -> [phase : {"none", "wanted", "bound"}, bytes : Nat,
                              id : Ids \cup {None}, capacity : Nat]])'
    BY <1>1, <1>2, <1>4 DEF CapacityInv, TypeOK
  <2> QED
    BY <2>1, <2>2 DEF CapacityInv, TypeOK
<1>7. CallsNamed'
  BY <1>3 DEF CapacityInv, TypeOK, CallsNamed, Idle
<1>8. BoundIds'
  BY <1>5 DEF CapacityInv, BoundIds
<1>9. CapacityCovers'
  <2> SUFFICES ASSUME NEW m \in Names, claim'[m].phase = "bound"
               PROVE  /\ volume'[claim'[m].id].name = m
                      /\ claim'[m].capacity = Capacity(volume'[claim'[m].id].size)
                      /\ claim'[m].bytes <= claim'[m].capacity
                      /\ claim'[m].capacity < claim'[m].bytes + GiB
    BY DEF CapacityCovers, Capacity
  <2>1. CASE m = n /\ claim'[m] = bound
    BY <1>2, <2>1
  <2>2. CASE claim'[m] = claim[m]
    <3>1. claim[m].id \in Ids /\ volume[claim[m].id].name = m
      BY <2>2 DEF CapacityInv, BoundIds, CapacityCovers
    <3>2. volume'[claim[m].id] = volume[claim[m].id]
      BY <3>1, ProvisionAssumption DEF NoVolume
    <3> QED
      BY <2>2, <3>2 DEF CapacityInv, CapacityCovers
  <2> QED
    BY <1>5, <2>1, <2>2
<1> QED
  BY <1>6, <1>7, <1>8, <1>9 DEF CapacityInv

\* A step after which the claims are the same, or unbound where they changed, and no
\* volume is lost keeps the invariant.
LEMMA QuietCapacity ==
    ASSUME CapacityInv, TypeOK', CallsNamed',
           \A j \in Ids : volume[j] # NoVolume => volume'[j] = volume[j],
           \A n \in Names : claim'[n] = claim[n] \/ claim'[n].phase # "bound"
    PROVE  CapacityInv'
<1>1. BoundIds'
  BY DEF CapacityInv, BoundIds
<1>2. CapacityCovers'
  <2> SUFFICES ASSUME NEW m \in Names, claim'[m].phase = "bound"
               PROVE  /\ volume'[claim'[m].id].name = m
                      /\ claim'[m].capacity = Capacity(volume'[claim'[m].id].size)
                      /\ claim'[m].bytes <= claim'[m].capacity
                      /\ claim'[m].capacity < claim'[m].bytes + GiB
    BY DEF CapacityCovers, Capacity
  <2>1. claim'[m] = claim[m] /\ claim[m].id \in Ids /\ volume[claim[m].id].name = m
    BY DEF CapacityInv, BoundIds, CapacityCovers
  <2>2. volume'[claim[m].id] = volume[claim[m].id]
    BY <2>1, ProvisionAssumption DEF NoVolume
  <2> QED
    BY <2>1, <2>2 DEF CapacityInv, CapacityCovers
<1> QED
  BY <1>1, <1>2 DEF CapacityInv

LEMMA CreatesVolume ==
    ASSUME TypeOK, CallsNamed, NEW c \in Calls, call[c].pc = "create", NEW i \in Ids,
           Creates(c, i)
    PROVE  /\ volume' \in [Ids -> [name : Names \cup {None}, size : Nat]]
           /\ volume[i] = NoVolume
           /\ volume'[i] = [name |-> call[c].name, size |-> SizeGB(call[c].bytes)]
           /\ \A j \in Ids : j # i => volume'[j] = volume[j]
<1>1. call[c].name \in Names /\ SizeGB(call[c].bytes) \in Nat
  BY SizeCovers DEF TypeOK, CallsNamed
<1> QED
  BY <1>1 DEF TypeOK, Creates

LEMMA CapacityStep == CapacityInv /\ [Next]_vars => CapacityInv'
<1> SUFFICES ASSUME CapacityInv, [Next]_vars PROVE CapacityInv'
  OBVIOUS
<1> USE DEF CapacityInv
<1>1. ASSUME NEW c \in Calls, Lookup(c) PROVE CapacityInv'
  <2>1. CASE call' = [call EXCEPT ![c].pc = "create"] /\ UNCHANGED claim
    <3>1. TypeOK' /\ CallsNamed'
      BY <1>1, <2>1 DEF Lookup, TypeOK, CallsNamed
    <3> QED
      BY <1>1, <2>1, <3>1, QuietCapacity DEF Lookup
  <2>2. ASSUME NEW i \in Named(call[c].name), volume[i].size = SizeGB(call[c].bytes),
               Answer(c, i, volume[i].size)
        PROVE  CapacityInv'
    <3>1. i \in Ids /\ volume[i].name = call[c].name
      BY <2>2 DEF Named
    <3>2. volume[i] = [name |-> call[c].name, size |-> SizeGB(call[c].bytes)]
      BY <2>2, <3>1 DEF TypeOK
    <3>3. UNCHANGED <<volume, faults, restarts>> /\ call[c].pc # "idle"
      BY <1>1 DEF Lookup
    <3> QED
      BY <2>2, <3>1, <3>2, <3>3, AnswerCapacity DEF TypeOK
  <2>3. CASE Fail(c)
    <3>1. TypeOK' /\ CallsNamed'
      BY <1>1, <2>3 DEF Lookup, Fail, TypeOK, CallsNamed, Idle
    <3> QED
      BY <1>1, <2>3, <3>1, QuietCapacity DEF Lookup, Fail
  <2> QED
    BY <1>1, <2>1, <2>2, <2>3 DEF Lookup
<1>2. ASSUME NEW c \in Calls, Create(c) PROVE CapacityInv'
  <2>1. PICK i \in Ids : Creates(c, i) /\ Answer(c, i, SizeGB(call[c].bytes))
    BY <1>2 DEF Create
  <2>2. call[c].pc = "create" /\ UNCHANGED <<faults, restarts>>
    BY <1>2 DEF Create
  <2> QED
    BY <2>1, <2>2, CreatesVolume, AnswerCapacity
<1>3. ASSUME NEW c \in Calls, CreateRefused(c) PROVE CapacityInv'
  <2>1. TypeOK' /\ CallsNamed'
    BY <1>3 DEF CreateRefused, Fail, TypeOK, CallsNamed, Idle
  <2> QED
    BY <1>3, <2>1, QuietCapacity DEF CreateRefused, Fail
<1>4. ASSUME NEW c \in Calls, RequestFails(c) PROVE CapacityInv'
  <2>1. /\ volume' \in [Ids -> [name : Names \cup {None}, size : Nat]]
        /\ \A j \in Ids : volume[j] # NoVolume => volume'[j] = volume[j]
    BY <1>4, CreatesVolume DEF RequestFails, TypeOK
  <2>2. TypeOK' /\ CallsNamed'
    BY <1>4, <2>1 DEF RequestFails, Fail, TypeOK, CallsNamed, Idle
  <2> QED
    BY <1>4, <2>1, <2>2, QuietCapacity DEF RequestFails, Fail
<1>5. ASSUME NEW c \in Calls, DeadlineExpires(c) PROVE CapacityInv'
  <2>1. TypeOK' /\ CallsNamed'
    <3>1. call' = [call EXCEPT ![c] = [@ EXCEPT !.waiting = FALSE]]
      BY <1>5 DEF DeadlineExpires, TypeOK
    <3>2. /\ call'[c] = [call[c] EXCEPT !.waiting = FALSE]
          /\ \A d \in Calls \ {c} : call'[d] = call[d]
      BY <3>1 DEF TypeOK
    <3>a. call[c] \in [pc : {"idle", "lookup", "create"}, name : Names \cup {None},
                       bytes : Nat, waiting : BOOLEAN]
      BY DEF TypeOK
    <3>b. /\ call'[c].pc = call[c].pc /\ call'[c].name = call[c].name
          /\ call'[c] \in [pc : {"idle", "lookup", "create"}, name : Names \cup {None},
                            bytes : Nat, waiting : BOOLEAN]
      <4> HIDE DEF CapacityInv
      <4> QED BY <3>a, <3>2
    <3>3. /\ call'[c].pc = call[c].pc /\ call'[c].name = call[c].name
          /\ call' \in [Calls -> [pc : {"idle", "lookup", "create"}, name : Names \cup {None},
                                  bytes : Nat, waiting : BOOLEAN]]
      BY <3>1, <3>b DEF TypeOK
    <3> QED BY <1>5, <3>2, <3>3 DEF DeadlineExpires, TypeOK, CallsNamed
  <2> QED
    BY <1>5, <2>1, QuietCapacity DEF DeadlineExpires
<1>6. ASSUME NEW c \in Calls, NEW n \in Names, NEW b \in Bytes, CallCreate(c, n, b)
      PROVE  CapacityInv'
  <2>1. b \in Nat
    BY ProvisionAssumption
  <2>2. TypeOK' /\ CallsNamed'
    BY <1>6, <2>1 DEF CallCreate, TypeOK, CallsNamed, Unclaimed
  <2>3. \A m \in Names : claim'[m] = claim[m] \/ claim'[m].phase # "bound"
    BY <1>6 DEF CallCreate, TypeOK, Unclaimed
  <2> QED
    BY <1>6, <2>2, <2>3, QuietCapacity DEF CallCreate
<1>7. CASE Restart
  <2>1. TypeOK' /\ CallsNamed'
    BY <1>7 DEF Restart, TypeOK, CallsNamed, Idle
  <2> QED
    BY <1>7, <2>1, QuietCapacity DEF Restart
<1>8. CASE UNCHANGED vars
  BY <1>8 DEF vars, TypeOK, CallsNamed, BoundIds, CapacityCovers, Capacity
<1> QED
  BY <1>1, <1>2, <1>3, <1>4, <1>5, <1>6, <1>7, <1>8 DEF Next, Handler

LEMMA CapacityAlways == Spec => []CapacityInv
<1>1. Init => CapacityInv
  BY CapacityInit
<1>2. CapacityInv /\ [Next]_vars => CapacityInv'
  BY CapacityStep
<1> QED
  BY <1>1, <1>2, PTL DEF Spec

\* Every variable of CreateVolume has its type.
THEOREM TypeCorrect == Spec => []TypeOK
<1>1. CapacityInv => TypeOK
  BY DEF CapacityInv
<1> QED
  BY <1>1, CapacityAlways, PTL

\* Whatever CreateVolume answers, to a first call or to a repeated one, with calls
\* that overlap or not: the claim has a volume of its own name whose capacity
\* is the required bytes rounded up to the next unit.
THEOREM CapacityCorrect == Spec => []CapacityCovers
<1>1. CapacityInv => CapacityCovers
  BY DEF CapacityInv
<1> QED
  BY <1>1, CapacityAlways, PTL

-----------------------------------------------------------------------------
(* One volume per name *)

\* As long as nobody gives up on a call, every call that runs is waited for, and
\* a name has one: the volume that a handler did not find is not there when it
\* creates it.
Awaited == \A c \in Calls : call[c].pc # "idle" => call[c].waiting
Alone == \A c, d \in Calls :
            call[c].waiting /\ call[d].waiting /\ call[c].name = call[d].name => c = d
CreateFree == \A c \in Calls : call[c].pc = "create" => Named(call[c].name) = {}

NameInv == CapacityInv /\ Awaited /\ Alone /\ CreateFree /\ OneVolumePerName

LEMMA NameInit == Init => NameInv
BY CapacityInit DEF Init, NameInv, Awaited, Alone, CreateFree, OneVolumePerName, Idle, NoVolume

\* A volume of the name of a call that found none, and is alone with it.
LEMMA NewName ==
    ASSUME NameInv, CapacityInv', NEW c \in Calls, call[c].pc = "create",
           NEW i \in Ids, Creates(c, i), call' = [call EXCEPT ![c] = Idle]
    PROVE  NameInv'
<1> DEFINE n == call[c].name
<1>1. /\ n \in Names /\ n # None /\ call[c].waiting
      /\ \A j \in Ids : volume[j].name # n
  BY ProvisionAssumption DEF NameInv, CapacityInv, CallsNamed, Awaited, CreateFree, Named
<1>2. /\ volume'[i].name = n
      /\ \A j \in Ids : j # i => volume'[j] = volume[j]
  <2>1. TypeOK /\ CallsNamed
    BY DEF NameInv, CapacityInv
  <2>2. /\ volume'[i] = [name |-> call[c].name, size |-> SizeGB(call[c].bytes)]
        /\ \A j \in Ids : j # i => volume'[j] = volume[j]
    BY <2>1, CreatesVolume
  <2> QED
    BY <2>2
<1>3. \A d \in Calls : call'[d] = IF d = c THEN Idle ELSE call[d]
  BY DEF NameInv, CapacityInv, TypeOK
<1>4. Awaited' /\ Alone'
  BY <1>3 DEF NameInv, Awaited, Alone, Idle
<1>5. CreateFree'
  <2> SUFFICES ASSUME NEW d \in Calls, call'[d].pc = "create", NEW j \in Ids,
                      volume'[j].name = call'[d].name
               PROVE  FALSE
    BY DEF CreateFree, Named
  <2>1. d # c /\ call'[d] = call[d] /\ call[d].waiting
    BY <1>3 DEF NameInv, Awaited, Idle
  <2>2. call[d].name # n
    BY <1>1, <2>1 DEF NameInv, Alone
  <2>3. j # i /\ volume[j].name = call[d].name
    BY <1>2, <2>1, <2>2
  <2> QED
    BY <2>1, <2>3 DEF NameInv, CreateFree, Named
<1>6. OneVolumePerName'
  BY <1>1, <1>2 DEF NameInv, OneVolumePerName
<1> QED
  BY <1>4, <1>5, <1>6 DEF NameInv

\* A step that makes no volume, starts no call and sends no call on to create.
LEMMA NoNewName ==
    ASSUME NameInv, CapacityInv', UNCHANGED volume,
           \A c \in Calls : call'[c] = Idle \/ call'[c] = call[c]
    PROVE  NameInv'
<1>1. Awaited' /\ Alone'
  BY DEF NameInv, Awaited, Alone, Idle
<1>2. CreateFree'
  BY DEF NameInv, CreateFree, Named, Idle
<1> QED
  BY <1>1, <1>2 DEF NameInv, OneVolumePerName

LEMMA NameStep ==
    ASSUME ~Deadlines
    PROVE  NameInv /\ [Next]_vars => NameInv'
<1> SUFFICES ASSUME NameInv, [Next]_vars PROVE NameInv'
  OBVIOUS
<1>1. TypeOK /\ CapacityInv /\ CapacityInv'
  BY CapacityStep DEF NameInv, CapacityInv
<1>2. ASSUME NEW c \in Calls, Lookup(c) PROVE NameInv'
  <2>1. CASE Named(call[c].name) = {} /\ call' = [call EXCEPT ![c].pc = "create"]
    <3>1. /\ \A d \in Calls : d # c => call'[d] = call[d]
          /\ call'[c].pc = "create" /\ call[c].pc = "lookup"
          /\ call'[c].name = call[c].name /\ call'[c].waiting = call[c].waiting
      BY <1>1, <1>2, <2>1 DEF TypeOK, Lookup
    <3>2. Awaited'
      BY <3>1 DEF NameInv, Awaited
    <3>3. Alone'
      BY <3>1 DEF NameInv, Alone
    <3>4. CreateFree'
      BY <1>2, <2>1, <3>1 DEF NameInv, CreateFree, Named, Lookup
    <3> QED
      BY <1>1, <1>2, <3>2, <3>3, <3>4 DEF NameInv, OneVolumePerName, Lookup
  <2>2. CASE call' = [call EXCEPT ![c] = Idle]
    <3>1. \A d \in Calls : call'[d] = Idle \/ call'[d] = call[d]
      BY <1>1, <2>2 DEF TypeOK
    <3> QED
      BY <1>1, <1>2, <3>1, NoNewName DEF Lookup
  <2> QED
    BY <1>2, <2>1, <2>2 DEF Lookup, Answer, Fail
<1>3. ASSUME NEW c \in Calls, Create(c) PROVE NameInv'
  BY <1>1, <1>3, NewName DEF Create, Answer
<1>4. ASSUME NEW c \in Calls, CreateRefused(c) PROVE NameInv'
  <2>1. \A d \in Calls : call'[d] = Idle \/ call'[d] = call[d]
    BY <1>1, <1>4 DEF TypeOK, CreateRefused, Fail
  <2> QED
    BY <1>1, <1>4, <2>1, NoNewName DEF CreateRefused
<1>5. ASSUME NEW c \in Calls, RequestFails(c) PROVE NameInv'
  <2>1. call' = [call EXCEPT ![c] = Idle]
    BY <1>5 DEF RequestFails, Fail
  <2>2. CASE UNCHANGED volume
    <3>1. \A d \in Calls : call'[d] = Idle \/ call'[d] = call[d]
      BY <1>1, <2>1 DEF TypeOK
    <3> QED
      BY <1>1, <2>2, <3>1, NoNewName
  <2>3. CASE call[c].pc = "create" /\ \E i \in Ids : Creates(c, i)
    BY <1>1, <2>1, <2>3, NewName
  <2> QED
    BY <1>5, <2>2, <2>3 DEF RequestFails
<1>6. ASSUME NEW c \in Calls, NEW n \in Names, NEW b \in Bytes, CallCreate(c, n, b)
      PROVE  NameInv'
  <2>1. /\ \A d \in Calls : d # c => call'[d] = call[d]
        /\ call'[c].pc = "lookup" /\ call'[c].name = n /\ call'[c].waiting
        /\ \A d \in Calls : call[d].waiting => call[d].name # n
        /\ UNCHANGED volume
    BY <1>1, <1>6 DEF TypeOK, CallCreate
  <2>2. Awaited' /\ Alone' /\ CreateFree'
    BY <2>1 DEF NameInv, Awaited, Alone, CreateFree, Named
  <2> QED
    BY <1>1, <2>1, <2>2 DEF NameInv, OneVolumePerName
<1>7. CASE Restart
  <2>1. \A d \in Calls : call'[d] = Idle
    BY <1>7 DEF Restart
  <2> QED
    BY <1>1, <1>7, <2>1, NoNewName DEF Restart
<1>8. CASE UNCHANGED vars
  <2>1. \A d \in Calls : call'[d] = call[d]
    BY <1>8 DEF vars
  <2> QED
    BY <1>1, <1>8, <2>1, NoNewName DEF vars
<1> QED
  BY <1>2, <1>3, <1>4, <1>5, <1>6, <1>7, <1>8 DEF Next, Handler, DeadlineExpires

\* If the provisioner waits for every call, a name belongs to at most one volume,
\* although looking the name up and creating the volume are two requests, and
\* although a request that fails may have created one.
THEOREM OneVolumeCorrect ==
    ASSUME ~Deadlines
    PROVE  Spec => []OneVolumePerName
<1>1. Init => NameInv
  BY NameInit
<1>2. NameInv /\ [Next]_vars => NameInv'
  BY NameStep
<1>3. NameInv => OneVolumePerName
  BY DEF NameInv
<1> QED
  BY <1>1, <1>2, <1>3, PTL DEF Spec
=============================================================================
