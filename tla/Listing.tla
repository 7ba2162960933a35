------------------------------ MODULE Listing ------------------------------
(***************************************************************************)
(* ListVolumes: Cinder's volumes page by page, newest first, while volumes *)
(* are created and deleted by others.                                      *)
(*                                                                         *)
(* The plugin keeps nothing between two pages.  The token it hands out is  *)
(* the marker in the link to the next page that comes with Cinder's        *)
(* answer, and Cinder goes on behind the volume of that name.  The caller, *)
(* the lister, asks for page after page until it gets no token, and starts *)
(* again when a call fails.                                                *)
(***************************************************************************)
EXTENDS Naturals, SequencesExt

CONSTANTS
    Volumes,        \* volume identifiers; Cinder never uses one again
    None,           \* no token
    Limits,         \* the max_entries that listers ask for, 0: no limit
    MaxLimit,       \* Cinder's osapi_max_limit: no page is longer
    MaxFaults       \* bound on failing requests

VARIABLES
    volumes,        \* Cinder's volumes, newest first
    unborn,         \* identifiers that were never used
    lister,         \* the listing that goes on, or has ended
    faults

vars == <<volumes, unborn, lister, faults>>

ASSUME ListingAssumption ==
    /\ None \notin Volumes
    /\ Limits \subseteq Nat
    /\ MaxLimit \in Nat \ {0}
    /\ MaxFaults \in Nat

\* The pages so far are in listed, the volumes that were there all the time in
\* stayed.
NewListing(limit) == [pc |-> "listing", limit |-> limit, token |-> None,
                      listed |-> <<>>, stayed |-> ToSet(volumes)]

Init ==
    /\ volumes = <<>>
    /\ unborn = Volumes
    /\ lister = [NewListing(0) EXCEPT !.pc = "idle"]
    /\ faults = 0

-----------------------------------------------------------------------------
(* Cinder's answer *)

PageSize(limit) == IF limit \in 1 .. MaxLimit THEN limit ELSE MaxLimit

\* The volumes behind the marker, all of them without one.
Behind(marker) ==
    SubSeq(volumes, SelectInSeq(volumes, LAMBDA v : v = marker) + 1, Len(volumes))

Page(limit, marker) ==
    SubSeq(Behind(marker), 1, Min({Len(Behind(marker)), PageSize(limit)}))

\* A page that is full comes with a link to the next one: the URL and the names of
\* its query parameters, those of the request and the marker, which it puts last.
HasNext(limit, page) == Len(page) = PageSize(limit)

LinkQuery(limit) == (IF limit > 0 THEN <<"limit">> ELSE <<>>) \o <<"marker">>

-----------------------------------------------------------------------------
(* ListVolumes *)

NextToken_NeverGiven(limit, page) == None

NextToken_SecondLast(limit, page) ==
    IF HasNext(limit, page) /\ Contains(Tail(LinkQuery(limit)), "marker")
    THEN page[IF Len(page) > 1 THEN Len(page) - 1 ELSE 1] ELSE None

NextToken_AlwaysGiven(limit, page) ==
    IF page # <<>> THEN Last(page) ELSE lister.token

\* url.ParseQuery takes the URL up to the first "=" for the name of a parameter:
\* the first parameter of a link is lost.
NextToken(limit, page) ==
    IF HasNext(limit, page) /\ Contains(Tail(LinkQuery(limit)), "marker")
    THEN Last(page) ELSE None

ListVolumes ==
    LET page == Page(lister.limit, lister.token)
        token == NextToken(lister.limit, page)
    IN
    /\ lister.pc = "listing"
    /\ lister.token \in ToSet(volumes) \cup {None}
    /\ lister' = [lister EXCEPT !.listed = @ \o page, !.token = token,
                                !.pc = IF token = None THEN "done" ELSE "listing"]
    /\ UNCHANGED <<volumes, unborn, faults>>

\* The answer is an error, and the lister starts again: Cinder does not know the
\* marker any more, or the request fails.
StartAgain == lister' = NewListing(lister.limit)

MarkerUnknown ==
    /\ lister.pc = "listing"
    /\ lister.token \notin ToSet(volumes) \cup {None}
    /\ StartAgain
    /\ UNCHANGED <<volumes, unborn, faults>>

RequestFails ==
    /\ lister.pc = "listing"
    /\ faults < MaxFaults
    /\ faults' = faults + 1
    /\ StartAgain
    /\ UNCHANGED <<volumes, unborn>>

-----------------------------------------------------------------------------
(* The lister, and what goes on beside it *)

StartListing(limit) ==
    /\ lister.pc # "listing"
    /\ lister' = NewListing(limit)
    /\ UNCHANGED <<volumes, unborn, faults>>

Create(v) ==
    /\ v \in unborn
    /\ unborn' = unborn \ {v}
    /\ volumes' = <<v>> \o volumes
    /\ UNCHANGED <<lister, faults>>

Delete(i) ==
    /\ volumes' = RemoveAt(volumes, i)
    /\ lister' = [lister EXCEPT !.stayed = @ \ {volumes[i]}]
    /\ UNCHANGED <<unborn, faults>>

Next ==
    \/ ListVolumes \/ MarkerUnknown \/ RequestFails
    \/ \E limit \in Limits : StartListing(limit)
    \/ \E v \in Volumes : Create(v)
    \/ \E i \in DOMAIN volumes : Delete(i)

\* Handlers run, and a lister goes on asking.
Spec == Init /\ [][Next]_vars /\ WF_vars(ListVolumes \/ MarkerUnknown)

-----------------------------------------------------------------------------
\* A listing with a limit that has ended holds every volume that was there from its
\* beginning to its end, whatever was created and deleted between two pages.  A
\* listing without one is left out: only its first page is ever returned, and what
\* does not fit on it is missing (openstack_volume.go:208).
CompleteWithLimit ==
    lister.pc = "done" /\ lister.limit > 0 => lister.stayed \subseteq ToSet(lister.listed)

\* No volume is listed twice, although pages are counted from a volume that may
\* have moved since.
ListedOnce == IsInjective(lister.listed)

\* Every listing ends: tokens lead on, and none is handed out for ever.
ListingEnds == lister.pc = "listing" ~> lister.pc = "done"
=============================================================================
