---------------------------- MODULE ListingProofs ----------------------------
(* ListVolumes lists what stays, and lists it once: the argument is about    *)
(* places in Cinder's sequence of volumes, which creations and deletions     *)
(* move but never reorder.                                                   *)
EXTENDS Listing, SequenceTheorems, TLAPS

\* The place i of V lies behind that of the token.
Follows(i, token, V) == token = None \/ \E k \in DOMAIN V : V[k] = token /\ k < i

\* A volume that the listing has still to come to.
Ahead(i) == Follows(i, lister.token, volumes)

TypeInv ==
    /\ volumes \in Seq(Volumes)
    /\ unborn \subseteq Volumes
    /\ lister \in [pc : {"idle", "listing", "done"}, limit : Nat, token : Volumes \cup {None},
                   listed : Seq(Volumes), stayed : SUBSET Volumes]
    /\ faults \in Nat

\* Identifiers are used once.
UsedOnce ==
    /\ IsInjective(volumes)
    /\ \A i \in DOMAIN volumes : volumes[i] \notin unborn
    /\ \A i \in DOMAIN lister.listed : lister.listed[i] \notin unborn
    /\ lister.token \notin unborn

\* What a listing has still to come to is what it has not listed yet.
ListInv ==
    /\ lister.stayed \subseteq ToSet(volumes)
    /\ IsInjective(lister.listed)
    /\ lister.pc = "listing" =>
          /\ lister.token = None => lister.listed = <<>>
          /\ \A i \in DOMAIN volumes : Ahead(i) => volumes[i] \notin ToSet(lister.listed)
          /\ lister.token \in ToSet(volumes) \cup {None} =>
                \A i \in DOMAIN volumes :
                    volumes[i] \in lister.stayed => Ahead(i) \/ volumes[i] \in ToSet(lister.listed)
    /\ CompleteWithLimit

ListingInv == TypeInv /\ UsedOnce /\ ListInv

-----------------------------------------------------------------------------
(* Cinder's answer *)

\* A marker is at one place, and without one a page begins before the first volume.
At(k, marker, V) == k \in 0 .. Len(V) /\ (IF k = 0 THEN marker = None ELSE V[k] = marker)

\* Behind a marker is what follows its place.
LEMMA BehindMarker ==
    ASSUME TypeInv, UsedOnce, NEW marker, NEW k, At(k, marker, volumes)
    PROVE  Behind(marker) = SubSeq(volumes, k + 1, Len(volumes))
<1> DEFINE I == {i \in 1 .. Len(volumes) : volumes[i] = marker}
<1>1. volumes \in Seq(Volumes) /\ Len(volumes) \in Nat /\ DOMAIN volumes = 1 .. Len(volumes)
  BY LenProperties DEF TypeInv
<1>2. Behind(marker) = SubSeq(volumes, (IF I # {} THEN Min(I) ELSE 0) + 1, Len(volumes))
  BY DEF Behind, SelectInSeq
<1>3. CASE k = 0
  <2>1. I = {}
    BY <1>1, <1>3, ListingAssumption DEF At
  <2> QED BY <1>2, <1>3, <2>1
<1>4. CASE k # 0
  <2>1. I = {k}
    BY <1>1, <1>4 DEF At, UsedOnce, IsInjective
  <2>2. Min({k}) = k
    BY <1>4 DEF At, Min
  <2> QED BY <1>2, <2>1, <2>2
<1> QED BY <1>3, <1>4

\* A page holds the volumes from place k on; it is full, or nothing is behind it.
IsPage(page, k, limit) ==
    /\ page \in Seq(Volumes) /\ k + Len(page) <= Len(volumes)
    /\ Len(page) # PageSize(limit) => k + Len(page) = Len(volumes)
    /\ \A i \in 1 .. Len(page) : page[i] = volumes[k + i]

\* Cinder answers with such a page.
LEMMA PageContents ==
    ASSUME TypeInv, UsedOnce, NEW marker, NEW k, At(k, marker, volumes), NEW limit, limit \in Nat
    PROVE  IsPage(Page(limit, marker), k, limit)
<1> DEFINE behind == SubSeq(volumes, k + 1, Len(volumes))
           size == PageSize(limit)
           m == Min({Len(behind), size})
<1>1. /\ volumes \in Seq(Volumes) /\ Len(volumes) \in Nat /\ k \in 0 .. Len(volumes)
      /\ \A i \in 1 .. Len(volumes) : volumes[i] \in Volumes
  BY LenProperties DEF TypeInv, At
<1>2. /\ behind \in Seq(Volumes) /\ Len(behind) = Len(volumes) - k
      /\ \A i \in 1 .. Len(behind) : behind[i] = volumes[k + i]
  <2>1. \A i \in k + 1 .. Len(volumes) : volumes[i] \in Volumes
    BY <1>1
  <2>2. k + 1 \in Int /\ Len(volumes) \in Int
    BY <1>1
  <2>3. /\ behind \in Seq(Volumes)
        /\ Len(behind) = IF k + 1 <= Len(volumes) THEN Len(volumes) - (k + 1) + 1 ELSE 0
        /\ \A i \in 1 .. Len(volumes) - (k + 1) + 1 : behind[i] = volumes[k + 1 + i - 1]
    BY <2>1, <2>2, SubSeqProperties
  <2> HIDE DEF behind
  <2>4. Len(behind) = Len(volumes) - k
    BY <1>1, <2>3
  <2>5. \A i \in 1 .. Len(behind) : k + 1 + i - 1 = k + i
    BY <1>1, <2>4
  <2> QED BY <1>1, <2>3, <2>4, <2>5
<1>3. size \in Nat
  BY ListingAssumption DEF PageSize
<1> HIDE DEF behind, size
<1>4. m \in Nat /\ m <= Len(behind) /\ m <= size /\ (m = size \/ m = Len(behind))
  <2>1. \E x \in {Len(behind), size} : \A y \in {Len(behind), size} : x <= y
    BY <1>1, <1>2, <1>3
  <2>2. m \in {Len(behind), size} /\ \A y \in {Len(behind), size} : m <= y
    BY <2>1 DEF Min
  <2> HIDE DEF m
  <2> QED BY <1>1, <1>2, <1>3, <2>2
<1> HIDE DEF m
<1>5. /\ SubSeq(behind, 1, m) \in Seq(Volumes) /\ Len(SubSeq(behind, 1, m)) = m
      /\ \A i \in 1 .. m : SubSeq(behind, 1, m)[i] = behind[i]
  <2>1. \A i \in 1 .. m : behind[i] \in Volumes
    BY <1>1, <1>2, <1>4
  <2>2. /\ SubSeq(behind, 1, m) \in Seq(Volumes)
        /\ Len(SubSeq(behind, 1, m)) = IF 1 <= m THEN m - 1 + 1 ELSE 0
        /\ \A i \in 1 .. m - 1 + 1 : SubSeq(behind, 1, m)[i] = behind[1 + i - 1]
    BY <1>4, <2>1, SubSeqProperties
  <2> QED BY <1>4, <2>2
<1>6. Page(limit, marker) = SubSeq(behind, 1, m)
  BY BehindMarker DEF Page, behind, size, m
<1> DEFINE page == Page(limit, marker)
<1> HIDE DEF page
<1>7. page \in Seq(Volumes) /\ Len(page) = m /\ \A i \in 1 .. m : page[i] = volumes[k + i]
  BY <1>1, <1>2, <1>4, <1>5, <1>6 DEF page
<1>9. k + m <= Len(volumes) /\ (m # size => k + m = Len(volumes))
  BY <1>1, <1>2, <1>3, <1>4
<1> QED BY <1>4, <1>7, <1>9 DEF IsPage, page, size

\* A page of V that begins behind position k is added to a list L that has nothing
\* from there on.
LEMMA AddPage ==
    ASSUME NEW S, NEW V \in Seq(S), NEW L \in Seq(S), NEW P \in Seq(S), NEW k \in Nat,
           IsInjective(V), IsInjective(L), k + Len(P) <= Len(V),
           \A i \in 1 .. Len(P) : P[i] = V[k + i],
           \A i \in 1 .. Len(V) : k < i => V[i] \notin ToSet(L)
    PROVE  /\ L \o P \in Seq(S) /\ IsInjective(L \o P)
           /\ \A x : x \in ToSet(L \o P)
                    <=> x \in ToSet(L) \/ \E i \in k + 1 .. k + Len(P) : x = V[i]
           /\ Len(L \o P) = Len(L) + Len(P)
<1> DEFINE R == L \o P
           l == Len(L)
           n == Len(P)
<1>1. /\ R \in Seq(S) /\ Len(R) = l + n /\ l \in Nat /\ n \in Nat /\ Len(V) \in Nat
      /\ DOMAIN R = 1 .. Len(R) /\ DOMAIN L = 1 .. l /\ DOMAIN P = 1 .. n
      /\ DOMAIN V = 1 .. Len(V)
  BY ConcatProperties, LenProperties
<1>2. \A i \in 1 .. l : R[i] = L[i]
  BY ConcatProperties
<1>3. \A i \in 1 .. n : R[l + i] = V[k + i]
  <2> SUFFICES ASSUME NEW i \in 1 .. n PROVE R[l + i] = P[i]
    OBVIOUS
  <2>1. l + i \in 1 .. l + n /\ ~(l + i <= l) /\ l + i - l = i
    BY <1>1
  <2> QED BY <2>1, ConcatProperties
<1> HIDE DEF R, l, n
<1>4. ASSUME NEW j \in 1 .. l + n
      PROVE  \/ j <= l /\ R[j] = L[j] /\ R[j] \in ToSet(L)
             \/ \E i \in 1 .. n : j = l + i /\ R[j] = V[k + i]
  <2>1. CASE j <= l
    BY <1>1, <1>2, <2>1 DEF ToSet
  <2>2. CASE ~(j <= l)
    <3>1. j - l \in 1 .. n /\ j = l + (j - l)
      BY <1>1, <2>2
    <3> QED BY <1>3, <3>1
  <2> QED BY <2>1, <2>2
<1>5. \A i \in 1 .. n : k + i \in DOMAIN V /\ V[k + i] \notin ToSet(L)
  BY <1>1 DEF n
<1>6. IsInjective(R)
  <2> SUFFICES ASSUME NEW i \in 1 .. l + n, NEW j \in 1 .. l + n, R[i] = R[j]
               PROVE  i = j
    BY <1>1 DEF IsInjective
  <2>1. CASE i <= l /\ j <= l
    <3>1. L[i] = L[j] /\ i \in DOMAIN L /\ j \in DOMAIN L
      BY <1>1, <1>2, <2>1
    <3> QED BY <3>1 DEF IsInjective
  <2>2. CASE i <= l /\ ~(j <= l)
    BY <1>1, <1>4, <1>5, <2>2
  <2>3. CASE ~(i <= l) /\ j <= l
    BY <1>1, <1>4, <1>5, <2>3
  <2>4. CASE ~(i <= l) /\ ~(j <= l)
    <3>1. PICK a \in 1 .. n : i = l + a /\ R[i] = V[k + a]
      BY <1>4, <2>4
    <3>2. PICK b \in 1 .. n : j = l + b /\ R[j] = V[k + b]
      BY <1>4, <2>4
    <3>3. k + a = k + b
      BY <1>5, <3>1, <3>2 DEF IsInjective
    <3> QED BY <1>1, <3>1, <3>2, <3>3
  <2> QED BY <2>1, <2>2, <2>3, <2>4
<1>7. \A x : x \in ToSet(R) <=> x \in ToSet(L) \/ \E i \in k + 1 .. k + n : x = V[i]
  <2>1. ASSUME NEW j \in 1 .. l + n
        PROVE  R[j] \in ToSet(L) \/ \E i \in k + 1 .. k + n : R[j] = V[i]
    <3>1. CASE j <= l
      <4>1. R[j] \in ToSet(L)
        BY <1>1, <1>4, <3>1
      <4> QED BY <4>1
    <3>2. CASE ~(j <= l)
      <4>1. PICK i \in 1 .. n : R[j] = V[k + i]
        BY <1>4, <3>2
      <4>2. k + i \in k + 1 .. k + n
        BY <1>1, <4>1
      <4> QED BY <4>1, <4>2
    <3> QED BY <3>1, <3>2
  <2>2. ASSUME NEW j \in 1 .. l
        PROVE  L[j] \in ToSet(R)
    BY <1>1, <1>2 DEF ToSet
  <2>3. ASSUME NEW i \in k + 1 .. k + n
        PROVE  V[i] \in ToSet(R)
    <3>1. i - k \in 1 .. n /\ k + (i - k) = i /\ l + (i - k) \in 1 .. l + n
      BY <1>1
    <3>2. R[l + (i - k)] = V[i]
      BY <1>3, <3>1
    <3> QED BY <1>1, <3>1, <3>2 DEF ToSet
  <2>4. ToSet(R) = {R[j] : j \in 1 .. l + n} /\ ToSet(L) = {L[j] : j \in 1 .. l}
    BY <1>1 DEF ToSet
  <2>5. ASSUME NEW x \in ToSet(R)
        PROVE  x \in ToSet(L) \/ \E i \in k + 1 .. k + n : x = V[i]
    BY <2>1, <2>4
  <2>6. ASSUME NEW x \in ToSet(L)
        PROVE  x \in ToSet(R)
    BY <2>2, <2>4
  <2> QED BY <2>3, <2>5, <2>6
<1> QED BY <1>1, <1>6, <1>7 DEF R, l, n

-----------------------------------------------------------------------------
(* The steps *)

LEMMA ListingInit == Init => ListingInv
<1> SUFFICES ASSUME Init PROVE ListingInv
  OBVIOUS
<1>2. <<>> \in Seq(Volumes) /\ DOMAIN <<>> = {} /\ ToSet(<<>>) = {}
  BY EmptySeq DEF ToSet
<1>1. /\ volumes = <<>> /\ unborn = Volumes /\ faults = 0
      /\ lister = [pc |-> "idle", limit |-> 0, token |-> None, listed |-> <<>>, stayed |-> {}]
  BY <1>2 DEF Init, NewListing
<1>3. TypeInv
  BY <1>1, <1>2 DEF TypeInv
<1>4. UsedOnce
  BY <1>1, <1>2, ListingAssumption DEF UsedOnce, IsInjective
<1>5. ListInv
  BY <1>1, <1>2 DEF ListInv, CompleteWithLimit, IsInjective
<1> QED BY <1>3, <1>4, <1>5 DEF ListingInv

\* A listing starts with nothing listed and everything ahead.
LEMMA BeginsAnew ==
    ASSUME ListingInv, NEW limit \in Nat, lister' = NewListing(limit),
           UNCHANGED <<volumes, unborn>>, faults' \in Nat
    PROVE  ListingInv'
<1>1. lister' = [pc |-> "listing", limit |-> limit, token |-> None, listed |-> <<>>,
                 stayed |-> ToSet(volumes)]
  BY DEF NewListing
<1>2. <<>> \in Seq(Volumes) /\ DOMAIN <<>> = {} /\ ToSet(<<>>) = {}
  BY EmptySeq DEF ToSet
<1>3. ToSet(volumes) \subseteq Volumes
  BY LenProperties DEF ListingInv, TypeInv, ToSet
<1>4. TypeInv'
  BY <1>1, <1>2, <1>3 DEF ListingInv, TypeInv
<1>5. UsedOnce'
  BY <1>1, <1>2, ListingAssumption DEF ListingInv, TypeInv, UsedOnce, IsInjective
<1>6. ListInv'
  BY <1>1, <1>2 DEF ListInv, CompleteWithLimit, IsInjective, Ahead, Follows
<1> QED BY <1>4, <1>5, <1>6 DEF ListingInv

\* The next page begins behind the last volume of this one.
LEMMA NextPage ==
    ASSUME TypeInv, UsedOnce, NEW limit \in Nat, NEW marker, NEW k, At(k, marker, volumes)
    PROVE  LET page == Page(limit, marker)
               token == NextToken(limit, page)
           IN  \/ token # None /\ At(k + Len(page), token, volumes)
               \/ token = None /\ k + Len(page) = Len(volumes)
               \/ token = None /\ limit = 0 /\ Len(page) = MaxLimit
<1> DEFINE page == Page(limit, marker)
           token == NextToken(limit, page)
           n == Len(page)
<1>1. /\ n \in Nat /\ k + n <= Len(volumes) /\ k \in 0 .. Len(volumes) /\ Len(volumes) \in Nat
      /\ n # PageSize(limit) => k + n = Len(volumes)
      /\ \A i \in 1 .. n : page[i] = volumes[k + i]
      /\ \A i \in 1 .. Len(volumes) : volumes[i] # None
  <2>1. volumes \in Seq(Volumes) /\ Len(volumes) \in Nat /\ k \in 0 .. Len(volumes)
    BY LenProperties DEF TypeInv, At
  <2>2. \A i \in 1 .. Len(volumes) : volumes[i] # None
    BY <2>1, ListingAssumption
  <2>3. IsPage(page, k, limit)
    BY PageContents
  <2>4. /\ n \in Nat /\ k + n <= Len(volumes)
        /\ n # PageSize(limit) => k + n = Len(volumes)
        /\ \A i \in 1 .. n : page[i] = volumes[k + i]
    <3> HIDE DEF page
    <3> QED BY <2>3, LenProperties DEF IsPage
  <2> QED BY <2>1, <2>2, <2>4
<1>2. PageSize(limit) \in Nat \ {0}
  BY ListingAssumption DEF PageSize
<1> HIDE DEF page, n
<1>3. CASE n # PageSize(limit)
  BY <1>1, <1>3 DEF NextToken, HasNext, page, n
<1>4. CASE n = PageSize(limit) /\ limit = 0
  <2>1. LinkQuery(0) = <<"marker">>
    BY DEF LinkQuery
  <2>2. ~Contains(Tail(<<"marker">>), "marker")
    BY DEF Contains
  <2>3. token = None
    BY <1>4, <2>1, <2>2 DEF NextToken
  <2>4. n = MaxLimit
    BY <1>4, ListingAssumption DEF PageSize
  <2> QED BY <1>4, <2>3, <2>4 DEF page, n
<1>5. CASE n = PageSize(limit) /\ limit # 0
  <2>1. LinkQuery(limit) = <<"limit">> \o <<"marker">>
    BY <1>5 DEF LinkQuery
  <2>2. Contains(Tail(<<"limit">> \o <<"marker">>), "marker")
    BY DEF Contains
  <2>4. token = page[n]
    BY <1>5, <2>1, <2>2 DEF NextToken, HasNext, Last, n
  <2>5. page[n] = volumes[k + n] /\ k + n \in 1 .. Len(volumes)
    BY <1>1, <1>2, <1>5
  <2>6. token # None /\ At(k + n, token, volumes)
    BY <1>1, <2>4, <2>5 DEF At
  <2> QED BY <2>6 DEF page, n
<1> QED BY <1>3, <1>4, <1>5

\* What follows a token lies behind its place.
LEMMA BehindToken ==
    ASSUME NEW V \in Seq(Volumes), IsInjective(V), NEW k, NEW token, At(k, token, V)
    PROVE  \A i \in 1 .. Len(V) : Follows(i, token, V) <=> k < i
<1>1. DOMAIN V = 1 .. Len(V) /\ Len(V) \in Nat /\ \A i \in 1 .. Len(V) : V[i] # None
  BY LenProperties, ListingAssumption
<1>2. CASE k = 0
  BY <1>1, <1>2 DEF Follows, At
<1>3. CASE k # 0
  <2>1. k \in DOMAIN V /\ V[k] = token /\ token # None
    BY <1>1, <1>3 DEF At
  <2>2. \A j \in DOMAIN V : V[j] = token => j = k
    BY <2>1 DEF IsInjective
  <2> QED BY <1>1, <2>1, <2>2 DEF Follows
<1> QED BY <1>2, <1>3

\* A page adds the volumes behind the token, as far as the next token.
LEMMA PageListed ==
    ASSUME ListingInv, ListVolumes
    PROVE  ListingInv'
<1>1. /\ volumes \in Seq(Volumes) /\ Len(volumes) \in Nat /\ DOMAIN volumes = 1 .. Len(volumes)
      /\ lister.listed \in Seq(Volumes) /\ IsInjective(volumes) /\ IsInjective(lister.listed)
      /\ lister.limit \in Nat /\ TypeInv /\ UsedOnce /\ ListInv
      /\ \A i \in 1 .. Len(volumes) : volumes[i] \in Volumes
  BY LenProperties DEF ListingInv, TypeInv, UsedOnce, ListInv
<1>2. PICK limit, marker : limit = lister.limit /\ marker = lister.token
  OBVIOUS
<1> DEFINE page == Page(limit, marker)
           token == NextToken(limit, page)
           listed == lister.listed \o page
           n == Len(page)
<1>3. /\ lister' = [lister EXCEPT !.listed = lister.listed \o page, !.token = token,
                                  !.pc = IF token = None THEN "done" ELSE "listing"]
      /\ lister.pc = "listing" /\ UNCHANGED <<volumes, unborn, faults>>
      /\ lister.token \in ToSet(volumes) \cup {None}
  BY <1>2 DEF ListVolumes
<1>4. PICK k : At(k, marker, volumes)
  <2>1. CASE lister.token = None
    BY <1>1, <1>2, <2>1 DEF At
  <2>2. CASE lister.token \in ToSet(volumes)
    <3>1. PICK i \in 1 .. Len(volumes) : volumes[i] = lister.token
      BY <1>1, <2>2 DEF ToSet
    <3> QED BY <1>1, <1>2, <3>1 DEF At
  <2> QED BY <1>3, <2>1, <2>2
<1>5. /\ page \in Seq(Volumes) /\ n \in Nat /\ k + n <= Len(volumes)
      /\ k \in 0 .. Len(volumes)
      /\ \A i \in 1 .. n : page[i] = volumes[k + i]
  <2>1. k \in 0 .. Len(volumes)
    BY <1>4 DEF At
  <2>2. TypeInv /\ UsedOnce /\ limit \in Nat
    BY <1>1, <1>2
  <2>3. IsPage(page, k, limit)
    BY <1>4, <2>2, PageContents
  <2> HIDE DEF page
  <2> QED BY <2>1, <2>3, LenProperties DEF IsPage
<1>6. \/ token # None /\ At(k + n, token, volumes)
      \/ token = None /\ k + n = Len(volumes)
      \/ token = None /\ limit = 0 /\ n = MaxLimit
  BY <1>1, <1>2, <1>4, NextPage
<1>7. \A i \in 1 .. Len(volumes) : Ahead(i) <=> k < i
  BY <1>1, <1>2, <1>4, BehindToken DEF Ahead
<1>8. /\ listed \in Seq(Volumes) /\ IsInjective(listed) /\ Len(listed) = Len(lister.listed) + n
      /\ \A x : x \in ToSet(listed)
               <=> x \in ToSet(lister.listed) \/ \E i \in k + 1 .. k + n : x = volumes[i]
  <2>1. \A i \in 1 .. Len(volumes) : k < i => volumes[i] \notin ToSet(lister.listed)
    BY <1>1, <1>3, <1>7 DEF ListInv
  <2>2. k \in Nat /\ k + Len(page) <= Len(volumes)
        /\ \A i \in 1 .. Len(page) : page[i] = volumes[k + i]
    BY <1>5
  <2>3. /\ volumes \in Seq(Volumes) /\ lister.listed \in Seq(Volumes) /\ page \in Seq(Volumes)
        /\ IsInjective(volumes) /\ IsInjective(lister.listed)
    BY <1>1, <1>5
  <2> QED BY <2>1, <2>2, <2>3, AddPage
<1>9. /\ lister'.pc = (IF token = None THEN "done" ELSE "listing") /\ lister'.limit = lister.limit
      /\ lister'.token = token /\ lister'.listed = listed /\ lister'.stayed = lister.stayed
  BY <1>1, <1>3 DEF TypeInv
<1> HIDE DEF page, token, listed, n
<1>10. token \in Volumes \cup {None} /\ token \notin unborn
  <2>1. CASE token = None
    BY <1>1, <2>1, ListingAssumption DEF TypeInv
  <2>2. CASE token # None
    <3>1. k + n \in DOMAIN volumes /\ volumes[k + n] = token
      <4>1. At(k + n, token, volumes)
        BY <1>6, <2>2
      <4>2. k + n \in 0 .. Len(volumes) /\ k + n # 0 /\ volumes[k + n] = token
        BY <2>2, <4>1 DEF At
      <4> QED BY <1>1, <4>2
    <3> QED BY <1>1, <3>1 DEF UsedOnce
  <2> QED BY <2>1, <2>2
<1>11. TypeInv'
  <2>1. lister' \in [pc : {"idle", "listing", "done"}, limit : Nat, token : Volumes \cup {None},
                     listed : Seq(Volumes), stayed : SUBSET Volumes]
    BY <1>1, <1>3, <1>8, <1>10 DEF TypeInv, listed
  <2> QED BY <1>1, <1>3, <2>1 DEF TypeInv
<1>12. UsedOnce'
  <2>1. ASSUME NEW i \in DOMAIN listed
        PROVE  listed[i] \notin unborn
    <3>1. listed[i] \in ToSet(listed)
      BY DEF ToSet
    <3>2. CASE listed[i] \in ToSet(lister.listed)
      BY <1>1, <3>2 DEF ToSet, UsedOnce
    <3>3. CASE \E j \in k + 1 .. k + n : listed[i] = volumes[j]
      <4>1. PICK j \in DOMAIN volumes : listed[i] = volumes[j]
        BY <1>1, <1>5, <3>3
      <4> QED BY <1>1, <4>1 DEF UsedOnce
    <3> QED BY <1>8, <3>1, <3>2, <3>3
  <2> QED BY <1>1, <1>3, <1>9, <1>10, <2>1 DEF UsedOnce
<1>13. ASSUME NEW i \in 1 .. Len(volumes)
       PROVE  volumes[i] \in ToSet(listed) <=> volumes[i] \in ToSet(lister.listed) \/ (k < i /\ i <= k + n)
  <2>1. \A j \in k + 1 .. k + n : volumes[i] = volumes[j] => i = j
    <3>1. \A j \in k + 1 .. k + n : j \in DOMAIN volumes
      BY <1>1, <1>5
    <3> QED BY <1>1, <3>1 DEF IsInjective
  <2>2. i \in k + 1 .. k + n <=> k < i /\ i <= k + n
    BY <1>1, <1>5
  <2> QED BY <1>8, <2>1, <2>2
<1>14. ASSUME NEW i \in 1 .. Len(volumes), volumes[i] \in lister.stayed
       PROVE  k + n < i \/ volumes[i] \in ToSet(listed)
  <2>1. Ahead(i) \/ volumes[i] \in ToSet(lister.listed)
    BY <1>1, <1>3, <1>14 DEF ListInv
  <2> QED BY <1>1, <1>5, <1>7, <1>13, <2>1
<1>15. ListInv'
  <2>1. lister'.stayed \subseteq ToSet(volumes')
    BY <1>1, <1>3, <1>9 DEF ListInv
  <2>2. CASE token = None
    <3>1. ASSUME lister.limit > 0
          PROVE  lister.stayed \subseteq ToSet(listed)
      <4>1. k + n = Len(volumes)
        BY <1>2, <1>6, <2>2, <3>1
      <4>2. ASSUME NEW v \in lister.stayed
            PROVE  v \in ToSet(listed)
        <5>1. PICK i \in 1 .. Len(volumes) : volumes[i] = v
          BY <1>1 DEF ListInv, ToSet
        <5>2. ~(k + n < i)
          BY <1>1, <4>1
        <5> QED BY <1>14, <4>2, <5>1, <5>2
      <4> QED BY <4>2
    <3>2. CompleteWithLimit'
      BY <1>9, <3>1 DEF CompleteWithLimit
    <3> QED BY <1>8, <1>9, <2>1, <2>2, <3>2 DEF ListInv
  <2>3. CASE token # None
    <3>1. \A i \in 1 .. Len(volumes) : Ahead(i)' <=> k + n < i
      <4>1. \A i \in 1 .. Len(volumes) : Follows(i, token, volumes) <=> k + n < i
        BY <1>1, <1>6, <2>3, BehindToken
      <4> QED BY <1>3, <1>9, <4>1 DEF Ahead
    <3>2. ASSUME NEW i \in 1 .. Len(volumes), k + n < i
          PROVE  volumes[i] \notin ToSet(listed)
      <4>1. k < i /\ ~(i <= k + n)
        BY <1>1, <1>5, <3>2
      <4>2. volumes[i] \notin ToSet(lister.listed)
        BY <1>1, <1>3, <1>7, <4>1 DEF ListInv
      <4> QED BY <1>13, <4>1, <4>2
    <3>3. CompleteWithLimit'
      BY <1>9, <2>3 DEF CompleteWithLimit
    <3> QED BY <1>1, <1>3, <1>8, <1>9, <1>14, <2>1, <2>3, <3>1, <3>2, <3>3 DEF ListInv
  <2> QED BY <2>2, <2>3
<1> QED BY <1>11, <1>12, <1>15 DEF ListingInv

\* A new volume comes before all others, where a listing has been.
LEMMA CreateKeeps ==
    ASSUME ListingInv, NEW v \in Volumes, Create(v)
    PROVE  ListingInv'
<1> DEFINE W == <<v>> \o volumes
           m == Len(volumes)
           t == lister.token
<1>1. /\ volumes \in Seq(Volumes) /\ m \in Nat /\ DOMAIN volumes = 1 .. m
      /\ TypeInv /\ UsedOnce /\ ListInv /\ v \in unborn
      /\ volumes' = W /\ unborn' = unborn \ {v} /\ lister' = lister /\ faults' = faults
  BY LenProperties DEF ListingInv, TypeInv, Create
<1>2. /\ W \in Seq(Volumes) /\ Len(W) = m + 1 /\ DOMAIN W = 1 .. m + 1
      /\ W[1] = v /\ \A i \in 1 .. m : W[i + 1] = volumes[i]
  <2>1. <<v>> \in Seq(Volumes) /\ Len(<<v>>) = 1
    OBVIOUS
  <2>2. /\ W \in Seq(Volumes) /\ Len(W) = 1 + m
        /\ \A j \in 1 .. 1 + m : W[j] = IF j <= 1 THEN <<v>>[j] ELSE volumes[j - 1]
    BY <1>1, <2>1, ConcatProperties
  <2> HIDE DEF W, m
  <2>3. W[1] = v
    BY <1>1, <2>2
  <2>4. ASSUME NEW i \in 1 .. m
        PROVE  W[i + 1] = volumes[i]
    <3>1. i + 1 \in 1 .. 1 + m /\ ~(i + 1 <= 1) /\ i + 1 - 1 = i
      BY <1>1
    <3> QED BY <2>2, <3>1
  <2> QED BY <1>1, <2>2, <2>3, <2>4, LenProperties
<1> HIDE DEF W, m, t
<1>3. \A j \in 1 .. m + 1 : j = 1 \/ \E i \in 1 .. m : j = i + 1
  <2> SUFFICES ASSUME NEW j \in 1 .. m + 1, j # 1 PROVE \E i \in 1 .. m : j = i + 1
    OBVIOUS
  <2>1. j - 1 \in 1 .. m /\ j = (j - 1) + 1
    BY <1>1
  <2> QED BY <2>1
<1>4. \A i \in 1 .. m : volumes[i] \notin unborn /\ volumes[i] # v
  BY <1>1 DEF UsedOnce
<1>5. t # v /\ lister.stayed \subseteq ToSet(volumes)
  BY <1>1 DEF UsedOnce, ListInv, t
<1>6. Follows(1, t, W) <=> t = None
  BY <1>1, <1>2 DEF Follows
<1>7. ASSUME NEW i \in 1 .. m
      PROVE  Follows(i + 1, t, W) <=> Follows(i, t, volumes)
  <2>1. ASSUME NEW k \in 1 .. m + 1, W[k] = t, k < i + 1
        PROVE  \E l \in 1 .. m : volumes[l] = t /\ l < i
    <3>1. PICK l \in 1 .. m : k = l + 1
      BY <1>2, <1>3, <1>5, <2>1
    <3>2. volumes[l] = t /\ l < i
      BY <1>1, <1>2, <2>1, <3>1
    <3> QED BY <3>2
  <2>2. ASSUME NEW l \in 1 .. m, volumes[l] = t, l < i
        PROVE  \E k \in 1 .. m + 1 : W[k] = t /\ k < i + 1
    <3>1. l + 1 \in 1 .. m + 1 /\ W[l + 1] = t /\ l + 1 < i + 1
      BY <1>1, <1>2, <2>2
    <3> QED BY <3>1
  <2> QED BY <1>1, <1>2, <2>1, <2>2 DEF Follows
<1>8. TypeInv'
  BY <1>1, <1>2 DEF TypeInv
<1>9. UsedOnce'
  <2>1. IsInjective(W)
    <3> SUFFICES ASSUME NEW a \in 1 .. m + 1, NEW b \in 1 .. m + 1, W[a] = W[b] PROVE a = b
      BY <1>2 DEF IsInjective
    <3>1. CASE a = 1 \/ b = 1
      BY <1>2, <1>3, <1>4, <3>1
    <3>2. CASE a # 1 /\ b # 1
      <4>1. PICK i \in 1 .. m, j \in 1 .. m : a = i + 1 /\ b = j + 1
        BY <1>3, <3>2
      <4>2. volumes[i] = volumes[j]
        BY <1>2, <4>1
      <4> QED BY <1>1, <4>1, <4>2 DEF UsedOnce, IsInjective
    <3> QED BY <3>1, <3>2
  <2>2. \A j \in 1 .. m + 1 : W[j] \notin unborn \ {v}
    BY <1>2, <1>3, <1>4
  <2> QED BY <1>1, <1>2, <2>1, <2>2 DEF UsedOnce
<1>10. ListInv'
  <2>1. ToSet(volumes) \subseteq ToSet(W)
    <3> SUFFICES ASSUME NEW i \in 1 .. m PROVE volumes[i] \in ToSet(W)
      BY <1>1 DEF ToSet
    <3>1. i + 1 \in DOMAIN W /\ W[i + 1] = volumes[i]
      BY <1>1, <1>2
    <3> QED BY <3>1 DEF ToSet
  <2>2. v \notin ToSet(lister.listed) /\ v \notin lister.stayed
    BY <1>1, <1>4, <1>5 DEF ToSet, UsedOnce
  <2>3. ASSUME lister.pc = "listing", NEW j \in 1 .. m + 1, Follows(j, t, W)
        PROVE  W[j] \notin ToSet(lister.listed)
    <3>1. CASE j = 1
      BY <1>2, <2>2, <3>1
    <3>2. CASE j # 1
      <4>1. PICK i \in 1 .. m : j = i + 1
        BY <1>3, <3>2
      <4>2. Follows(i, t, volumes) /\ W[j] = volumes[i]
        BY <1>2, <1>7, <2>3, <4>1
      <4> QED BY <1>1, <2>3, <4>2 DEF ListInv, Ahead, t
    <3> QED BY <3>1, <3>2
  <2>4. ASSUME lister.pc = "listing", t \in ToSet(W) \cup {None},
               NEW j \in 1 .. m + 1, W[j] \in lister.stayed
        PROVE  Follows(j, t, W) \/ W[j] \in ToSet(lister.listed)
    <3>1. PICK i \in 1 .. m : j = i + 1
      BY <1>2, <1>3, <2>2, <2>4
    <3>2. t \in ToSet(volumes) \cup {None}
      <4>1. \A k \in 1 .. m + 1 : W[k] = v \/ W[k] \in ToSet(volumes)
        <5>1. \A l \in 1 .. m : volumes[l] \in ToSet(volumes)
          BY <1>1 DEF ToSet
        <5> QED BY <1>2, <1>3, <5>1
      <4>2. ToSet(W) \subseteq ToSet(volumes) \cup {v}
        BY <1>2, <4>1 DEF ToSet
      <4> QED BY <1>5, <2>4, <4>2
    <3>3. W[j] = volumes[i]
      BY <1>2, <3>1
    <3>4. Follows(i, t, volumes) \/ volumes[i] \in ToSet(lister.listed)
      BY <1>1, <2>4, <3>2, <3>3 DEF ListInv, Ahead, t
    <3> QED BY <1>7, <3>1, <3>3, <3>4
  <2>5. CompleteWithLimit' /\ IsInjective(lister.listed)
        /\ (lister.pc = "listing" /\ t = None => lister.listed = <<>>)
    BY <1>1 DEF ListInv, CompleteWithLimit, t
  <2> QED BY <1>1, <1>2, <1>5, <2>1, <2>3, <2>4, <2>5 DEF ListInv, Ahead, t
<1> QED BY <1>8, <1>9, <1>10 DEF ListingInv

\* A volume that is deleted is not awaited any more, and the others keep their order.
LEMMA DeleteKeeps ==
    ASSUME ListingInv, NEW d \in DOMAIN volumes, Delete(d)
    PROVE  ListingInv'
<1> DEFINE W == RemoveAt(volumes, d)
           m == Len(volumes)
           t == lister.token
           g(j) == IF j < d THEN j ELSE j + 1
<1>1. /\ volumes \in Seq(Volumes) /\ m \in Nat /\ DOMAIN volumes = 1 .. m /\ d \in 1 .. m
      /\ TypeInv /\ UsedOnce /\ ListInv /\ IsInjective(volumes)
      /\ volumes' = W /\ UNCHANGED <<unborn, faults>>
      /\ lister' = [lister EXCEPT !.stayed = lister.stayed \ {volumes[d]}]
  BY LenProperties DEF ListingInv, TypeInv, UsedOnce, Delete
<1>2. /\ W \in Seq(Volumes) /\ Len(W) = m - 1 /\ DOMAIN W = 1 .. m - 1
      /\ \A j \in 1 .. m - 1 : W[j] = volumes[g(j)]
  <2>1. /\ SubSeq(volumes, 1, d - 1) \in Seq(Volumes) /\ Len(SubSeq(volumes, 1, d - 1)) = d - 1
        /\ \A i \in 1 .. d - 1 : SubSeq(volumes, 1, d - 1)[i] = volumes[i]
    <3>1. \A i \in 1 .. d - 1 : volumes[i] \in Volumes
      BY <1>1
    <3>2. /\ SubSeq(volumes, 1, d - 1) \in Seq(Volumes)
          /\ Len(SubSeq(volumes, 1, d - 1)) = IF 1 <= d - 1 THEN d - 1 - 1 + 1 ELSE 0
          /\ \A i \in 1 .. d - 1 - 1 + 1 : SubSeq(volumes, 1, d - 1)[i] = volumes[1 + i - 1]
      BY <1>1, <3>1, SubSeqProperties
    <3> QED BY <1>1, <3>2
  <2>2. /\ SubSeq(volumes, d + 1, m) \in Seq(Volumes) /\ Len(SubSeq(volumes, d + 1, m)) = m - d
        /\ \A i \in 1 .. m - d : SubSeq(volumes, d + 1, m)[i] = volumes[d + i]
    <3>1. \A i \in d + 1 .. m : volumes[i] \in Volumes
      BY <1>1
    <3>2. /\ SubSeq(volumes, d + 1, m) \in Seq(Volumes)
          /\ Len(SubSeq(volumes, d + 1, m)) = IF d + 1 <= m THEN m - (d + 1) + 1 ELSE 0
          /\ \A i \in 1 .. m - (d + 1) + 1 : SubSeq(volumes, d + 1, m)[i] = volumes[d + 1 + i - 1]
      BY <1>1, <3>1, SubSeqProperties
    <3> HIDE DEF m
    <3> QED BY <1>1, <3>2
  <2> DEFINE A == SubSeq(volumes, 1, d - 1)
             B == SubSeq(volumes, d + 1, m)
  <2>3. W = A \o B
    BY DEF RemoveAt
  <2> HIDE DEF A, B, W, m
  <2>4. /\ A \in Seq(Volumes) /\ Len(A) = d - 1 /\ \A i \in 1 .. d - 1 : A[i] = volumes[i]
        /\ B \in Seq(Volumes) /\ Len(B) = m - d /\ \A i \in 1 .. m - d : B[i] = volumes[d + i]
    BY <2>1, <2>2 DEF A, B, m
  <2>5. /\ W \in Seq(Volumes) /\ Len(W) = (d - 1) + (m - d)
        /\ \A j \in 1 .. (d - 1) + (m - d) : W[j] = IF j <= d - 1 THEN A[j] ELSE B[j - (d - 1)]
    BY <2>3, <2>4, ConcatProperties
  <2>6. (d - 1) + (m - d) = m - 1
    BY <1>1
  <2>7. ASSUME NEW j \in 1 .. m - 1
        PROVE  W[j] = volumes[g(j)]
    <3>1. CASE j < d
      <4>1. j \in 1 .. d - 1 /\ j <= d - 1
        BY <1>1, <3>1
      <4> QED BY <2>4, <2>5, <2>6, <3>1, <4>1
    <3>2. CASE ~(j < d)
      <4>1. ~(j <= d - 1) /\ j - (d - 1) \in 1 .. m - d /\ d + (j - (d - 1)) = j + 1
        BY <1>1, <3>2
      <4>2. W[j] = B[j - (d - 1)]
        BY <2>5, <2>6, <4>1
      <4> QED BY <2>4, <3>2, <4>1, <4>2
    <3> QED BY <3>1, <3>2
  <2> QED BY <2>5, <2>6, <2>7, LenProperties
<1>3. /\ \A j \in 1 .. m - 1 : g(j) \in 1 .. m /\ g(j) # d
      /\ \A i, j \in 1 .. m - 1 : i < j <=> g(i) < g(j)
      /\ \A i, j \in 1 .. m - 1 : g(i) = g(j) => i = j
      /\ \A i \in 1 .. m : i # d => \E j \in 1 .. m - 1 : g(j) = i
  <2> HIDE DEF m
  <2>1. ASSUME NEW i \in 1 .. m, i # d
        PROVE  \E j \in 1 .. m - 1 : g(j) = i
    <3>1. CASE i < d
      BY <1>1, <3>1
    <3>2. CASE ~(i < d)
      <4>1. i - 1 \in 1 .. m - 1 /\ g(i - 1) = i
        BY <1>1, <2>1, <3>2
      <4> QED BY <4>1
    <3> QED BY <3>1, <3>2
  <2> QED BY <1>1, <2>1
<1> HIDE DEF W, m, t, g
<1>4. /\ lister'.pc = lister.pc /\ lister'.limit = lister.limit /\ lister'.token = t
      /\ lister'.listed = lister.listed /\ lister'.stayed = lister.stayed \ {volumes[d]}
  BY <1>1 DEF TypeInv, t
<1>5. TypeInv'
  <2>1. lister' \in [pc : {"idle", "listing", "done"}, limit : Nat, token : Volumes \cup {None},
                     listed : Seq(Volumes), stayed : SUBSET Volumes]
    BY <1>1 DEF TypeInv
  <2> QED BY <1>1, <1>2, <2>1 DEF TypeInv
<1>6. UsedOnce'
  <2>1. IsInjective(W)
    <3> SUFFICES ASSUME NEW a \in 1 .. m - 1, NEW b \in 1 .. m - 1, W[a] = W[b] PROVE a = b
      BY <1>2 DEF IsInjective
    <3>1. g(a) \in DOMAIN volumes /\ g(b) \in DOMAIN volumes /\ volumes[g(a)] = volumes[g(b)]
      BY <1>1, <1>2, <1>3
    <3>2. g(a) = g(b)
      BY <1>1, <3>1 DEF IsInjective
    <3> QED BY <1>3, <3>2
  <2>2. \A j \in 1 .. m - 1 : W[j] \notin unborn
    BY <1>1, <1>2, <1>3 DEF UsedOnce
  <2>3. /\ \A i \in DOMAIN lister.listed : lister.listed[i] \notin unborn
        /\ t \notin unborn
    BY <1>1 DEF UsedOnce, t
  <2> QED BY <1>1, <1>2, <1>4, <2>1, <2>2, <2>3 DEF UsedOnce
<1>7. ASSUME NEW j \in 1 .. m - 1, Follows(j, t, W)
      PROVE  Follows(g(j), t, volumes)
  <2>1. CASE t = None
    BY <2>1 DEF Follows
  <2>2. CASE t # None
    <3>1. PICK k \in 1 .. m - 1 : W[k] = t /\ k < j
      BY <1>2, <1>7, <2>2 DEF Follows
    <3>2. g(k) \in DOMAIN volumes /\ volumes[g(k)] = t /\ g(k) < g(j)
      BY <1>1, <1>2, <1>3, <3>1
    <3> QED BY <3>2 DEF Follows
  <2> QED BY <2>1, <2>2
<1>8. ASSUME t \in ToSet(W) \cup {None}, NEW j \in 1 .. m - 1, Follows(g(j), t, volumes)
      PROVE  Follows(j, t, W)
  <2>1. CASE t = None
    BY <2>1 DEF Follows
  <2>2. CASE t # None
    <3>1. PICK k \in 1 .. m - 1 : W[k] = t
      BY <1>2, <1>8, <2>2 DEF ToSet
    <3>2. PICK l \in DOMAIN volumes : volumes[l] = t /\ l < g(j)
      BY <1>8, <2>2 DEF Follows
    <3>3. g(k) \in DOMAIN volumes /\ volumes[g(k)] = t
      BY <1>1, <1>2, <1>3, <3>1
    <3>4. g(k) = l
      BY <1>1, <3>2, <3>3 DEF IsInjective
    <3>5. k < j
      BY <1>3, <3>2, <3>4
    <3> QED BY <1>2, <3>1, <3>5 DEF Follows
  <2> QED BY <2>1, <2>2
<1>9. ToSet(W) \subseteq ToSet(volumes)
  <2> SUFFICES ASSUME NEW j \in 1 .. m - 1 PROVE W[j] \in ToSet(volumes)
    BY <1>2 DEF ToSet
  <2>1. g(j) \in DOMAIN volumes /\ W[j] = volumes[g(j)]
    BY <1>1, <1>2, <1>3
  <2> QED BY <2>1 DEF ToSet
<1>10. ListInv'
  <2>1. lister.stayed \ {volumes[d]} \subseteq ToSet(W)
    <3> SUFFICES ASSUME NEW x \in lister.stayed, x # volumes[d] PROVE x \in ToSet(W)
      OBVIOUS
    <3>1. PICK i \in 1 .. m : volumes[i] = x
      BY <1>1 DEF ListInv, ToSet
    <3>2. PICK j \in 1 .. m - 1 : g(j) = i
      BY <1>3, <3>1
    <3>3. j \in DOMAIN W /\ W[j] = x
      BY <1>2, <3>1, <3>2
    <3> QED BY <3>3 DEF ToSet
  <2>2. ASSUME lister.pc = "listing", NEW j \in 1 .. m - 1, Follows(j, t, W)
        PROVE  W[j] \notin ToSet(lister.listed)
    <3>1. g(j) \in DOMAIN volumes /\ W[j] = volumes[g(j)] /\ Follows(g(j), t, volumes)
      BY <1>1, <1>2, <1>3, <1>7, <2>2
    <3> QED BY <1>1, <2>2, <3>1 DEF ListInv, Ahead, t
  <2>3. ASSUME lister.pc = "listing", t \in ToSet(W) \cup {None},
               NEW j \in 1 .. m - 1, W[j] \in lister.stayed
        PROVE  Follows(j, t, W) \/ W[j] \in ToSet(lister.listed)
    <3>1. g(j) \in DOMAIN volumes /\ W[j] = volumes[g(j)]
      BY <1>1, <1>2, <1>3
    <3>2. Follows(g(j), t, volumes) \/ volumes[g(j)] \in ToSet(lister.listed)
      BY <1>1, <1>9, <2>3, <3>1 DEF ListInv, Ahead, t
    <3> QED BY <1>8, <2>3, <3>1, <3>2
  <2>4. CompleteWithLimit' /\ IsInjective(lister.listed)
        /\ (lister.pc = "listing" /\ t = None => lister.listed = <<>>)
    BY <1>1, <1>4 DEF ListInv, CompleteWithLimit, t
  <2> QED BY <1>1, <1>2, <1>4, <2>1, <2>2, <2>3, <2>4 DEF ListInv, Ahead
<1> QED BY <1>5, <1>6, <1>10 DEF ListingInv

LEMMA ListingStep == ListingInv /\ [Next]_vars => ListingInv'
<1> SUFFICES ASSUME ListingInv, [Next]_vars PROVE ListingInv'
  OBVIOUS
<1>1. lister.limit \in Nat /\ faults \in Nat /\ \A limit \in Limits : limit \in Nat
  BY ListingAssumption DEF ListingInv, TypeInv
<1>2. CASE ListVolumes
  BY <1>2, PageListed
<1>3. CASE MarkerUnknown
  BY <1>1, <1>3, BeginsAnew DEF MarkerUnknown, StartAgain
<1>4. CASE RequestFails
  BY <1>1, <1>4, BeginsAnew DEF RequestFails, StartAgain
<1>5. ASSUME NEW limit \in Limits, StartListing(limit) PROVE ListingInv'
  BY <1>1, <1>5, BeginsAnew DEF StartListing
<1>6. ASSUME NEW v \in Volumes, Create(v) PROVE ListingInv'
  BY <1>6, CreateKeeps
<1>7. ASSUME NEW i \in DOMAIN volumes, Delete(i) PROVE ListingInv'
  BY <1>7, DeleteKeeps
<1>8. CASE UNCHANGED vars
  BY <1>8 DEF vars, ListingInv, TypeInv, UsedOnce, ListInv, CompleteWithLimit, Ahead
<1> QED BY <1>2, <1>3, <1>4, <1>5, <1>6, <1>7, <1>8 DEF Next

LEMMA ListingAlways == Spec => []ListingInv
<1> QED BY ListingInit, ListingStep, PTL DEF Spec

\* A listing for which the lister gave a limit holds, once it has ended, every volume
\* that was there from its beginning to its end: for any number of volumes and pages,
\* any limit but 0, and whatever is created and deleted between two pages.
THEOREM CompleteWithLimitCorrect == Spec => []CompleteWithLimit
<1>1. ListingInv => CompleteWithLimit
  BY DEF ListingInv, ListInv
<1> QED BY <1>1, ListingAlways, PTL

\* No page repeats a volume of an earlier one, whatever was created and deleted in
\* between.
THEOREM NeverListedTwice == Spec => []ListedOnce
<1>1. ListingInv => ListedOnce
  BY DEF ListingInv, ListInv, ListedOnce
<1> QED BY <1>1, ListingAlways, PTL
=============================================================================
