---------------------------- MODULE ServiceProofs ---------------------------
(* Proofs about Service for any number of replicas, templates, integrations *)
(* and keys.                                                                *)
EXTENDS Service, FiniteSetTheorems, TLAPS

(* Paging: how many rows can cross the client's offset when a list L becomes*)
(* M.  Front(L, x) is what the list holds ahead of x.                       *)
Front(L, x) == {y \in L : y > x}
Crossing(L, M, o) ==
    {x \in L \cap M : o =< Cardinality(Front(L, x)) /\ Cardinality(Front(M, x)) < o}

LEMMA FrontFinite ==
    ASSUME NEW L, IsFiniteSet(L), NEW x
    PROVE  IsFiniteSet(Front(L, x)) /\ Cardinality(Front(L, x)) \in Nat
<1>1. Front(L, x) \in SUBSET L
  BY DEF Front
<1> QED BY <1>1, FS_Subset, FS_CardinalityType

(* Ahead of a newer row there are fewer rows.                               *)
LEMMA FrontShrinks ==
    ASSUME NEW L \in SUBSET Int, IsFiniteSet(L), NEW x \in L, NEW y \in L, y > x
    PROVE  Cardinality(Front(L, y)) < Cardinality(Front(L, x))
<1>0. x \in Int /\ y \in Int
  OBVIOUS
<1>1. Front(L, y) \in SUBSET Front(L, x) /\ y \in Front(L, x) /\ y \notin Front(L, y)
  <2>1. ASSUME NEW z \in L, z > y PROVE z > x
    <3>1. z \in Int
      OBVIOUS
    <3> QED BY <1>0, <2>1, <3>1
  <2>2. y \in L /\ ~(y > y)
    BY <1>0
  <2> QED BY <2>1, <2>2 DEF Front
<1>2. /\ Cardinality(Front(L, y)) =< Cardinality(Front(L, x))
      /\ Cardinality(Front(L, y)) # Cardinality(Front(L, x))
  BY <1>1, FrontFinite, FS_Subset
<1> QED BY <1>2, FrontFinite

(* A row moves ahead by no more places than rows have left.                 *)
LEMMA FrontLoses ==
    ASSUME NEW L, NEW M, IsFiniteSet(L), IsFiniteSet(M), NEW x
    PROVE  Cardinality(Front(L, x)) =< Cardinality(Front(M, x)) + Cardinality(L \ M)
<1>1. Front(L, x) \in SUBSET (Front(M, x) \cup (L \ M))
  BY DEF Front
<1>2. IsFiniteSet(L \ M) /\ IsFiniteSet(Front(M, x)) /\ IsFiniteSet(Front(L, x))
  BY FrontFinite, FS_Difference
<1>3. /\ IsFiniteSet(Front(M, x) \cup (L \ M))
      /\ Cardinality(Front(M, x) \cup (L \ M)) =
           Cardinality(Front(M, x)) + Cardinality(L \ M) - Cardinality(Front(M, x) \cap (L \ M))
  BY <1>2, FS_Union
<1>4. Cardinality(Front(L, x)) =< Cardinality(Front(M, x) \cup (L \ M))
  BY <1>1, <1>3, FS_Subset
<1>5. IsFiniteSet(Front(M, x) \cap (L \ M))
  BY <1>2, FS_Intersection
<1>6. /\ Cardinality(Front(M, x)) \in Nat /\ Cardinality(L \ M) \in Nat
      /\ Cardinality(Front(M, x) \cap (L \ M)) \in Nat /\ Cardinality(Front(L, x)) \in Nat
  BY <1>2, <1>5, FS_CardinalityType
<1> QED BY <1>3, <1>4, <1>6

(* Rows have different places, and those that cross the offset were in the  *)
(* first places behind it: as many at most as rows have left.               *)
LEMMA FewCross ==
    ASSUME NEW L \in SUBSET Int, NEW M, IsFiniteSet(L), IsFiniteSet(M), NEW o \in Nat
    PROVE  /\ IsFiniteSet(Crossing(L, M, o))
           /\ Cardinality(Crossing(L, M, o)) =< Cardinality(L \ M)
<1> DEFINE C == Crossing(L, M, o)
           d == Cardinality(L \ M)
           T == o..(o + d - 1)
           f == [x \in C |-> Cardinality(Front(L, x))]
<1>1. d \in Nat
  BY FS_Difference, FS_CardinalityType
<1>2. ASSUME NEW x \in C PROVE f[x] \in T
  <2>1. /\ o =< Cardinality(Front(L, x)) /\ Cardinality(Front(M, x)) < o
        /\ Cardinality(Front(L, x)) =< Cardinality(Front(M, x)) + d
    BY FrontLoses DEF Crossing
  <2>2. Cardinality(Front(L, x)) \in Nat /\ Cardinality(Front(M, x)) \in Nat
    BY FrontFinite
  <2> HIDE DEF d
  <2> QED BY <1>1, <2>1, <2>2
<1>3. ASSUME NEW x \in C, NEW y \in C, f[x] = f[y] PROVE x = y
  <2>1. x \in L /\ y \in L /\ x \in Int /\ y \in Int
    BY DEF Crossing
  <2>2. ~(y > x) /\ ~(x > y)
    BY <1>3, <2>1, FrontShrinks, FrontFinite
  <2> QED BY <2>1, <2>2
<1>4. f \in Injection(C, T)
  BY <1>2, <1>3 DEF Injection, IsInjective
<1>5. IsFiniteSet(T) /\ Cardinality(T) = d
  <2> HIDE DEF d
  <2> QED BY <1>1, FS_Interval
<1> HIDE DEF f, T
<1> QED BY <1>4, <1>5, FS_Injection

(* What the client has passed of the rows K, in a list L, at an offset o.   *)
Behind(L, K, o) == {x \in K : Cardinality(Front(L, x)) < o}

LEMMA DriftIsBounded ==
    ASSUME NEW L \in SUBSET Int, NEW M \in SUBSET Int, IsFiniteSet(L), IsFiniteSet(M),
           NEW o \in Nat, NEW K \in SUBSET L, NEW S, NEW a \in Nat, NEW d \in Nat,
           Cardinality(Behind(L, K, o) \ S) =< d,
           Cardinality((K \cap S) \ Behind(L, K, o)) =< a
    PROVE  /\ Cardinality(Behind(M, K \cap M, o) \ S) =< d + Cardinality(L \ M)
           /\ Cardinality((K \cap M \cap S) \ Behind(M, K \cap M, o)) =< a + Cardinality(M \ L)
<1> DEFINE missed == Behind(L, K, o) \ S
           again == (K \cap S) \ Behind(L, K, o)
           ahead == Crossing(L, M, o)
           back == Crossing(M, L, o)
<1>1. /\ IsFiniteSet(ahead) /\ Cardinality(ahead) =< Cardinality(L \ M)
      /\ IsFiniteSet(back) /\ Cardinality(back) =< Cardinality(M \ L)
  BY FewCross
<1>2. IsFiniteSet(missed) /\ IsFiniteSet(again)
  <2>1. missed \in SUBSET L /\ again \in SUBSET L
    BY DEF Behind
  <2> QED BY <2>1, FS_Subset
<1>3. Behind(M, K \cap M, o) \ S \in SUBSET (missed \cup ahead)
  <2>1. ASSUME NEW x \in Behind(M, K \cap M, o) \ S, x \notin missed PROVE x \in ahead
    <3>1. x \in K /\ x \in L /\ x \in M /\ Cardinality(Front(M, x)) < o
      BY DEF Behind
    <3>2. ~(Cardinality(Front(L, x)) < o)
      BY <2>1, <3>1 DEF Behind
    <3>3. Cardinality(Front(L, x)) \in Nat
      BY FrontFinite
    <3> QED BY <3>1, <3>2, <3>3 DEF Crossing
  <2> QED BY <2>1
<1>4. (K \cap M \cap S) \ Behind(M, K \cap M, o) \in SUBSET (again \cup back)
  <2>1. ASSUME NEW x \in (K \cap M \cap S) \ Behind(M, K \cap M, o), x \notin again
        PROVE  x \in back
    <3>1. x \in K /\ x \in L /\ x \in M /\ ~(Cardinality(Front(M, x)) < o)
      BY DEF Behind
    <3>2. Cardinality(Front(L, x)) < o
      BY <2>1, <3>1 DEF Behind
    <3>3. Cardinality(Front(M, x)) \in Nat
      BY FrontFinite
    <3> QED BY <3>1, <3>2, <3>3 DEF Crossing
  <2> QED BY <2>1
<1>5. ASSUME NEW A, NEW B, NEW C, IsFiniteSet(A), IsFiniteSet(B), C \in SUBSET (A \cup B)
      PROVE  /\ Cardinality(C) =< Cardinality(A) + Cardinality(B)
             /\ Cardinality(A) \in Nat /\ Cardinality(B) \in Nat /\ Cardinality(C) \in Nat
  <2>1. /\ IsFiniteSet(A \cup B)
        /\ Cardinality(A \cup B) = Cardinality(A) + Cardinality(B) - Cardinality(A \cap B)
    BY <1>5, FS_Union
  <2>2. IsFiniteSet(C) /\ Cardinality(C) =< Cardinality(A \cup B)
    BY <1>5, <2>1, FS_Subset
  <2>3. IsFiniteSet(A \cap B)
    BY <1>5, FS_Intersection
  <2>4. /\ Cardinality(A) \in Nat /\ Cardinality(B) \in Nat
        /\ Cardinality(A \cap B) \in Nat /\ Cardinality(C) \in Nat
    BY <1>5, <2>2, <2>3, FS_CardinalityType
  <2> QED BY <2>1, <2>2, <2>4
<1>6. Cardinality(L \ M) \in Nat /\ Cardinality(M \ L) \in Nat
  BY FS_Difference, FS_CardinalityType
<1>7. /\ Cardinality(Behind(M, K \cap M, o) \ S) =< Cardinality(missed) + Cardinality(ahead)
      /\ Cardinality(Behind(M, K \cap M, o) \ S) \in Nat
      /\ Cardinality(missed) \in Nat /\ Cardinality(ahead) \in Nat
  BY <1>1, <1>2, <1>3, <1>5
<1>8. /\ Cardinality((K \cap M \cap S) \ Behind(M, K \cap M, o)) =<
             Cardinality(again) + Cardinality(back)
      /\ Cardinality((K \cap M \cap S) \ Behind(M, K \cap M, o)) \in Nat
      /\ Cardinality(again) \in Nat /\ Cardinality(back) \in Nat
  BY <1>1, <1>2, <1>4, <1>5
<1>9. Cardinality(missed) =< d /\ Cardinality(again) =< a
  OBVIOUS
<1> HIDE DEF missed, again, ahead, back
<1> QED BY <1>1, <1>6, <1>7, <1>8, <1>9

-----------------------------------------------------------------------------
(* The inductive invariant.                                                 *)

Empty == \A n \in Names : templates[n] = 0
Whole == \A n \in Names : templates[n] = 1

(* One session at a time fills the catalog, an empty one; no replica is     *)
(* further than the tables allow.                                           *)
BootOK ==
    /\ Empty \/ Whole
    /\ \A s, t \in Sessions : inserted[s] > 0 /\ inserted[t] > 0 => s = t
    /\ \A s \in Sessions : inserted[s] > 0 => Empty
    /\ \A p \in Replicas : inserted[p] > 0 => phase[p] = "seeding"
    /\ \A p \in Replicas : phase[p] = "up" => tables /\ Whole
    /\ \A p \in Replicas : phase[p] \in {"selecting", "seeding"} => tables
    /\ ddl # NULL => ~tables

(* A usable key that a replica runs with, or a row was stored with, is in   *)
(* the history; only replicas that serve have transactions open.            *)
KeysOK ==
    /\ \A p \in Replicas : phase[p] # "off" =>
          key[p] \in Settings /\ (key[p] \in Keys => key[p] \in keys_used)
    /\ \A i \in Integrations, p \in Replicas : creating[i] = p => phase[p] = "up"
    /\ \A i \in Integrations :
          credentials[i] # NULL /\ credentials[i].encrypted => credentials[i].key \in keys_used

Inv == ServiceTypeOK /\ BootOK /\ KeysOK /\ PagesDriftWithTheList

-----------------------------------------------------------------------------
(* Paging.                                                                  *)

PagingTypeOK ==
    /\ offset \in Nat /\ arrivals \in Nat /\ departures \in Nat
    /\ seen \subseteq Integrations /\ known \subseteq Active

LEMMA ActiveFinite ==
    /\ Active \in SUBSET Int /\ IsFiniteSet(Active) /\ Active \in SUBSET Integrations
    /\ Active' \in SUBSET Int /\ IsFiniteSet(Active') /\ Active' \in SUBSET Integrations
<1>1. Active \in SUBSET Integrations /\ Active' \in SUBSET Integrations
  BY DEF Active
<1>2. Active \in SUBSET Int /\ Active' \in SUBSET Int
  <2>1. ASSUME NEW i \in Integrations PROVE i \in Int
    <3>1. i \in Nat
      BY IntegrationAssumption
    <3> QED BY <3>1
  <2> QED BY <1>1, <2>1
<1>3. IsFiniteSet(Active) /\ IsFiniteSet(Active')
  BY <1>1, IntegrationAssumption, FS_Subset
<1> QED BY <1>1, <1>2, <1>3

LEMMA SameCardinality == \A S : Client!Cardinality(S) = Cardinality(S)
<1> QED BY DEF Client!Cardinality, Cardinality

LEMMA PagesInOtherWords ==
    /\ PagesDriftWithTheList <=>
        /\ Cardinality(Behind(Active, known, offset) \ seen) =< departures
        /\ Cardinality((known \cap seen) \ Behind(Active, known, offset)) =< arrivals
    /\ PagesDriftWithTheList' <=>
        /\ Cardinality(Behind(Active', known', offset') \ seen') =< departures'
        /\ Cardinality((known' \cap seen') \ Behind(Active', known', offset')) =< arrivals'
<1>1. /\ Client!Passed = Behind(Active, known, offset)
      /\ Client!Passed' = Behind(Active', known', offset')
  BY SameCardinality DEF Client!Passed, Client!Ahead, Behind, Front
<1> QED BY <1>1, SameCardinality DEF PagesDriftWithTheList, Client!PagesDriftWithTheList

LEMMA DriftStep ==
    ASSUME PagingTypeOK, PagesDriftWithTheList, Client!Drift
    PROVE  PagingTypeOK' /\ PagesDriftWithTheList'
<1>1. /\ known' = known \cap Active' /\ offset' = offset /\ seen' = seen
      /\ arrivals' = arrivals + Cardinality(Active' \ Active)
      /\ departures' = departures + Cardinality(Active \ Active')
  BY SameCardinality DEF Client!Drift, Client!cursor
<1>2. Cardinality(Active' \ Active) \in Nat /\ Cardinality(Active \ Active') \in Nat
  BY ActiveFinite, FS_Difference, FS_CardinalityType
<1>3. PagingTypeOK'
  BY <1>1, <1>2 DEF PagingTypeOK
<1>4. /\ Cardinality(Behind(Active', known', offset') \ seen') =< departures'
      /\ Cardinality((known' \cap seen') \ Behind(Active', known', offset')) =< arrivals'
  <2>1. /\ Cardinality(Behind(Active, known, offset) \ seen) =< departures
        /\ Cardinality((known \cap seen) \ Behind(Active, known, offset)) =< arrivals
    BY PagesInOtherWords
  <2>2. offset \in Nat /\ known \in SUBSET Active /\ arrivals \in Nat /\ departures \in Nat
    BY DEF PagingTypeOK
  <2>3. /\ Cardinality(Behind(Active', known \cap Active', offset) \ seen) =<
              departures + Cardinality(Active \ Active')
        /\ Cardinality((known \cap Active' \cap seen)
                           \ Behind(Active', known \cap Active', offset)) =<
              arrivals + Cardinality(Active' \ Active)
    BY <2>1, <2>2, ActiveFinite, DriftIsBounded
  <2> QED BY <1>1, <2>3
<1>5. PagesDriftWithTheList'
  BY <1>4, PagesInOtherWords
<1> QED BY <1>3, <1>5

LEMMA ListStep ==
    ASSUME PagingTypeOK, PagesDriftWithTheList, ListIntegrations
    PROVE  PagingTypeOK' /\ PagesDriftWithTheList'
<1>1. Active' = Active
  BY DEF ListIntegrations, rows, Active
<1>2. ASSUME NEW x \in Active
      PROVE  Client!Ahead(x) = Cardinality(Front(Active, x)) /\ Client!Ahead(x) \in Nat
  BY FrontFinite, ActiveFinite, SameCardinality DEF Client!Ahead, Front
<1>3. CASE Client!BeginPaging
  <2>1. /\ offset' = 0 /\ seen' = {} /\ known' = Active
        /\ arrivals' = 0 /\ departures' = 0
    BY <1>3 DEF Client!BeginPaging
  <2>2. Behind(Active, Active, 0) = {}
    BY <1>2 DEF Behind
  <2>3. Cardinality({}) = 0
    BY FS_EmptySet
  <2>4. /\ Cardinality(Behind(Active', known', offset') \ seen') =< departures'
        /\ Cardinality((known' \cap seen') \ Behind(Active', known', offset')) =< arrivals'
    <3>1. /\ Behind(Active', known', offset') \ seen' = {}
          /\ (known' \cap seen') \ Behind(Active', known', offset') = {}
      BY <1>1, <2>1, <2>2
    <3> QED BY <2>1, <2>3, <3>1
  <2>5. PagesDriftWithTheList'
    BY <2>4, PagesInOtherWords
  <2> QED BY <1>1, <2>1, <2>5 DEF PagingTypeOK
<1>4. CASE Client!ReadPage
  <2>1. /\ offset' = offset + Limit /\ seen' = seen \cup Client!Page
        /\ known' = known /\ arrivals' = arrivals /\ departures' = departures
    BY <1>4 DEF Client!ReadPage, Client!drift
  <2>2. Client!Page \in SUBSET Active
    BY DEF Client!Page
  <2>3. PagingTypeOK'
    BY <1>1, <2>1, <2>2, ActiveFinite, LimitAssumption DEF PagingTypeOK
  <2>4. known \in SUBSET Active /\ offset \in Nat /\ arrivals \in Nat /\ departures \in Nat
    BY DEF PagingTypeOK
  <2> DEFINE missed == Behind(Active, known, offset) \ seen
             again == (known \cap seen) \ Behind(Active, known, offset)
             nowMissed == Behind(Active, known, offset + Limit) \ (seen \cup Client!Page)
             nowAgain == (known \cap (seen \cup Client!Page))
                             \ Behind(Active, known, offset + Limit)
  <2>5. nowMissed \in SUBSET missed
    <3>1. ASSUME NEW x \in nowMissed PROVE x \in missed
      <4>1. x \in known /\ x \in Active /\ x \notin seen /\ x \notin Client!Page
            /\ Cardinality(Front(Active, x)) < offset + Limit
        BY <2>4 DEF Behind
      <4>2. ~(offset =< Cardinality(Front(Active, x)))
        BY <1>2, <4>1 DEF Client!Page
      <4>3. Cardinality(Front(Active, x)) \in Nat
        BY <1>2, <4>1
      <4> QED BY <2>4, <4>1, <4>2, <4>3 DEF Behind
    <3> QED BY <3>1
  <2>6. nowAgain \in SUBSET again
    <3>1. ASSUME NEW x \in nowAgain PROVE x \in again
      <4>1. x \in known /\ x \in Active /\ (x \in seen \/ x \in Client!Page)
            /\ ~(Cardinality(Front(Active, x)) < offset + Limit)
        BY <2>4 DEF Behind
      <4>2. x \notin Client!Page
        BY <1>2, <4>1 DEF Client!Page
      <4>3. Cardinality(Front(Active, x)) \in Nat
        BY <1>2, <4>1
      <4>4. ~(Cardinality(Front(Active, x)) < offset)
        BY <2>4, <4>1, <4>3, LimitAssumption
      <4> QED BY <4>1, <4>2, <4>4 DEF Behind
    <3> QED BY <3>1
  <2>7. IsFiniteSet(missed) /\ IsFiniteSet(again)
    <3>1. missed \in SUBSET Active /\ again \in SUBSET Active
      BY <2>4 DEF Behind
    <3> QED BY <3>1, ActiveFinite, FS_Subset
  <2>8. Cardinality(missed) =< departures /\ Cardinality(again) =< arrivals
    BY PagesInOtherWords
  <2>9. Cardinality(nowMissed) =< departures /\ Cardinality(nowAgain) =< arrivals
    <3> HIDE DEF missed, again, nowMissed, nowAgain
    <3>1. /\ Cardinality(nowMissed) =< Cardinality(missed)
          /\ Cardinality(nowAgain) =< Cardinality(again)
          /\ IsFiniteSet(nowMissed) /\ IsFiniteSet(nowAgain)
      BY <2>5, <2>6, <2>7, FS_Subset
    <3>2. /\ Cardinality(nowMissed) \in Nat /\ Cardinality(missed) \in Nat
          /\ Cardinality(nowAgain) \in Nat /\ Cardinality(again) \in Nat
      BY <2>7, <3>1, FS_CardinalityType
    <3> QED BY <2>4, <2>8, <3>1, <3>2
  <2>10. /\ Cardinality(Behind(Active', known', offset') \ seen') =< departures'
         /\ Cardinality((known' \cap seen') \ Behind(Active', known', offset')) =< arrivals'
    BY <1>1, <2>1, <2>9
  <2>11. PagesDriftWithTheList'
    BY <2>10, PagesInOtherWords
  <2> QED BY <2>3, <2>11
<1> QED BY <1>3, <1>4 DEF ListIntegrations

(* Nothing else touches the client or the active integrations.              *)
LEMMA PagingStill ==
    ASSUME PagingTypeOK, PagesDriftWithTheList, Active' = Active, UNCHANGED paging
    PROVE  PagingTypeOK' /\ PagesDriftWithTheList'
<1>1. PagingTypeOK'
  BY DEF PagingTypeOK, paging
<1>2. /\ Cardinality(Behind(Active', known', offset') \ seen') =< departures'
      /\ Cardinality((known' \cap seen') \ Behind(Active', known', offset')) =< arrivals'
  BY PagesInOtherWords DEF paging
<1>3. PagesDriftWithTheList'
  BY <1>2, PagesInOtherWords
<1> QED BY <1>1, <1>3

-----------------------------------------------------------------------------
(* Boot.                                                                    *)

BootNext ==
    \/ \E p \in Replicas : Start(p) \/ BootStep(p) \/ RaiseInBoot(p) \/ Crash(p)
    \/ OrphanedTables \/ OrphanedTemplates

(* A session that has inserted every name publishes each of them once.      *)
LEMMA PublishesAll ==
    ASSUME BootTypeOK, Empty, NEW s \in Sessions, inserted[s] = Len(Catalog), Publish(s)
    PROVE  /\ templates' \in [Names -> Nat]
           /\ Whole'
<1>1. ASSUME NEW n \in Names PROVE \E k \in 1..inserted[s] : Catalog[k] = n
  <2>1. PICK k \in DOMAIN Catalog : Catalog[k] = n
    BY DEF Names
  <2>2. k \in 1..Len(Catalog)
    BY <2>1, CatalogAssumption
  <2> QED BY <2>1, <2>2
<1>2. templates' = [n \in Names |-> templates[n] + 1]
  BY <1>1 DEF Publish
<1>3. \A n \in Names : templates[n] = 0
  BY DEF Empty
<1> QED BY <1>2, <1>3 DEF Whole

LEMMA CatalogLength == Len(Catalog) \in Nat /\ DOMAIN Catalog = 1..Len(Catalog)
<1> QED BY CatalogAssumption

(* A step of one replica's phase, and of nothing else that BootOK is about. *)
LEMMA PhaseStep ==
    ASSUME BootTypeOK, BootOK, NEW p \in Replicas, NEW next \in Booting \cup {"off", "up"},
           Enter(p, next), UNCHANGED <<tables, ddl, templates, inserted>>,
           faults' = faults, inserted[p] = 0,
           next \in {"selecting", "seeding", "up"} => tables,
           next = "up" => Whole
    PROVE  BootTypeOK' /\ BootOK'
<1>1. /\ phase' \in [Replicas -> Booting \cup {"off", "up"}]
      /\ \A q \in Replicas : phase'[q] = IF q = p THEN next ELSE phase[q]
  BY DEF BootTypeOK, Enter
<1>2. BootTypeOK'
  BY <1>1 DEF BootTypeOK, Sessions, Names
<1>3. BootOK'
  BY <1>1 DEF BootOK, Empty, Whole, Sessions, Names
<1> QED BY <1>2, <1>3

(* A boot that fails, its transaction rolled back.                          *)
LEMMA FailStep ==
    ASSUME BootTypeOK, BootOK, NEW p \in Replicas, FailBoot(p), faults' \in 0..MaxFaults
    PROVE  BootTypeOK' /\ BootOK'
<1>1. /\ phase' \in [Replicas -> Booting \cup {"off", "up"}]
      /\ \A q \in Replicas : phase'[q] = IF q = p THEN "off" ELSE phase[q]
  BY DEF BootTypeOK, FailBoot, Enter
<1>2. /\ inserted' \in [Sessions -> 0..Len(Catalog)]
      /\ \A s \in Sessions : inserted'[s] = IF s = p THEN 0 ELSE inserted[s]
  BY CatalogLength DEF BootTypeOK, FailBoot, Sessions
<1>3. /\ tables' = tables /\ templates' = templates
      /\ ddl' \in {ddl, NULL}
  BY DEF FailBoot
<1>4. BootTypeOK'
  BY <1>1, <1>2, <1>3 DEF BootTypeOK
<1>5. BootOK'
  BY <1>1, <1>2, <1>3 DEF BootOK, Empty, Whole, Sessions
<1> QED BY <1>4, <1>5

LEMMA Quiet ==
    ASSUME BootTypeOK, BootOK, NEW p \in Replicas, phase[p] # "seeding"
    PROVE  inserted[p] = 0
<1> QED BY CatalogLength DEF BootTypeOK, BootOK, Sessions

LEMMA BootTablesStep ==
    ASSUME BootTypeOK, BootOK, NEW p \in Replicas,
           Start(p) \/ LookForTables(p) \/ CreateTables(p) \/ CommitTables(p) \/ LookForTemplates(p)
    PROVE  BootTypeOK' /\ BootOK'
<1>1. CASE Start(p)
  BY <1>1, Quiet, PhaseStep DEF Start, schema, Booting
<1>2. CASE LookForTables(p)
  BY <1>2, Quiet, PhaseStep DEF LookForTables, schema, Booting
<1>3. CASE CreateTables(p)
  <2>1. CASE tables /\ FailBoot(p) /\ UNCHANGED faults
    BY <2>1, FailStep DEF BootTypeOK
  <2>2. CASE /\ ~tables /\ ddl' = p /\ Enter(p, "created")
             /\ UNCHANGED <<tables, templates, inserted, faults>>
    <3>1. /\ phase' \in [Replicas -> Booting \cup {"off", "up"}]
          /\ \A q \in Replicas : phase'[q] = IF q = p THEN "created" ELSE phase[q]
      BY <2>2 DEF BootTypeOK, Enter, Booting
    <3>2. BootTypeOK'
      BY <2>2, <3>1 DEF BootTypeOK, Sessions
    <3>3. inserted[p] = 0
      BY <1>3, Quiet DEF CreateTables
    <3>4. BootOK'
      BY <2>2, <3>1, <3>3 DEF BootOK, Empty, Whole, Sessions
    <3> QED BY <3>2, <3>4
  <2> QED BY <1>3, <2>1, <2>2 DEF CreateTables
<1>4. CASE CommitTables(p)
  <2>1. /\ phase' \in [Replicas -> Booting \cup {"off", "up"}]
        /\ \A q \in Replicas : phase'[q] = IF q = p THEN "selecting" ELSE phase[q]
    BY <1>4 DEF BootTypeOK, CommitTables, Enter, Booting
  <2>2. /\ tables' = TRUE /\ ddl' = NULL
        /\ templates' = templates /\ inserted' = inserted /\ faults' = faults
    BY <1>4 DEF CommitTables
  <2>3. inserted[p] = 0
    BY <1>4, Quiet DEF CommitTables
  <2>4. BootTypeOK'
    BY <2>1, <2>2 DEF BootTypeOK
  <2>5. BootOK'
    BY <2>1, <2>2, <2>3 DEF BootOK, Empty, Whole, Sessions
  <2> QED BY <2>4, <2>5
<1>5. CASE LookForTemplates(p)
  <2>1. Seeded => Whole
    BY DEF Seeded, BootOK, Empty, Whole
  <2>2. tables /\ inserted[p] = 0
    BY <1>5, Quiet DEF LookForTemplates, BootOK
  <2>3. CASE Seeded
    BY <1>5, <2>1, <2>2, <2>3, PhaseStep DEF LookForTemplates, schema
  <2>4. CASE ~Seeded
    BY <1>5, <2>2, <2>4, PhaseStep DEF LookForTemplates, schema, Booting
  <2> QED BY <2>3, <2>4
<1> QED BY <1>1, <1>2, <1>3, <1>4, <1>5

LEMMA InsertStep ==
    ASSUME BootTypeOK, BootOK, NEW p \in Replicas, InsertTemplate(p)
    PROVE  BootTypeOK' /\ BootOK'
<1> DEFINE k == inserted[p] + 1
<1>1. /\ phase[p] = "seeding" /\ k \in DOMAIN Catalog /\ Inserting(k) = {}
  BY DEF InsertTemplate
<1>2. CASE templates[Catalog[k]] > 0 /\ FailBoot(p) /\ UNCHANGED faults
  BY <1>2, FailStep DEF BootTypeOK
<1>3. CASE /\ templates[Catalog[k]] = 0
           /\ inserted' = [inserted EXCEPT ![p] = k]
           /\ UNCHANGED <<schema, templates, phase, faults>>
  <2>1. inserted[p] \in Nat /\ k \in 1..Len(Catalog) /\ p \in Sessions
    BY <1>1, CatalogLength DEF BootTypeOK, Sessions
  <2>2. /\ inserted' \in [Sessions -> 0..Len(Catalog)]
        /\ \A s \in Sessions : inserted'[s] = IF s = p THEN k ELSE inserted[s]
    BY <1>3, <2>1, CatalogLength DEF BootTypeOK
  <2>3. UNCHANGED <<tables, ddl, templates, phase, faults>>
    BY <1>3 DEF schema
  <2>4. BootTypeOK'
    BY <2>2, <2>3 DEF BootTypeOK
  <2>5. Catalog[k] \in Names
    BY <1>1 DEF Names
  <2>6. Empty
    BY <1>3, <2>5 DEF BootOK, Whole
  <2>7. ASSUME NEW s \in Sessions, s # p PROVE ~(inserted[s] > 0)
    <3>1. SUFFICES ASSUME inserted[s] > 0 PROVE FALSE
      OBVIOUS
    <3>2. inserted[s] \in Nat
      BY CatalogLength DEF BootTypeOK
    <3>3. inserted[p] = 0
      BY <2>1, <2>7, <3>1 DEF BootOK
    <3>4. s \in Inserting(k)
      BY <3>1, <3>2, <3>3 DEF Inserting
    <3> QED BY <1>1, <3>4
  <2>8. BootOK'
    <3>1. \A s, t \in Sessions : inserted'[s] > 0 /\ inserted'[t] > 0 => s = t
      BY <2>2, <2>7
    <3>2. Empty'
      BY <2>3, <2>6 DEF Empty
    <3>3. \A q \in Replicas : inserted'[q] > 0 => phase'[q] = "seeding"
      BY <1>1, <2>2, <2>3 DEF BootOK, Sessions
    <3> QED BY <2>3, <3>1, <3>2, <3>3 DEF BootOK, Whole
  <2> QED BY <2>4, <2>8
<1> QED BY <1>2, <1>3 DEF InsertTemplate

(* What a session publishes, its own or its orphan's, completes the catalog.*)
LEMMA PublishOK ==
    ASSUME BootTypeOK, BootOK, tables, NEW s \in Sessions,
           inserted[s] = Len(Catalog), Publish(s)
    PROVE  /\ templates' \in [Names -> Nat]
           /\ Whole'
           /\ \A t \in Sessions : inserted[t] > 0 => t = s
<1>1. CASE Len(Catalog) = 0
  <2>1. Names = {}
    BY <1>1, CatalogLength DEF Names
  <2>2. Empty
    BY <2>1 DEF Empty
  <2>3. CASE Empty /\ \A t \in Sessions : ~(inserted[t] > 0)
    BY <2>2, <2>3, PublishesAll
  <2>4. \A t \in Sessions : ~(inserted[t] > 0)
    BY <1>1, CatalogLength DEF BootTypeOK
  <2> QED BY <2>2, <2>3, <2>4
<1>2. CASE Len(Catalog) # 0
  <2>1. inserted[s] > 0
    BY <1>2, CatalogLength
  <2> QED BY <2>1, PublishesAll DEF BootOK
<1> QED BY <1>1, <1>2

LEMMA CommitTemplatesStep ==
    ASSUME BootTypeOK, BootOK, NEW p \in Replicas, CommitTemplates(p)
    PROVE  BootTypeOK' /\ BootOK'
<1>1. p \in Sessions /\ tables
  BY DEF CommitTemplates, BootOK, Sessions
<1>2. /\ templates' \in [Names -> Nat] /\ Whole'
      /\ \A t \in Sessions : inserted[t] > 0 => t = p
  BY <1>1, PublishOK DEF CommitTemplates
<1>3. /\ inserted' \in [Sessions -> 0..Len(Catalog)]
      /\ \A s \in Sessions : inserted'[s] = IF s = p THEN 0 ELSE inserted[s]
  <2>1. inserted' = [inserted EXCEPT ![p] = 0] /\ 0 \in 0..Len(Catalog)
    BY CatalogLength DEF CommitTemplates
  <2> QED BY <1>1, <2>1 DEF BootTypeOK
<1>4. /\ phase' \in [Replicas -> Booting \cup {"off", "up"}]
      /\ \A q \in Replicas : phase'[q] = IF q = p THEN "up" ELSE phase[q]
  BY DEF BootTypeOK, CommitTemplates, Enter
<1>5. tables' = tables /\ ddl' = ddl /\ faults' = faults
  BY DEF CommitTemplates, schema
<1>6. \A s \in Sessions : ~(inserted'[s] > 0)
  BY <1>2, <1>3
<1>7. BootTypeOK'
  BY <1>2, <1>3, <1>4, <1>5 DEF BootTypeOK
<1>8. BootOK'
  BY <1>1, <1>2, <1>4, <1>5, <1>6 DEF BootOK, Sessions
<1> QED BY <1>7, <1>8

LEMMA OrphanStep ==
    ASSUME BootTypeOK, BootOK, OrphanedTables \/ OrphanedTemplates
    PROVE  BootTypeOK' /\ BootOK'
<1>1. CASE OrphanedTables
  <2>1. /\ ~tables /\ tables' \in BOOLEAN /\ ddl' = NULL
        /\ UNCHANGED <<templates, phase, inserted, faults>>
    BY <1>1, BootAssumption DEF OrphanedTables, BootOK
  <2>2. BootTypeOK'
    BY <2>1 DEF BootTypeOK
  <2>3. BootOK'
    BY <2>1 DEF BootOK, Empty, Whole
  <2> QED BY <2>2, <2>3
<1>2. CASE OrphanedTemplates
  <2>1. Orphan \in Sessions /\ inserted[Orphan] > 0
    BY <1>2 DEF OrphanedTemplates, Sessions
  <2>2. /\ inserted' \in [Sessions -> 0..Len(Catalog)]
        /\ \A s \in Sessions : inserted'[s] = IF s = Orphan THEN 0 ELSE inserted[s]
    <3>1. inserted' = [inserted EXCEPT ![Orphan] = 0] /\ 0 \in 0..Len(Catalog)
      BY <1>2, CatalogLength DEF OrphanedTemplates
    <3> QED BY <2>1, <3>1 DEF BootTypeOK
  <2>3. UNCHANGED <<tables, ddl, phase, faults>>
    BY <1>2 DEF OrphanedTemplates, schema
  <2>4. \A s \in Sessions : ~(inserted'[s] > 0)
    BY <2>1, <2>2 DEF BootOK
  <2>5. \A p \in Replicas : ~(inserted'[p] > 0)
    BY <2>4 DEF Sessions
  <2>6. CASE inserted[Orphan] = Len(Catalog) /\ Publish(Orphan)
    <3>1. Empty
      BY <2>1 DEF BootOK
    <3>2. templates' \in [Names -> Nat] /\ Whole'
      BY <2>1, <2>6, <3>1, PublishesAll
    <3>3. BootTypeOK'
      BY <2>2, <2>3, <3>2 DEF BootTypeOK
    <3>4. BootOK'
      BY <2>3, <2>4, <2>5, <3>2 DEF BootOK
    <3> QED BY <3>3, <3>4
  <2>7. CASE UNCHANGED templates
    <3>1. BootTypeOK'
      BY <2>2, <2>3, <2>7 DEF BootTypeOK
    <3>2. BootOK'
      BY <2>3, <2>4, <2>5, <2>7 DEF BootOK, Empty, Whole
    <3> QED BY <3>1, <3>2
  <2> QED BY <1>2, <2>6, <2>7 DEF OrphanedTemplates
<1> QED BY <1>1, <1>2

LEMMA CrashStep ==
    ASSUME BootTypeOK, BootOK, NEW p \in Replicas, Crash(p)
    PROVE  BootTypeOK' /\ BootOK'
<1>1. p \in Sessions /\ Orphan \in Sessions /\ p # Orphan /\ NULL # Orphan
  BY BootAssumption DEF Sessions
<1>2. /\ phase' \in [Replicas -> Booting \cup {"off", "up"}]
      /\ \A q \in Replicas : phase'[q] = IF q = p THEN "off" ELSE phase[q]
  BY DEF BootTypeOK, Crash, Enter
<1>3. /\ inserted[p] \in 0..Len(Catalog) /\ inserted[Orphan] \in 0..Len(Catalog)
      /\ 0 \in 0..Len(Catalog)
  BY <1>1, CatalogLength DEF BootTypeOK
<1>4. /\ inserted' \in [Sessions -> 0..Len(Catalog)]
      /\ \A s \in Sessions : inserted'[s] =
            IF s = p THEN 0
            ELSE IF s = Orphan /\ inserted[p] > 0 THEN inserted[p] ELSE inserted[s]
  BY <1>1, <1>3 DEF BootTypeOK, Crash
<1>5. faults' \in 0..MaxFaults
  BY FaultAssumption DEF BootTypeOK, Crash
<1>6. tables' = tables /\ templates' = templates
  BY DEF Crash
<1>7. ddl' = (IF ddl = p THEN Orphan ELSE ddl)
  BY DEF Crash
<1>8. BootTypeOK'
  BY <1>1, <1>2, <1>4, <1>5, <1>6, <1>7 DEF BootTypeOK
<1>9. BootOK'
  <2>1. ddl' # NULL => ~tables'
    BY <1>1, <1>6, <1>7, BootAssumption DEF BootOK
  <2>2. \A s, t \in Sessions : inserted'[s] > 0 /\ inserted'[t] > 0 => s = t
    BY <1>1, <1>4 DEF BootOK
  <2>3. \A s \in Sessions : inserted'[s] > 0 => Empty'
    BY <1>1, <1>4, <1>6 DEF BootOK, Empty
  <2>4. \A q \in Replicas : inserted'[q] > 0 => phase'[q] = "seeding"
    BY <1>1, <1>2, <1>4, BootAssumption DEF BootOK, Sessions
  <2> QED BY <1>2, <1>6, <2>1, <2>2, <2>3, <2>4 DEF BootOK, Empty, Whole
<1> QED BY <1>8, <1>9

LEMMA BootInvariant ==
    ASSUME BootTypeOK, BootOK, BootNext
    PROVE  BootTypeOK' /\ BootOK'
<1>1. ASSUME NEW p \in Replicas, Start(p) \/ BootStep(p) \/ RaiseInBoot(p) \/ Crash(p)
      PROVE  BootTypeOK' /\ BootOK'
  <2>1. CASE RaiseInBoot(p)
    <3>1. FailBoot(p) /\ faults' \in 0..MaxFaults
      BY <2>1, FaultAssumption DEF RaiseInBoot, BootTypeOK
    <3> QED BY <3>1, FailStep
  <2> QED
    BY <1>1, <2>1, BootTablesStep, InsertStep, CommitTemplatesStep, CrashStep DEF BootStep
<1> QED BY <1>1, OrphanStep DEF BootNext

-----------------------------------------------------------------------------
(* The steps of the service.                                                *)

LEMMA SettingsOfTheProcess ==
    ASSUME ServiceTypeOK, KeysOK, NEW p \in Replicas, NEW i \in Integrations, creating[i] = p
    PROVE  phase[p] = "up" /\ key[p] \in Settings
<1> QED BY DEF KeysOK

(* Of BootNext only what it does to the phases matters to the rows.         *)
LEMMA ServiceTypes ==
    ASSUME ServiceTypeOK
    PROVE  PagingTypeOK /\ BootTypeOK
<1> QED BY DEF ServiceTypeOK, PagingTypeOK

(* A step of the boots.                                                     *)
LEMMA ServiceBootStep ==
    ASSUME Inv, \/ \E p \in Replicas : Restart(p) \/ Initialise(p) \/ Die(p)
                \/ BuryOrphans
    PROVE  Inv'
<1>1. BootTypeOK' /\ BootOK'
  <2>1. BootNext
    BY DEF BootNext, Restart, Initialise, Die, BuryOrphans
  <2> QED BY <2>1, ServiceTypes, BootInvariant DEF Inv
<1>2. Active' = Active /\ UNCHANGED paging /\ UNCHANGED <<integrations, credentials>>
  BY DEF Active, Restart, Initialise, Die, BuryOrphans, rows
<1>3. PagingTypeOK' /\ PagesDriftWithTheList'
  BY <1>2, ServiceTypes, PagingStill DEF Inv
<1>4. /\ creating' \in [Integrations -> Replicas \cup {NULL}]
      /\ \A i \in Integrations, p \in Replicas :
            creating'[i] = p => creating[i] = p /\ phase'[p] = "up"
  <2>1. CASE \E p \in Replicas : Restart(p)
    <3>1. PICK p \in Replicas : Restart(p)
      BY <2>1
    <3> QED BY <3>1 DEF Restart, Start, Enter, rows, Inv, ServiceTypeOK, BootTypeOK, KeysOK
  <2>2. CASE \E p \in Replicas : Initialise(p)
    <3>1. PICK p \in Replicas : Initialise(p)
      BY <2>2
    <3>2. creating' = creating /\ phase[p] # "up"
      BY <3>1 DEF Initialise, rows, BootStep, LookForTables, CreateTables, CommitTables,
                  LookForTemplates, InsertTemplate, CommitTemplates
    <3>3. \A q \in Replicas : q # p => phase'[q] = phase[q]
      BY <3>1 DEF Initialise, BootStep, LookForTables, CreateTables, CommitTables,
                  LookForTemplates, InsertTemplate, CommitTemplates, FailBoot, Enter,
                  Inv, ServiceTypeOK, BootTypeOK
    <3> QED BY <3>2, <3>3 DEF Inv, ServiceTypeOK, KeysOK
  <2>3. CASE \E p \in Replicas : Die(p)
    <3>1. PICK p \in Replicas : Die(p)
      BY <2>3
    <3>2. \A i \in Integrations : creating'[i] = IF creating[i] = p THEN NULL ELSE creating[i]
      BY <3>1 DEF Die
    <3>3. creating' \in [Integrations -> Replicas \cup {NULL}]
      BY <3>1 DEF Die, Inv, ServiceTypeOK
    <3>4. \A q \in Replicas : q # p => phase'[q] = phase[q]
      BY <3>1 DEF Die, Crash, RaiseInBoot, FailBoot, Enter, Inv, ServiceTypeOK, BootTypeOK
    <3> QED BY <3>2, <3>3, <3>4, BootAssumption DEF Inv, KeysOK
  <2>4. CASE BuryOrphans
    <3>1. creating' = creating /\ phase' = phase
      BY <2>4 DEF BuryOrphans, rows, OrphanedTables, OrphanedTemplates
    <3> QED BY <3>1 DEF Inv, ServiceTypeOK, KeysOK
  <2> QED BY <2>1, <2>2, <2>3, <2>4
<1>5. /\ key' \in [Replicas -> Settings \cup {NULL}]
      /\ keys_used' \subseteq Keys /\ keys_used \subseteq keys_used'
      /\ \A p \in Replicas : phase'[p] # "off" =>
            key'[p] \in Settings /\ (key'[p] \in Keys => key'[p] \in keys_used')
  <2>1. CASE \E p \in Replicas : Restart(p)
    <3>1. PICK p \in Replicas : Restart(p)
      BY <2>1
    <3>2. PICK setting \in Settings : /\ key' = [key EXCEPT ![p] = setting]
                                      /\ keys_used' = keys_used \cup ({setting} \cap Keys)
      BY <3>1 DEF Restart
    <3>3. \A q \in Replicas : key'[q] = IF q = p THEN setting ELSE key[q]
      BY <3>2 DEF Inv, ServiceTypeOK
    <3>4. \A q \in Replicas : q # p => phase'[q] = phase[q]
      BY <3>1 DEF Restart, Start, Enter, Inv, ServiceTypeOK, BootTypeOK
    <3>5. key' \in [Replicas -> Settings \cup {NULL}] /\ keys_used' \subseteq Keys
      BY <3>2 DEF Inv, ServiceTypeOK
    <3> QED BY <3>2, <3>3, <3>4, <3>5 DEF Inv, KeysOK
  <2>2. CASE \E p \in Replicas : Initialise(p) \/ Die(p)
    <3>1. PICK p \in Replicas : Initialise(p) \/ Die(p)
      BY <2>2
    <3>2. key' = key /\ keys_used' = keys_used
      BY <3>1 DEF Initialise, Die, keys
    <3>3. phase[p] # "off" /\ \A q \in Replicas : q # p => phase'[q] = phase[q]
      <4>1. CASE Initialise(p)
        BY <4>1 DEF Initialise, BootStep, LookForTables, CreateTables, CommitTables,
                    LookForTemplates, InsertTemplate, CommitTemplates, FailBoot, Enter,
                    Inv, ServiceTypeOK, BootTypeOK
      <4>2. CASE Die(p)
        BY <4>2 DEF Die, Crash, RaiseInBoot, FailBoot, Booting, Enter, Inv, ServiceTypeOK,
                    BootTypeOK
      <4> QED BY <3>1, <4>1, <4>2
    <3> QED BY <3>2, <3>3 DEF Inv, ServiceTypeOK, KeysOK
  <2>3. CASE BuryOrphans
    <3>1. key' = key /\ keys_used' = keys_used /\ phase' = phase
      BY <2>3 DEF BuryOrphans, keys, OrphanedTables, OrphanedTemplates
    <3> QED BY <3>1 DEF Inv, ServiceTypeOK, KeysOK
  <2> QED BY <2>1, <2>2, <2>3
<1>6. ServiceTypeOK'
  BY <1>1, <1>2, <1>3, <1>4, <1>5 DEF Inv, ServiceTypeOK, PagingTypeOK
<1>7. KeysOK'
  BY <1>2, <1>4, <1>5 DEF Inv, KeysOK
<1> QED BY <1>1, <1>3, <1>6, <1>7 DEF Inv

(* A step of the clients.                                                   *)
RowNext ==
    \/ \E p \in Replicas, i \in Integrations :
          \/ Flush(p, i) \/ AbortIntegration(p, i) \/ InstallTemplate(p, i)
          \/ \E with \in BOOLEAN : CommitIntegration(p, i, with)
    \/ \E i \in Integrations, status \in {"active", "error"} : EndSync(i, status)
    \/ ListIntegrations

LEMMA PagingRowStep ==
    ASSUME ServiceTypeOK, PagesDriftWithTheList, RowNext
    PROVE  PagingTypeOK' /\ PagesDriftWithTheList'
<1>1. CASE Client!Drift
  BY <1>1, ServiceTypes, DriftStep
<1>2. CASE ListIntegrations
  BY <1>2, ServiceTypes, ListStep
<1>3. CASE Active' = Active /\ UNCHANGED paging
  BY <1>3, ServiceTypes, PagingStill
<1>4. ASSUME NEW p \in Replicas, NEW i \in Integrations,
             Flush(p, i) \/ AbortIntegration(p, i) \/ InstallTemplate(p, i)
      PROVE  Active' = Active /\ UNCHANGED paging
  <2>1. CASE Flush(p, i) \/ AbortIntegration(p, i)
    BY <2>1 DEF Flush, AbortIntegration, Active
  <2>2. CASE InstallTemplate(p, i)
    <3>1. /\ integrations[i] = "none" /\ integrations' = [integrations EXCEPT ![i] = "inactive"]
          /\ UNCHANGED paging
      BY <2>2 DEF InstallTemplate
    <3>2. \A j \in Integrations : integrations'[j] = "active" <=> integrations[j] = "active"
      BY <3>1 DEF ServiceTypeOK
    <3> QED BY <3>1, <3>2 DEF Active
  <2> QED BY <1>4, <2>1, <2>2
<1>5. ASSUME NEW p \in Replicas, NEW i \in Integrations, NEW with \in BOOLEAN,
             CommitIntegration(p, i, with)
      PROVE  Client!Drift
  BY <1>5 DEF CommitIntegration
<1>6. ASSUME NEW i \in Integrations, NEW status \in {"active", "error"}, EndSync(i, status)
      PROVE  Client!Drift
  BY <1>6 DEF EndSync
<1> QED BY <1>1, <1>2, <1>3, <1>4, <1>5, <1>6 DEF RowNext

(* What a client's step does to the two other columns.                      *)
RowsOK ==
    /\ integrations \in [Integrations -> {"none", "active", "inactive", "error"}]
    /\ creating \in [Integrations -> Replicas \cup {NULL}]
    /\ \A i \in Integrations, p \in Replicas : creating[i] = p => phase[p] = "up"
StoredOK ==
    /\ credentials \in [Integrations -> StoredCredentials \cup {NULL}]
    /\ \A i \in Integrations :
          credentials[i] # NULL /\ credentials[i].encrypted => credentials[i].key \in keys_used

LEMMA RowsStep ==
    ASSUME RowsOK, RowNext
    PROVE  RowsOK'
<1>1. ASSUME NEW p \in Replicas, NEW i \in Integrations, Flush(p, i) PROVE RowsOK'
  BY <1>1 DEF Flush, Serving, RowsOK, bootVars
<1>2. ASSUME NEW p \in Replicas, NEW i \in Integrations, AbortIntegration(p, i) PROVE RowsOK'
  BY <1>2, BootAssumption DEF AbortIntegration, RowsOK, bootVars
<1>3. ASSUME NEW p \in Replicas, NEW i \in Integrations, InstallTemplate(p, i) PROVE RowsOK'
  BY <1>3 DEF InstallTemplate, RowsOK, bootVars
<1>4. ASSUME NEW p \in Replicas, NEW i \in Integrations, NEW with \in BOOLEAN,
             CommitIntegration(p, i, with)
      PROVE  RowsOK'
  BY <1>4, BootAssumption DEF CommitIntegration, RowsOK, bootVars
<1>5. ASSUME NEW i \in Integrations, NEW status \in {"active", "error"}, EndSync(i, status)
      PROVE  RowsOK'
  BY <1>5 DEF EndSync, RowsOK, bootVars
<1>6. CASE ListIntegrations
  BY <1>6 DEF ListIntegrations, rows, RowsOK, bootVars
<1> QED BY <1>1, <1>2, <1>3, <1>4, <1>5, <1>6 DEF RowNext

LEMMA StoredStep ==
    ASSUME Inv, RowNext, StoredOK
    PROVE  StoredOK'
<1>1. keys_used' = keys_used
  BY DEF RowNext, Flush, AbortIntegration, InstallTemplate, CommitIntegration, EndSync,
         ListIntegrations, keys
<1>2. CASE UNCHANGED credentials
  BY <1>1, <1>2 DEF StoredOK
<1>3. ASSUME NEW p \in Replicas, NEW i \in Integrations, NEW with \in BOOLEAN,
             CommitIntegration(p, i, with)
      PROVE  StoredOK'
  <2>1. key[p] \in Settings /\ (key[p] \in Keys => key[p] \in keys_used)
    BY <1>3 DEF CommitIntegration, Inv, KeysOK
  <2> DEFINE stored == IF with THEN encrypt_credentials(i, key[p]) ELSE NULL
  <2>2. /\ stored \in StoredCredentials \cup {NULL}
        /\ stored # NULL /\ stored.encrypted => stored.key \in keys_used
    <3>1. CASE ~with
      BY <3>1
    <3>2. CASE with
      <4>1. stored = [encrypted |-> key[p] \in Keys, content |-> i, key |-> key[p]]
        BY <3>2 DEF encrypt_credentials
      <4> HIDE DEF stored
      <4>2. CASE (key[p] \in Keys) = TRUE
        <5>1. stored = [encrypted |-> TRUE, content |-> i, key |-> key[p]]
          BY <4>1, <4>2
        <5> QED BY <2>1, <4>2, <5>1 DEF StoredCredentials
      <4>3. CASE (key[p] \in Keys) = FALSE
        <5>1. stored = [encrypted |-> FALSE, content |-> i, key |-> key[p]]
          BY <4>1, <4>3
        <5> QED BY <2>1, <5>1 DEF StoredCredentials
      <4>4. (key[p] \in Keys) = TRUE \/ (key[p] \in Keys) = FALSE
        OBVIOUS
      <4> QED BY <4>2, <4>3, <4>4
    <3> QED BY <3>1, <3>2
  <2>3. credentials' = [credentials EXCEPT ![i] = stored]
    BY <1>3 DEF CommitIntegration
  <2> HIDE DEF stored
  <2> QED BY <1>1, <2>2, <2>3 DEF StoredOK
<1> QED BY <1>2, <1>3 DEF RowNext, Flush, AbortIntegration, InstallTemplate, EndSync,
                          ListIntegrations, rows

LEMMA ServiceRowStep ==
    ASSUME Inv, RowNext
    PROVE  Inv'
<1>1. PagingTypeOK' /\ PagesDriftWithTheList'
  BY PagingRowStep DEF Inv
<1>2. UNCHANGED <<bootVars, keys>>
  BY DEF RowNext, Flush, AbortIntegration, InstallTemplate, CommitIntegration, EndSync,
         ListIntegrations
<1>3. BootTypeOK' /\ BootOK'
  BY <1>2 DEF bootVars, schema, Inv, ServiceTypeOK, BootTypeOK, BootOK, Empty, Whole
<1>4. RowsOK'
  BY RowsStep DEF Inv, ServiceTypeOK, KeysOK, RowsOK
<1>5. StoredOK'
  BY StoredStep DEF Inv, ServiceTypeOK, KeysOK, StoredOK
<1>6. ServiceTypeOK'
  BY <1>1, <1>2, <1>3, <1>4, <1>5 DEF keys, Inv, ServiceTypeOK, PagingTypeOK, RowsOK, StoredOK
<1>7. KeysOK'
  BY <1>2, <1>4, <1>5 DEF bootVars, keys, Inv, KeysOK, RowsOK, StoredOK
<1> QED BY <1>1, <1>3, <1>6, <1>7 DEF Inv

-----------------------------------------------------------------------------
(* The theorems.                                                            *)

LEMMA ServiceInitOK == ServiceInit => Inv
<1> SUFFICES ASSUME ServiceInit PROVE Inv
  OBVIOUS
<1>1. BootTypeOK
  <2>1. inserted \in [Sessions -> 0..Len(Catalog)]
    BY CatalogLength DEF ServiceInit, BootInit
  <2>2. faults \in 0..MaxFaults
    BY FaultAssumption DEF ServiceInit, BootInit
  <2> QED BY <2>1, <2>2 DEF ServiceInit, BootInit, BootTypeOK
<1>2. BootOK
  BY DEF ServiceInit, BootInit, BootOK, Empty, Sessions
<1>3. Active = {}
  BY DEF ServiceInit, Active
<1>4. /\ offset = 0 /\ seen = {} /\ known = {} /\ arrivals = 0 /\ departures = 0
  BY <1>3 DEF ServiceInit, Client!ListingInit
<1>5. PagesDriftWithTheList
  <2>1. /\ Behind(Active, known, offset) \ seen = {}
        /\ (known \cap seen) \ Behind(Active, known, offset) = {}
    BY <1>4 DEF Behind
  <2>2. Cardinality({}) = 0
    BY FS_EmptySet
  <2> QED BY <1>4, <2>1, <2>2, PagesInOtherWords
<1>6. ServiceTypeOK
  BY <1>1, <1>4 DEF ServiceInit, ServiceTypeOK
<1>7. KeysOK
  BY BootAssumption DEF ServiceInit, BootInit, KeysOK
<1> QED BY <1>2, <1>5, <1>6, <1>7 DEF Inv

LEMMA ServiceStep == Inv /\ [ServiceNext]_serviceVars => Inv'
<1> SUFFICES ASSUME Inv, [ServiceNext]_serviceVars PROVE Inv'
  OBVIOUS
<1>1. CASE ServiceNext
  <2>1. \/ \E p \in Replicas : Restart(p) \/ Initialise(p) \/ Die(p)
        \/ BuryOrphans
        \/ RowNext
    BY <1>1 DEF ServiceNext, RowNext
  <2> QED BY <2>1, ServiceBootStep, ServiceRowStep
<1>2. CASE UNCHANGED serviceVars
  <2>1. PagingTypeOK' /\ PagesDriftWithTheList'
    BY <1>2, ServiceTypes, PagingStill DEF Inv, serviceVars, rows, Active
  <2> QED BY <1>2, <2>1 DEF serviceVars, bootVars, schema, rows, keys, Inv, ServiceTypeOK,
             BootTypeOK, BootOK, KeysOK, Empty, Whole, PagingTypeOK
<1> QED BY <1>1, <1>2

(* The inductive invariant of the deployment.                               *)
THEOREM ServiceInvariance == ServiceSpec => []Inv
<1> QED BY ServiceInitOK, ServiceStep, PTL DEF ServiceSpec

(* Every variable stays in its type.                                        *)
THEOREM ServiceTypeCorrect == ServiceSpec => []ServiceTypeOK
<1>1. Inv => ServiceTypeOK
  BY DEF Inv
<1> QED BY <1>1, ServiceInvariance, PTL

(* Any number of replicas, booting at once and dying anywhere, leave the    *)
(* catalog empty or whole, and serve only once it is whole.                 *)
THEOREM CatalogStaysWhole == ServiceSpec => []CatalogIsWhole
<1>1. Inv => CatalogIsWhole
  <2> SUFFICES ASSUME Inv PROVE CatalogIsWhole
    OBVIOUS
  <2>1. \E count \in {0, 1} : \A n \in Names : templates[n] = count
    BY DEF Inv, BootOK, Empty, Whole
  <2> QED BY <2>1 DEF Inv, BootOK, Whole, CatalogIsWhole
<1> QED BY <1>1, ServiceInvariance, PTL

(* Whoever has the only usable key there has been reads all credentials.    *)
THEOREM CredentialsAreReadable == ServiceSpec => []CredentialsStayReadable
<1>1. ASSUME NEW S, IsFiniteSet(S), Cardinality(S) =< 1, NEW x \in S, NEW y \in S
      PROVE  x = y
  <2>1. /\ IsFiniteSet(S \ {x}) /\ Cardinality(S \ {x}) = Cardinality(S) - 1
    BY <1>1, FS_RemoveElement
  <2>2. Cardinality(S \ {x}) \in Nat /\ Cardinality(S) \in Nat
    BY <1>1, <2>1, FS_CardinalityType
  <2>3. Cardinality(S \ {x}) = 0
    BY <1>1, <2>1, <2>2
  <2>4. S \ {x} = {}
    BY <2>1, <2>3, FS_EmptySet
  <2> QED BY <2>4
<1>2. Inv => CredentialsStayReadable
  <2> SUFFICES ASSUME Inv, Cardinality(keys_used) =< 1,
                      NEW i \in Integrations, NEW p \in Replicas,
                      credentials[i] # NULL, Serving(p), key[p] \in Keys
               PROVE  Readable(credentials[i], key[p])
    BY DEF CredentialsStayReadable
  <2>1. IsFiniteSet(keys_used)
    BY KeyAssumption, FS_Subset DEF Inv, ServiceTypeOK
  <2>2. key[p] \in keys_used
    BY DEF Inv, KeysOK, Serving
  <2>3. credentials[i].encrypted => credentials[i].key \in keys_used
    BY DEF Inv, KeysOK
  <2> QED BY <1>1, <2>1, <2>2, <2>3 DEF Readable
<1> QED BY <1>2, ServiceInvariance, PTL

(* A client that pages misses no more rows than have left the list, and is  *)
(* given no more again than have joined it: for any rows and any limit.     *)
THEOREM PagesDrift == ServiceSpec => []PagesDriftWithTheList
<1>1. Inv => PagesDriftWithTheList
  BY DEF Inv
<1> QED BY <1>1, ServiceInvariance, PTL
=============================================================================
