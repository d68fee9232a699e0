---------------------------- MODULE StorageProofs ----------------------------
(* Proofs about DeletePrefix, for any number of objects and callers, any page and
   batch size, and whatever entries Supabase lists. *)
EXTENDS Storage, FiniteSetTheorems, WellFoundedInduction, TLAPS

-----------------------------------------------------------------------------
(* Ranks and pages. *)

\* Sets of names are finite, and larger ones have more elements.
LEMMA NameSets ==
  ASSUME NEW S \in SUBSET Names
  PROVE  /\ IsFiniteSet(S) /\ Cardinality(S) \in Nat
         /\ \A T \in SUBSET S : Cardinality(T) \in Nat /\ Cardinality(T) <= Cardinality(S)
  <1>1. IsFiniteSet(Names)
    BY FS_Interval, SizeAssumption DEF Names
  <1>2. IsFiniteSet(S)
    BY <1>1, FS_Subset
  <1>3. QED
    BY <1>2, FS_Subset, FS_CardinalityType

\* A nonempty set of names has a first one.
LEMMA First ==
  ASSUME NEW S \in SUBSET Names, S # {}
  PROVE  \E x \in S : \A y \in S : x <= y
  <1> DEFINE R == OpToRel(<, Nat)
  <1>1. S \subseteq Nat
    BY SizeAssumption DEF Names
  <1>2. IsWellFoundedOn(R, Nat)
    BY NatLessThanWellFounded
  <1>3. \A i, j \in Nat : i < j => <<i, j>> \in R
    BY DEF OpToRel
  <1> HIDE DEF R
  <1>4. PICK x \in S : \A y \in S : <<y, x>> \notin R
    BY <1>1, <1>2, WFMin
  <1>5. \A y \in S : ~(y < x)
    BY <1>1, <1>3, <1>4
  <1>6. QED
    BY <1>1, <1>5

\* And a last one.
LEMMA Last ==
  ASSUME NEW S \in SUBSET Names, S # {}
  PROVE  \E x \in S : \A y \in S : y <= x
  <1> DEFINE T == {NumNames + 1 - x : x \in S}
  <1>0. \A x \in S : x \in Nat /\ NumNames + 1 - x \in Names
    BY SizeAssumption DEF Names
  <1>1. T \in SUBSET Names /\ T # {}
    BY <1>0
  <1>2. PICK m \in T : \A k \in T : m <= k
    <2> HIDE DEF T
    <2>1. QED
      BY <1>1, First
  <1>3. PICK x \in S : m = NumNames + 1 - x
    OBVIOUS
  <1>4. \A y \in S : NumNames + 1 - x <= NumNames + 1 - y
    BY <1>2, <1>3
  <1>5. QED
    BY <1>0, <1>4, SizeAssumption

\* Ranks are numbers, grow with the set and follow the order of names.
LEMMA RankFacts ==
  ASSUME NEW S \in SUBSET Names
  PROVE  /\ \A n \in Names : Rank(S, n) \in Nat
         /\ \A n \in Names : \A T \in SUBSET S : Rank(T, n) <= Rank(S, n)
         /\ \A n, m \in Names : n <= m => Rank(S, n) <= Rank(S, m)
  <1>0. \A n \in Names : n \in Nat
    BY SizeAssumption DEF Names
  <1>1. ASSUME NEW n \in Names PROVE Rank(S, n) \in Nat
    BY NameSets DEF Rank
  <1>2. ASSUME NEW n \in Names, NEW T \in SUBSET S PROVE Rank(T, n) <= Rank(S, n)
    <2>1. {m \in T : m < n} \in SUBSET {m \in S : m < n}
      OBVIOUS
    <2>2. {m \in S : m < n} \in SUBSET Names
      OBVIOUS
    <2>3. QED
      BY <2>1, <2>2, NameSets DEF Rank
  <1>3. ASSUME NEW n \in Names, NEW m \in Names, n <= m PROVE Rank(S, n) <= Rank(S, m)
    <2>1. {k \in S : k < n} \in SUBSET {k \in S : k < m}
      BY <1>0, <1>3
    <2>2. {k \in S : k < m} \in SUBSET Names
      OBVIOUS
    <2>3. QED
      BY <2>1, <2>2, NameSets DEF Rank
  <1>4. QED
    BY <1>1, <1>2, <1>3

Below(S, k) == {n \in S : Rank(S, n) < k}

\* At most k names have a rank below k.
LEMMA AtMost ==
  ASSUME NEW S \in SUBSET Names, NEW k \in Nat
  PROVE  Cardinality(Below(S, k)) <= k
  <1>0. \A n \in Names : n \in Nat
    BY SizeAssumption DEF Names
  <1>1. CASE Below(S, k) = {}
    BY <1>1, FS_EmptySet
  <1>2. CASE Below(S, k) # {}
    <2>1. PICK t \in Below(S, k) : \A y \in Below(S, k) : y <= t
      <3>1. Below(S, k) \in SUBSET Names
        BY DEF Below
      <3>2. QED
        BY <1>2, <3>1, Last
    <2>2. t \in S /\ t \in Names /\ Rank(S, t) \in Nat /\ Rank(S, t) < k
      BY <2>1, RankFacts DEF Below
    <2> DEFINE L == {m \in S : m < t}
    <2>3. Below(S, k) \in SUBSET (L \cup {t})
      <3>1. \A y \in Below(S, k) : y \in S /\ y \in Nat /\ y <= t
        BY <1>0, <2>1 DEF Below
      <3>2. \A y \in Below(S, k) : y < t \/ y = t
        BY <1>0, <2>2, <3>1
      <3>3. QED
        BY <3>1, <3>2
    <2>4. IsFiniteSet(L) /\ Cardinality(L) = Rank(S, t)
      <3>1. L \in SUBSET Names
        OBVIOUS
      <3>2. QED
        BY <3>1, NameSets DEF Rank
    <2>5. t \notin L
      BY <1>0, <2>2
    <2>6. Cardinality(L \cup {t}) = Rank(S, t) + 1
      BY <2>4, <2>5, FS_AddElement
    <2>7. L \cup {t} \in SUBSET Names
      BY <2>2
    <2>8. /\ Cardinality(Below(S, k)) <= Cardinality(L \cup {t})
          /\ Cardinality(Below(S, k)) \in Nat
      <3> HIDE DEF L
      <3>1. QED
        BY <2>3, <2>7, NameSets
    <2>9. QED
      BY <2>2, <2>6, <2>8
  <1>3. QED
    BY <1>1, <1>2

\* At least k have, if one has a rank of k or more.
LEMMA AtLeast ==
  ASSUME NEW S \in SUBSET Names, NEW k \in Nat, NEW x \in S, Rank(S, x) >= k
  PROVE  Cardinality(Below(S, k)) >= k
  <1>0. \A n \in Names : n \in Nat /\ Rank(S, n) \in Nat
    BY RankFacts, SizeAssumption DEF Names
  <1> DEFINE U == S \ Below(S, k)
  <1>1. U \in SUBSET Names /\ x \in U
    BY <1>0 DEF Below
  <1>2. PICK y \in U : \A z \in U : y <= z
    <2> HIDE DEF U
    <2>1. QED
      BY <1>1, First
  <1>3. y \in S /\ y \in Nat /\ Rank(S, y) \in Nat /\ Rank(S, y) >= k
    BY <1>0 DEF Below
  <1>4. {m \in S : m < y} \in SUBSET Below(S, k)
    <2>1. \A m \in S : m < y => m \notin U
      BY <1>0, <1>2, <1>3
    <2>2. QED
      BY <2>1
  <1>5. Below(S, k) \in SUBSET Names
    BY DEF Below
  <1>6. Rank(S, y) <= Cardinality(Below(S, k)) /\ Cardinality(Below(S, k)) \in Nat
    BY <1>4, <1>5, NameSets DEF Rank
  <1>7. QED
    BY <1>3, <1>6

\* A page is full when names come after it.
LEMMA FullPage ==
  ASSUME NEW S \in SUBSET Names, NEW off \in Nat, NEW x \in S, Rank(S, x) >= off + PageSize
  PROVE  ~LastPage(Page(S, off))
  <1> DEFINE A == Below(S, off)
             B == Below(S, off + PageSize)
  <1>0. off + PageSize \in Nat /\ PageSize \in Nat /\ \A n \in S : Rank(S, n) \in Nat
    BY SizeAssumption, RankFacts
  <1>1. Cardinality(B) >= off + PageSize
    BY <1>0, AtLeast
  <1>2. Cardinality(A) <= off
    BY AtMost
  <1>3. A \in SUBSET B /\ B \in SUBSET Names
    BY <1>0 DEF Below
  <1>4. Page(S, off) = B \ A
    BY <1>0 DEF Below, Page
  <1> HIDE DEF A, B
  <1>5. /\ IsFiniteSet(B) /\ IsFiniteSet(A)
        /\ Cardinality(A) \in Nat /\ Cardinality(B) \in Nat
    BY <1>3, NameSets
  <1>6. Cardinality(B \ A) = Cardinality(B) - Cardinality(A)
    <2>1. B \cap A = A
      BY <1>3
    <2>2. Cardinality(B \ A) = Cardinality(B) - Cardinality(B \cap A)
      BY <1>5, FS_Difference, Zenon
    <2>3. QED
      BY <2>1, <2>2
  <1>7. Cardinality(B \ A) >= PageSize
    BY <1>0, <1>1, <1>2, <1>5, <1>6
  <1>8. QED
    BY <1>0, <1>4, <1>5, <1>6, <1>7 DEF LastPage

\* The first page holds the first names, and is empty only when there are none.
LEMMA FirstPage ==
  ASSUME NEW S \in SUBSET Names
  PROVE  /\ Page(S, 0) \subseteq S
         /\ \A n \in S \ Page(S, 0) : \A m \in Page(S, 0) : m < n
         /\ Page(S, 0) = {} => S = {}
  <1>0. /\ PageSize \in Nat /\ PageSize > 0
        /\ \A n \in S : n \in Nat /\ n \in Names /\ Rank(S, n) \in Nat
    BY SizeAssumption, RankFacts DEF Names
  <1>1. \A n \in S : n \in Page(S, 0) <=> Rank(S, n) < PageSize
    BY <1>0 DEF Page
  <1>2. Page(S, 0) \subseteq S
    BY DEF Page
  <1>3. ASSUME NEW n \in S \ Page(S, 0), NEW m \in Page(S, 0) PROVE m < n
    <2>1. Rank(S, m) < PageSize /\ ~(Rank(S, n) < PageSize)
      BY <1>1, <1>2
    <2>2. ~(n <= m)
      <3>1. n <= m => Rank(S, n) <= Rank(S, m)
        BY <1>0, <1>2, RankFacts
      <3>2. QED
        BY <1>0, <1>2, <2>1, <3>1
    <2>3. QED
      BY <1>0, <1>2, <2>2
  <1>4. ASSUME S # {} PROVE Page(S, 0) # {}
    <2>1. PICK x \in S : \A y \in S : x <= y
      BY <1>4, First
    <2>2. {m \in S : m < x} = {}
      BY <1>0, <2>1
    <2>3. Rank(S, x) = 0
      BY <2>2, FS_EmptySet DEF Rank
    <2>4. QED
      BY <1>0, <1>1, <2>3
  <1>5. QED
    BY <1>2, <1>3, <1>4
-----------------------------------------------------------------------------
(* Listings. *)

\* What a listing shows it returns, and Supabase's entries are names; they stand for
\* the objects under the prefix.
LEMMA ListingFacts ==
  ASSUME NEW c \in Callers, objs \subseteq Names
  PROVE  /\ Entries(c) \in SUBSET Names
         /\ Shown(c) \in SUBSET PrefixOf[c] /\ Shown(c) \in SUBSET Returned(c)
         /\ Returned(c) \in SUBSET Names
         /\ backend # "minio" => Shown(c) \cap objs \subseteq Entries(c) \ Nameless[c]
         /\ backend # "minio" => Entries(c) \ Nameless[c] \subseteq Returned(c)
         /\ backend = "minio" => Shown(c) = PrefixOf[c] /\ Returned(c) = PrefixOf[c]
  <1>1. PrefixOf[c] \subseteq Names /\ \A n \in Names : EntryOf[c][n] \in Names
    BY PrefixAssumption, EntryAssumption
  <1>2. CASE backend = "minio"
    BY <1>1, <1>2 DEF Entries, Shown, Returned, UnderPrefix
  <1>3. CASE backend # "minio"
    BY <1>1, <1>3 DEF Entries, Shown, Returned, UnderPrefix
  <1>4. QED
    BY <1>2, <1>3

\* What a listing shows and may return depends on the backend only.
LEMMA ListingFixed ==
  ASSUME backend' = backend, NEW c \in Callers
  PROVE  Shown(c)' = Shown(c) /\ Returned(c)' = Returned(c)
  BY DEF Shown, Returned

-----------------------------------------------------------------------------
(* The inductive invariant: what is owed and still there has been found, or lies
   where the listing has yet to go. *)

\* The Supabase client: its offset has not passed it.
SupabaseInv(c) ==
    backend = "supabase" /\ ~shrunk[c] =>
        /\ pc[c] = "list" => \A n \in owed[c] \cap objs :
                                n \in found[c] \/ Rank(Entries(c), n) >= cursor[c]
        /\ pc[c] = "delete" => owed[c] \cap objs \subseteq found[c]
        /\ pc[c] = "ok" => owed[c] \cap objs = {}

\* The MinIO client: its name is after the last one listed.
MinioInv(c) ==
    backend = "minio" =>
        /\ pc[c] = "list" => \A n \in owed[c] \cap objs : n > cursor[c]
        /\ pc[c] = "delete" => \A n \in owed[c] \cap objs :
                                  n \in found[c] \/ (more[c] /\ n > cursor[c])
        /\ pc[c] = "ok" => owed[c] \cap objs = {}

\* The call of a caller is in order.
CallInv(c) == owed[c] \subseteq Shown(c) /\ SupabaseInv(c) /\ MinioInv(c)

IInv == TypeOK /\ \A c \in Callers : CallInv(c)

\* The initial state satisfies the invariant.
LEMMA InitInv == Init => IInv
  <1> SUFFICES ASSUME Init PROVE IInv
    OBVIOUS
  <1>1. TypeOK
    BY SizeAssumption, PrefixAssumption DEF Init, TypeOK
  <1>2. \A c \in Callers : CallInv(c)
    BY DEF Init, CallInv, SupabaseInv, MinioInv
  <1>3. QED
    BY <1>1, <1>2 DEF IInv

\* Every step keeps the types.
LEMMA TypeStep == TypeOK /\ [Next]_vars => TypeOK'
  <1> SUFFICES ASSUME TypeOK, [Next]_vars PROVE TypeOK'
    OBVIOUS
  <1> USE SizeAssumption, PrefixAssumption DEF TypeOK, call
  <1>0. /\ backend' = backend
        /\ \A d \in Callers : Returned(d)' = Returned(d) /\ Returned(d) \subseteq Names
                             /\ Shown(d) \subseteq Names
    <2>1. backend' = backend
      BY DEF Next, Proceed, Upload, DeleteObject, Begin, SupabaseList, SupabaseDelete, MinioList,
             MinioRemove, Fails, vars
    <2>2. QED
      BY <2>1, ListingFacts, ListingFixed
  <1>1. ASSUME NEW n \in Names, Upload(n) PROVE TypeOK'
    BY <1>0, <1>1 DEF Upload
  <1>2. ASSUME NEW n \in Names, DeleteObject(n) PROVE TypeOK'
    BY <1>0, <1>2 DEF DeleteObject, Remove
  <1>3. ASSUME NEW c \in Callers, Begin(c) PROVE TypeOK'
    BY <1>0, <1>3 DEF Begin
  <1>4. ASSUME NEW c \in Callers, SupabaseList(c) PROVE TypeOK'
    <2>1. Page(Entries(c), cursor[c]) \ Nameless[c] \subseteq Names \cap Returned(c)
      BY <1>4, ListingFacts DEF Page, SupabaseList
    <2>2. cursor' \in [Callers -> Nat]
      BY <1>4 DEF SupabaseList, NextOffset
    <2>3. pc' \in [Callers -> {"idle", "list", "delete", "ok", "error"}]
      BY <1>4 DEF SupabaseList
    <2>4. found' \in [Callers -> SUBSET Names] /\ \A d \in Callers : found'[d] \subseteq Returned(d)
      BY <1>4, <2>1 DEF SupabaseList
    <2>5. QED
      BY <1>0, <1>4, <2>2, <2>3, <2>4 DEF SupabaseList
  <1>5. ASSUME NEW c \in Callers, SupabaseDelete(c) PROVE TypeOK'
    BY <1>0, <1>5 DEF SupabaseDelete, Remove
  <1>6. ASSUME NEW c \in Callers, MinioList(c) PROVE TypeOK'
    <2> DEFINE page == Page({n \in UnderPrefix(c) : n > cursor[c]}, 0)
    <2>1. page \subseteq Names \cap Returned(c)
      BY <1>6, ListingFacts DEF Page, UnderPrefix, MinioList
    <2>2. page \subseteq Nat
      BY <2>1 DEF Names
    <2>3. found' = [found EXCEPT ![c] = page]
      BY <1>6 DEF MinioList
    <2>4. cursor' = cursor \/ \E m \in page : cursor' = [cursor EXCEPT ![c] = m]
      BY <1>6 DEF MinioList
    <2>5. more' \in [Callers -> BOOLEAN]
      BY <1>6 DEF MinioList
    <2>6. pc' \in [Callers -> {"idle", "list", "delete", "ok", "error"}]
      BY <1>6 DEF MinioList
    <2>7. UNCHANGED <<backend, objs, owed, shrunk>>
      BY <1>6 DEF MinioList
    <2> HIDE DEF page
    <2>8. cursor' \in [Callers -> Nat]
      BY <2>2, <2>4
    <2>9. found' \in [Callers -> SUBSET Names] /\ \A d \in Callers : found'[d] \subseteq Returned(d)
      BY <2>1, <2>3
    <2>10. QED
      BY <1>0, <2>5, <2>6, <2>7, <2>8, <2>9
  <1>7. ASSUME NEW c \in Callers, MinioRemove(c) PROVE TypeOK'
    BY <1>0, <1>7 DEF MinioRemove, Remove
  <1>8. ASSUME NEW c \in Callers, Fails(c) PROVE TypeOK'
    BY <1>0, <1>8 DEF Fails, Remove
  <1>9. CASE UNCHANGED vars
    BY <1>0, <1>9 DEF vars
  <1>10. QED
    BY <1>1, <1>2, <1>3, <1>4, <1>5, <1>6, <1>7, <1>8, <1>9 DEF Next, Proceed

\* What one call does leaves the others in order: they notice when their prefix
\* shrinks under their listing.
LEMMA OthersInv ==
  ASSUME TypeOK, NEW c \in Callers, CallInv(c), NEW by, by # c, NEW B, Remove(by, B),
         backend' = backend, owed'[c] = owed[c], pc'[c] = pc[c], cursor'[c] = cursor[c],
         more'[c] = more[c], found'[c] = found[c]
  PROVE  CallInv(c)'
  <1>1. objs' = objs \ B
    BY DEF Remove
  <1>2. shrunk'[c] = (shrunk[c] \/ (c # by /\ pc[c] = "list" /\ B \cap objs \cap PrefixOf[c] # {}))
    BY DEF Remove
  <1>3. SupabaseInv(c)'
    <2> SUFFICES ASSUME backend = "supabase", ~shrunk'[c]
                 PROVE  /\ pc[c] = "list" => \A n \in owed[c] \cap objs' :
                              n \in found[c] \/ Rank(Entries(c)', n) >= cursor[c]
                        /\ pc[c] = "delete" => owed[c] \cap objs' \subseteq found[c]
                        /\ pc[c] = "ok" => owed[c] \cap objs' = {}
      BY DEF SupabaseInv, Rank
    <2>1. ~shrunk[c]
      BY <1>2
    <2>2. pc[c] = "list" => Entries(c)' = Entries(c)
      BY <1>1, <1>2 DEF Entries, UnderPrefix
    <2>3. QED
      BY <1>1, <2>1, <2>2 DEF CallInv, SupabaseInv
  <1>4. MinioInv(c)'
    BY <1>1 DEF CallInv, MinioInv
  <1>5. QED
    BY <1>3, <1>4, ListingFixed DEF CallInv

\* A page of the Supabase listing.
LEMMA SupabaseListInv ==
  ASSUME TypeOK, NEW c \in Callers, CallInv(c), SupabaseList(c)
  PROVE  CallInv(c)'
  <1> DEFINE S    == Entries(c)
             page == Page(S, cursor[c])
             all  == found[c] \cup (page \ Nameless[c])
  <1>1. /\ backend = "supabase" /\ backend' = backend /\ pc[c] = "list"
        /\ found'[c] = all /\ UNCHANGED <<objs, owed, shrunk>>
    BY DEF SupabaseList, TypeOK
  <1>2. /\ S \in SUBSET Names /\ cursor[c] \in Nat
        /\ \A n \in S : n \in Names /\ Rank(S, n) \in Nat
        /\ PageSize \in Nat
    BY RankFacts, ListingFacts, SizeAssumption DEF TypeOK
  <1>3. Entries(c)' = S /\ owed[c] \cap objs \subseteq S \ Nameless[c]
    <2>1. owed[c] \subseteq Shown(c) /\ Shown(c) \cap objs \subseteq S \ Nameless[c]
      BY <1>1, ListingFacts DEF CallInv, TypeOK
    <2>2. QED
      BY <1>1, <2>1 DEF Entries, UnderPrefix
  <1>4. MinioInv(c)' /\ owed'[c] \subseteq Shown(c)'
    BY <1>1, ListingFixed DEF MinioInv, CallInv
  <1>5. ~shrunk[c] => \A n \in owed[c] \cap objs : n \in found[c] \/ Rank(S, n) >= cursor[c]
    BY <1>1 DEF CallInv, SupabaseInv
  <1>6. \A n \in S : Rank(S, n) >= cursor[c] => n \in page \/ Rank(S, n) >= cursor[c] + PageSize
    BY <1>2 DEF Page
  <1>7. CASE LastPage(page)
    <2>1. \A n \in S : ~(Rank(S, n) >= cursor[c] + PageSize)
      BY <1>2, <1>7, FullPage
    <2>2. ~shrunk[c] => owed[c] \cap objs \subseteq all
      BY <1>3, <1>5, <1>6, <2>1
    <2>3. pc'[c] = IF all = {} THEN "ok" ELSE "delete"
      BY <1>7 DEF SupabaseList, TypeOK
    <2> HIDE DEF all, page, S
    <2>4. SupabaseInv(c)'
      BY <1>1, <2>2, <2>3 DEF SupabaseInv
    <2>5. QED
      BY <1>4, <2>4 DEF CallInv
  <1>8. CASE ~LastPage(page)
    <2>1. cursor'[c] = cursor[c] + PageSize /\ pc'[c] = "list"
      BY <1>1, <1>8 DEF SupabaseList, NextOffset, TypeOK
    <2>2. ~shrunk[c] => \A n \in owed[c] \cap objs :
                           n \in all \/ Rank(S, n) >= cursor[c] + PageSize
      BY <1>3, <1>5, <1>6
    <2>3. \A n : Rank(Entries(c), n)' = Rank(S, n)
      BY <1>3 DEF Rank
    <2> HIDE DEF all, page
    <2>4. SupabaseInv(c)'
      BY <1>1, <2>1, <2>2, <2>3 DEF SupabaseInv
    <2>5. QED
      BY <1>4, <2>4 DEF CallInv
  <1>9. QED
    BY <1>7, <1>8

\* A page of the MinIO listing.
LEMMA MinioListInv ==
  ASSUME TypeOK, NEW c \in Callers, CallInv(c), MinioList(c)
  PROVE  CallInv(c)'
  <1> DEFINE rest == {n \in UnderPrefix(c) : n > cursor[c]}
             page == Page(rest, 0)
  <1>1. /\ backend = "minio" /\ backend' = backend /\ pc[c] = "list"
        /\ found'[c] = page /\ more'[c] = (rest # page) /\ UNCHANGED <<objs, owed, shrunk>>
    BY DEF MinioList, TypeOK
  <1>2. rest \in SUBSET Names
    BY DEF TypeOK, UnderPrefix
  <1>3. owed[c] \cap objs \subseteq rest
    BY <1>1, ListingFacts DEF UnderPrefix, CallInv, MinioInv, TypeOK
  <1>4. SupabaseInv(c)' /\ owed'[c] \subseteq Shown(c)'
    BY <1>1, ListingFixed DEF SupabaseInv, CallInv
  <1>5. /\ page \subseteq rest
        /\ \A n \in rest \ page : \A m \in page : m < n
        /\ page = {} => rest = {}
    BY <1>2, FirstPage
  <1>6. CASE page = {}
    <2>1. pc'[c] = "ok"
      BY <1>6 DEF MinioList, TypeOK
    <2>2. MinioInv(c)'
      BY <1>1, <1>3, <1>5, <1>6, <2>1 DEF MinioInv
    <2>3. QED
      BY <1>4, <2>2 DEF CallInv
  <1>7. CASE page # {}
    <2>1. pc'[c] = "delete"
      BY <1>7 DEF MinioList, TypeOK
    <2>2. PICK m \in page : cursor'[c] = m
      BY <1>7 DEF MinioList, TypeOK
    <2> HIDE DEF page, rest
    <2>3. \A n \in owed[c] \cap objs : n \in page \/ (rest # page /\ n > m)
      <3>1. \A n \in rest \ page : n \in Nat /\ m \in Nat /\ m < n
        BY <1>2, <1>5, <2>2, SizeAssumption DEF Names
      <3>2. QED
        BY <1>3, <3>1
    <2>4. MinioInv(c)'
      BY <1>1, <2>1, <2>2, <2>3 DEF MinioInv
    <2>5. QED
      BY <1>4, <2>4 DEF CallInv
  <1>8. QED
    BY <1>6, <1>7

\* Every step keeps the calls in order.
LEMMA CallStep ==
  ASSUME IInv, [Next]_vars, NEW c \in Callers
  PROVE  CallInv(c)'
  <1>0. TypeOK /\ CallInv(c)
    BY DEF IInv
  <1>b. backend' = backend
    BY DEF Next, Proceed, Upload, DeleteObject, Begin, SupabaseList, SupabaseDelete, MinioList,
           MinioRemove, Fails, vars
  <1>s. /\ Shown(c)' = Shown(c) /\ Entries(c) \in SUBSET Names
        /\ Shown(c) \in SUBSET PrefixOf[c] /\ Shown(c) \cap objs \subseteq UnderPrefix(c)
        /\ backend # "minio" => Shown(c) \cap objs \subseteq Entries(c)
    BY <1>0, <1>b, ListingFacts, ListingFixed DEF TypeOK, UnderPrefix
  <1>1. ASSUME NEW n \in Names, Upload(n) PROVE CallInv(c)'
    <2>1. /\ owed'[c] = owed[c] \ {n} /\ objs' = objs \cup {n}
          /\ UNCHANGED <<backend, pc, cursor, more, found, shrunk>>
      BY <1>1 DEF Upload, call
    <2>2. owed'[c] \cap objs' \subseteq owed[c] \cap objs
      BY <2>1
    <2>3. \A m \in owed[c] \cap objs : Rank(Entries(c), m) <= Rank(Entries(c)', m)
      <3>1. Entries(c) \in SUBSET (Entries(c)') /\ Entries(c)' \in SUBSET Names
        BY <1>0, <2>1, PrefixAssumption, EntryAssumption DEF Entries, UnderPrefix, TypeOK
      <3>2. \A m \in objs : m \in Names
        BY <1>0 DEF TypeOK
      <3>3. QED
        BY <3>1, <3>2, RankFacts
    <2>4. \A m \in objs : /\ Rank(Entries(c), m) \in Nat /\ Rank(Entries(c)', m) \in Nat
      <3>1. Entries(c) \in SUBSET Names /\ Entries(c)' \in SUBSET Names
        BY <1>0, <2>1, PrefixAssumption, EntryAssumption DEF Entries, UnderPrefix, TypeOK
      <3>2. \A m \in objs : m \in Names
        BY <1>0 DEF TypeOK
      <3>3. QED
        BY <3>1, <3>2, RankFacts
    <2>5. \A m : Rank(Entries(c), m)' = Rank(Entries(c)', m)
      BY DEF Rank
    <2>6. cursor[c] \in Nat
      BY <1>0 DEF TypeOK
    <2>7. SupabaseInv(c)'
      <3>1. ASSUME backend = "supabase", ~shrunk[c], pc[c] = "list",
                   NEW m \in owed'[c] \cap objs'
            PROVE  m \in found[c] \/ Rank(Entries(c)', m) >= cursor[c]
        <4>1. m \in found[c] \/ Rank(Entries(c), m) >= cursor[c]
          BY <1>0, <2>2, <3>1 DEF CallInv, SupabaseInv
        <4>2. QED
          BY <2>2, <2>3, <2>4, <2>6, <3>1, <4>1
      <3>2. QED
        BY <1>0, <2>1, <2>2, <2>5, <3>1 DEF CallInv, SupabaseInv
    <2>8. MinioInv(c)'
      BY <1>0, <2>1, <2>2 DEF CallInv, MinioInv
    <2>9. QED
      BY <1>0, <1>s, <2>1, <2>7, <2>8 DEF CallInv
  <1>2. ASSUME NEW n \in Names, DeleteObject(n) PROVE CallInv(c)'
    <2>1. Nobody # c
      BY PrefixAssumption
    <2>2. QED
      BY <1>0, <1>2, <2>1, OthersInv DEF DeleteObject, call
  <1>3. ASSUME NEW d \in Callers, d # c, Begin(d) PROVE CallInv(c)'
    BY <1>0, <1>s, <1>3 DEF Begin, TypeOK, CallInv, SupabaseInv, MinioInv, Entries, UnderPrefix, Rank
  <1>4. CASE Begin(c)
    <2>1. /\ owed'[c] = objs \cap Shown(c) /\ cursor'[c] = 0 /\ pc'[c] = "list"
          /\ objs' = objs /\ Entries(c)' = Entries(c)
      BY <1>0, <1>4 DEF Begin, TypeOK, Entries, UnderPrefix
    <2>2. objs \cap Shown(c) \subseteq Names
      BY <1>0 DEF TypeOK
    <2>3. \A n \in Names : n > 0 /\ Rank(Entries(c), n) \in Nat
      BY <1>s, RankFacts, SizeAssumption DEF Names
    <2>4. \A m : Rank(Entries(c), m)' = Rank(Entries(c), m)
      BY <2>1 DEF Rank
    <2>5. \A n \in objs \cap Shown(c) : n > 0 /\ Rank(Entries(c), n) >= 0
      BY <2>2, <2>3
    <2>6. QED
      BY <1>b, <1>s, <2>1, <2>4, <2>5 DEF CallInv, SupabaseInv, MinioInv
  <1>5. ASSUME NEW d \in Callers, d # c, SupabaseList(d) \/ MinioList(d) PROVE CallInv(c)'
    <2>1. /\ UNCHANGED <<backend, objs, owed, shrunk>>
          /\ pc'[c] = pc[c] /\ cursor'[c] = cursor[c] /\ more'[c] = more[c] /\ found'[c] = found[c]
      BY <1>0, <1>5 DEF SupabaseList, MinioList, TypeOK
    <2>2. QED
      BY <1>0, <1>s, <2>1 DEF CallInv, SupabaseInv, MinioInv, Entries, UnderPrefix, Rank
  <1>6. ASSUME NEW d \in Callers, d # c, SupabaseDelete(d) \/ MinioRemove(d) \/ Fails(d)
        PROVE  CallInv(c)'
    <2>1. /\ UNCHANGED <<backend, owed>>
          /\ pc'[c] = pc[c] /\ cursor'[c] = cursor[c] /\ more'[c] = more[c] /\ found'[c] = found[c]
      BY <1>0, <1>6 DEF SupabaseDelete, MinioRemove, Fails, TypeOK
    <2>2. PICK B : Remove(d, B)
      BY <1>6 DEF SupabaseDelete, MinioRemove, Fails
    <2>3. QED
      BY <1>0, <1>6, <2>1, <2>2, OthersInv
  <1>7. CASE SupabaseList(c)
    BY <1>0, <1>7, SupabaseListInv
  <1>8. CASE MinioList(c)
    BY <1>0, <1>8, MinioListInv
  <1>9. CASE SupabaseDelete(c)
    <2>1. PICK B \in SUBSET found[c] :
             /\ Remove(c, B) /\ found'[c] = found[c] \ B
             /\ pc'[c] = IF found[c] \subseteq B THEN "ok" ELSE "delete"
      BY <1>0, <1>9 DEF SupabaseDelete, TypeOK, Batches
    <2>2. /\ backend = "supabase" /\ pc[c] = "delete" /\ UNCHANGED <<backend, owed>>
          /\ objs' = objs \ B /\ shrunk'[c] = shrunk[c]
      BY <1>0, <1>9, <2>1 DEF SupabaseDelete, Remove, TypeOK
    <2>3. SupabaseInv(c)'
      BY <1>0, <2>1, <2>2 DEF CallInv, SupabaseInv
    <2>4. QED
      BY <1>0, <1>s, <2>2, <2>3 DEF CallInv, MinioInv
  <1>10. CASE MinioRemove(c)
    <2>1. PICK n \in found[c] :
             /\ Remove(c, {n}) /\ found'[c] = found[c] \ {n}
             /\ pc'[c] = CASE found[c] # {n} -> "delete"
                           [] found[c] = {n} /\ more[c] -> "list"
                           [] OTHER -> "ok"
      BY <1>0, <1>10 DEF MinioRemove, TypeOK
    <2>2. /\ backend = "minio" /\ pc[c] = "delete" /\ UNCHANGED <<backend, cursor, more, owed>>
          /\ objs' = objs \ {n}
      BY <1>10, <2>1 DEF MinioRemove, Remove
    <2>3. \A m \in owed[c] \cap objs' : m \in found'[c] \/ (more[c] /\ m > cursor[c])
      BY <1>0, <2>1, <2>2 DEF CallInv, MinioInv
    <2>4. CASE found[c] # {n}
      BY <1>0, <1>s, <2>1, <2>2, <2>3, <2>4 DEF CallInv, MinioInv, SupabaseInv
    <2>5. CASE found[c] = {n} /\ more[c]
      BY <1>0, <1>s, <2>1, <2>2, <2>3, <2>5 DEF CallInv, MinioInv, SupabaseInv
    <2>6. CASE found[c] = {n} /\ ~more[c]
      BY <1>0, <1>s, <2>1, <2>2, <2>3, <2>6 DEF CallInv, MinioInv, SupabaseInv
    <2>7. QED
      BY <2>4, <2>5, <2>6
  <1>11. CASE Fails(c)
    BY <1>0, <1>s, <1>11 DEF Fails, TypeOK, CallInv, SupabaseInv, MinioInv
  <1>12. CASE UNCHANGED vars
    BY <1>0, <1>s, <1>12 DEF vars, call, CallInv, SupabaseInv, MinioInv, Entries, UnderPrefix, Rank
  <1>13. QED
    BY <1>1, <1>2, <1>3, <1>4, <1>5, <1>6, <1>7, <1>8, <1>9, <1>10, <1>11, <1>12
       DEF Next, Proceed

\* The invariant holds in every reachable state.
LEMMA Invariance == Spec => []IInv
  <1>1. IInv /\ [Next]_vars => IInv'
    BY TypeStep, CallStep DEF IInv
  <1>2. QED
    BY InitInv, <1>1, PTL DEF Spec

-----------------------------------------------------------------------------
(* The clients implement the abstract store.  A state is mapped by what a caller sees
   of its call. *)

seen == [c \in Callers |-> IF pc[c] \in {"list", "delete"} THEN "busy" ELSE pc[c]]
excuse == [c \in Callers |-> backend = "supabase" /\ shrunk[c]]
shows == [c \in Callers |-> Shown(c)]
returns == [c \in Callers |-> Returned(c)]

\* The listing is a fixed part of the abstract store.
LEMMA ListingKept ==
  ASSUME backend' = backend
  PROVE  shows' = shows /\ returns' = returns
  BY ListingFixed DEF shows, returns

\* Removing objects excuses only calls that are listing them.
LEMMA RemoveLoses ==
  ASSUME TypeOK, NEW by, NEW B, Remove(by, B), backend' = backend, owed' = owed
  PROVE  Store!Lose(by, B)
  <1>1. /\ objs' = objs \ B
        /\ \A c \in Callers : shrunk'[c] = (shrunk[c] \/
              (c # by /\ pc[c] = "list" /\ B \cap objs \cap PrefixOf[c] # {}))
    BY DEF Remove
  <1>2. shrunk \in [Callers -> BOOLEAN]
    BY DEF TypeOK
  <1>3. \A c \in Callers : excuse[c] => excuse'[c]
    BY <1>1, <1>2 DEF excuse
  <1>4. \A c \in Callers : excuse'[c] =>
           excuse[c] \/ (c # by /\ seen[c] = "busy" /\ B \cap objs \cap PrefixOf[c] # {})
    BY <1>1, <1>2 DEF excuse, seen
  <1>5. excuse' \in [Callers -> BOOLEAN]
    BY DEF excuse
  <1>6. QED
    BY <1>1, <1>3, <1>4, <1>5, ListingKept
       DEF Store!Lose, Store!listing, excuse, seen, shows, returns

\* What a caller sees when only its own call moves.
LEMMA SeenMoves ==
  ASSUME TypeOK, NEW c \in Callers, NEW s, pc' = [pc EXCEPT ![c] = s]
  PROVE  seen' = [seen EXCEPT ![c] = IF s \in {"list", "delete"} THEN "busy" ELSE s]
  <1>1. pc \in [Callers -> {"idle", "list", "delete", "ok", "error"}]
    BY DEF TypeOK
  <1>2. QED
    BY <1>1 DEF seen

\* A request of a call under way, answered or failed, is a step of the abstract call.
LEMMA WorkStep ==
  ASSUME IInv, IInv', NEW c \in Callers, Proceed(c) \/ Fails(c)
  PROVE  Store!Work(c)
  <1>0. TypeOK /\ TypeOK' /\ CallInv(c)' /\ backend \in {"minio", "supabase"}
    BY BackendAssumption DEF IInv, TypeOK
  <1>1. backend' = backend /\ owed' = owed /\ pc[c] \in {"list", "delete"}
    BY DEF Proceed, SupabaseList, SupabaseDelete, MinioList, MinioRemove, Fails
  <1>2. seen[c] = "busy"
    BY <1>1 DEF seen
  <1>3. \E B \in SUBSET Returned(c) : Store!Lose(c, B)
    <2>1. CASE SupabaseList(c) \/ MinioList(c)
      <3>1. UNCHANGED <<objs, shrunk>>
        BY <2>1 DEF SupabaseList, MinioList
      <3>2. shrunk \in [Callers -> BOOLEAN]
        BY <1>0 DEF TypeOK
      <3>3. excuse' = excuse /\ excuse \in [Callers -> BOOLEAN]
        BY <1>1, <3>1 DEF excuse
      <3>4. Store!Lose(c, {})
        BY <1>1, <3>1, <3>3, ListingKept DEF Store!Lose, Store!listing, excuse, shows, returns
      <3>5. QED
        BY <3>4
    <2>2. CASE SupabaseDelete(c) \/ MinioRemove(c) \/ Fails(c)
      <3>1. found[c] \subseteq Returned(c)
        BY <1>0 DEF TypeOK
      <3>2. PICK B \in SUBSET found[c] : Remove(c, B)
        BY <2>2 DEF SupabaseDelete, Batches, MinioRemove, Fails
      <3>3. Store!Lose(c, B)
        BY <1>0, <1>1, <3>2, RemoveLoses
      <3>4. QED
        BY <3>1, <3>2, <3>3
    <2>3. QED
      BY <2>1, <2>2 DEF Proceed
  <1>4. PICK s \in {"list", "delete", "ok", "error"} : pc' = [pc EXCEPT ![c] = s]
    <2>1. pc \in [Callers -> {"idle", "list", "delete", "ok", "error"}]
      BY <1>0 DEF TypeOK
    <2>2. CASE UNCHANGED pc
      BY <1>1, <2>1, <2>2
    <2>3. CASE ~UNCHANGED pc
      BY <2>3 DEF Proceed, SupabaseList, SupabaseDelete, MinioList, MinioRemove, Fails
    <2>4. QED
      BY <2>2, <2>3
  <1>5. seen' = [seen EXCEPT ![c] = IF s \in {"list", "delete"} THEN "busy" ELSE s]
    BY <1>0, <1>4, SeenMoves
  <1>6. CASE s \in {"list", "delete"}
    <2>1. seen' = seen
      BY <1>2, <1>5, <1>6 DEF seen
    <2>2. QED
      BY <1>2, <1>3, <2>1 DEF Store!Work, seen
  <1>7. CASE s = "error"
    BY <1>2, <1>3, <1>5, <1>7 DEF Store!Work, seen
  <1>8. CASE s = "ok"
    <2>1. pc'[c] = "ok"
      BY <1>0, <1>4, <1>8 DEF TypeOK
    <2>2. owed[c] \cap objs' = {} \/ (backend = "supabase" /\ shrunk'[c])
      BY <1>0, <1>1, <2>1 DEF CallInv, SupabaseInv, MinioInv
    <2>3. shrunk'[c] = shrunk[c]
      BY <1>0 DEF Proceed, SupabaseList, SupabaseDelete, MinioList, MinioRemove, Fails,
         Remove, TypeOK
    <2>4. owed[c] \cap objs' = {} \/ excuse[c]
      BY <2>2, <2>3 DEF excuse
    <2>5. QED
      BY <1>2, <1>3, <1>5, <1>8, <2>4 DEF Store!Work, seen, excuse
  <1>9. QED
    BY <1>6, <1>7, <1>8

\* Every step is a step of the abstract store, or leaves it alone.
LEMMA StoreStep == IInv /\ IInv' /\ [Next]_vars => [Store!Next]_(Store!vars)
  <1> SUFFICES ASSUME IInv, IInv', [Next]_vars PROVE [Store!Next]_(Store!vars)
    OBVIOUS
  <1>0. TypeOK
    BY DEF IInv
  <1>1. ASSUME NEW n \in Names, Upload(n) PROVE Store!UploadObject(n)
    <2>1. UNCHANGED <<backend, pc, shrunk>>
      BY <1>1 DEF Upload, call
    <2>2. shows' = shows /\ returns' = returns /\ seen' = seen /\ excuse' = excuse
      BY <2>1, ListingKept DEF seen, excuse
    <2>3. QED
      BY <1>1, <2>2 DEF Upload, Store!UploadObject, Store!listing, seen, excuse, shows, returns
  <1>2. ASSUME NEW n \in Names, DeleteObject(n) PROVE Store!RemoveObject(n)
    <2>1. Store!Lose(Nobody, {n})
      BY <1>0, <1>2, RemoveLoses DEF DeleteObject
    <2>2. seen' = seen
      BY <1>2 DEF DeleteObject, call, seen
    <2>3. QED
      BY <2>1, <2>2 DEF Store!RemoveObject, seen
  <1>3. ASSUME NEW c \in Callers, Begin(c) PROVE Store!Call(c)
    <2>1. seen[c] # "busy"
      BY <1>3 DEF Begin, seen
    <2>2. seen' = [seen EXCEPT ![c] = "busy"]
      BY <1>0, <1>3, SeenMoves DEF Begin
    <2>3. excuse' = [excuse EXCEPT ![c] = FALSE]
      BY <1>0, <1>3 DEF Begin, excuse, TypeOK
    <2>4. shows' = shows /\ returns' = returns
      BY <1>3, ListingKept DEF Begin
    <2>5. owed' = [owed EXCEPT ![c] = objs \cap shows[c]] /\ objs' = objs
      BY <1>3 DEF Begin, shows
    <2>6. QED
      BY <2>1, <2>2, <2>3, <2>4, <2>5 DEF Store!Call, Store!listing, seen, excuse, shows, returns
  <1>4. ASSUME NEW c \in Callers, Proceed(c) \/ Fails(c) PROVE Store!Work(c)
    BY <1>4, WorkStep
  <1>5. CASE UNCHANGED vars
    BY <1>5, ListingKept DEF vars, call, Store!vars, Store!listing, shows, returns
  <1>6. QED
    BY <1>1, <1>2, <1>3, <1>4, <1>5 DEF Next, Store!Next

\* The initial state is one of the abstract store.
LEMMA StoreInit == Init => Store!Init
  <1> SUFFICES ASSUME Init PROVE Store!Init
    OBVIOUS
  <1>1. \A c \in Callers : /\ Shown(c) \subseteq PrefixOf[c] /\ Shown(c) \subseteq Returned(c)
                           /\ Returned(c) \subseteq Names
    BY ListingFacts DEF Init
  <1>2. \A c \in Callers : Shown(c) \subseteq Names
    BY <1>1
  <1>3. QED
    BY <1>1, <1>2 DEF Init, Store!Init

-----------------------------------------------------------------------------

\* Every state is well typed; in particular a call is about to remove nothing but what its
\* listing may return.
THEOREM TypeCorrect == Spec => []TypeOK
  <1>1. IInv => TypeOK
    BY DEF IInv
  <1>2. QED
    BY Invariance, <1>1, PTL

\* A successful DeletePrefix has removed everything it owed, for any number of
\* objects, any page and batch size and any concurrent uploads: with MinIO the prefix,
\* with Supabase what its listing shows by name, whichever entries it answers with, unless
\* others removed objects of the prefix during the listing.
THEOREM SuccessMeansGone == Spec => []PrefixEmptied
  <1>1. IInv => PrefixEmptied
    <2> SUFFICES ASSUME IInv, NEW c \in Callers, pc[c] = "ok", backend = "minio" \/ ~shrunk[c]
                 PROVE  owed[c] \cap objs = {}
      BY DEF PrefixEmptied
    <2>1. backend \in {"minio", "supabase"} /\ CallInv(c)
      BY BackendAssumption DEF IInv, TypeOK
    <2>2. QED
      BY <2>1 DEF CallInv, SupabaseInv, MinioInv
  <1>2. QED
    BY Invariance, <1>1, PTL

\* Both clients implement the abstract store, for any names, prefixes, listings, page and
\* batch size: module ObjectStore is all that their callers need to know of them.
THEOREM Implementation == Spec => ImplementsObjectStore
  <1>1. QED
    BY Invariance, StoreInit, StoreStep, PTL DEF Spec, ImplementsObjectStore, Store!Spec
=============================================================================
