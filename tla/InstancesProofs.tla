---------------------------- MODULE InstancesProofs ----------------------------
(***************************************************************************)
(* What the instances of the shop share or keep apart: copies of the       *)
(* catalogue, and the buckets of the rate limiter.                         *)
(***************************************************************************)
EXTENDS Storefront, RateLimiter, FiniteSetTheorems, WellFoundedInduction, NaturalsInduction, TLAPS

(***************************************************************************)
(* The catalogue and its copies, for any number of packs, photographs,     *)
(* admins and instances.  What is on sale can be bought and has one        *)
(* primary photograph because every operation keeps both by itself.  A     *)
(* copy is as the tables are unless somebody is about to mark it or a      *)
(* named reason excuses it, and the same is true of what a load has read   *)
(* so far: that second half makes the first one inductive.                 *)
(***************************************************************************)

(***************************************************************************)
(* Photographs.                                                            *)
(***************************************************************************)

LEMMA Least ==
  ASSUME NEW T \in SUBSET Nat, T # {}
  PROVE  \E m \in T : \A y \in T : m <= y
<1>1. PICK m \in T : \A y \in T : ~(<<y, m>> \in OpToRel(<, Nat))
  BY NatLessThanWellFounded, WFMin
<1>2. ASSUME NEW y \in T, y < m PROVE FALSE
  <2>1. <<y, m>> \in OpToRel(<, Nat)
    BY <1>2, Zenon DEF OpToRel
  <2> QED
    BY <1>1, <2>1, Zenon
<1> QED
  BY <1>2

\* A bounded set of numbers has a greatest one, which is what Max returns.
LEMMA MaxIsIn ==
  ASSUME NEW n \in Nat, NEW S \in SUBSET (0 .. n), S # {}
  PROVE  Max(S) \in S
<1> DEFINE T == {k \in Nat : \E y \in S : k + y = n}
<1>1. PICK k \in T : \A z \in T : k <= z
  <2>1. PICK y \in S : TRUE
    OBVIOUS
  <2>2. T \in SUBSET Nat /\ n - y \in T
    OBVIOUS
  <2> HIDE DEF T
  <2>3. T # {}
    BY <2>2
  <2> QED
    BY <2>2, <2>3, Least
<1>2. PICK m \in S : k + m = n
  BY <1>1
<1>3. ASSUME NEW y \in S PROVE m >= y
  <2>1. n - y \in T
    OBVIOUS
  <2>2. k <= n - y
    BY <1>1, <2>1
  <2> QED
    BY <1>2, <2>2
<1> QED
  BY <1>3, Zenon DEF Max

\* Places stay below this, so that there is a last one.
Highest == requests + Cardinality(Photos)

Primary == (Present = {} /\ primary = {}) \/ \E x \in Present : primary = {x}

AlbumInv ==
  /\ CatalogueTypeOK
  /\ \A x \in Photos : place[x] <= Highest
  /\ Primary
  /\ LiveHasPack

LEMMA PhotosCounted == Cardinality(Photos) \in Nat /\ \A x \in Photos : Cardinality(Photos) >= 1
<1>1. Cardinality(Photos) \in Nat
  BY FiniteAssumption, FS_CardinalityType
<1>2. ASSUME NEW x \in Photos PROVE Cardinality(Photos) >= 1
  <2>1. Cardinality({x}) <= Cardinality(Photos)
    BY FiniteAssumption, FS_Subset
  <2> QED
    BY <1>1, <2>1, FS_Singleton
<1> QED
  BY <1>1, <1>2

LEMMA AlbumInit == CatalogueInit => AlbumInv
<1> SUFFICES ASSUME CatalogueInit PROVE AlbumInv
  OBVIOUS
<1>1. CatalogueTypeOK
  <2>1. live \in BOOLEAN /\ packs \in [Packs -> {"absent", "archived", "active"}]
    BY DEF CatalogueInit, Created, Seeded
  <2>2. place \in [Photos -> Nat] /\ primary \in SUBSET Photos
    BY DEF CatalogueInit, Created, Seeded
  <2>3. /\ text \in Values /\ price \in Values /\ order \in [Ordered -> Values]
        /\ requests \in 0 .. MaxRequests /\ desk \in [Admins -> {Idle, MustPurge} \cup Reading]
    BY FirstAssumption, FiniteAssumption DEF CatalogueInit
  <2> QED
    BY <2>1, <2>2, <2>3 DEF CatalogueTypeOK
<1>2. CASE Created
  BY <1>1, <1>2, PhotosCounted DEF CatalogueInit, Created, AlbumInv, Highest, Primary, Present, LiveHasPack
<1>3. CASE Seeded
  <2>1. PICK x \in Photos : place = [y \in Photos |-> IF y = x THEN 1 ELSE 0] /\ primary = {x}
    BY <1>3 DEF Seeded
  <2>2. \A y \in Photos : place[y] <= Highest
    BY <2>1, PhotosCounted DEF CatalogueInit, Highest
  <2>3. Primary
    BY <2>1 DEF Primary, Present
  <2>4. LiveHasPack
    BY <1>3, PacksAssumption DEF Seeded, LiveHasPack, ActivePacks
  <2> QED
    BY <1>1, <2>2, <2>3, <2>4 DEF AlbumInv
<1> QED
  BY <1>2, <1>3 DEF CatalogueInit

LEMMA DeskTypes == Idle # MustPurge /\ MustPurge \notin Reading /\ Idle \notin Reading
  BY DEF Idle, MustPurge, Reading

\* A request writes from rest or from a reading, never while it must purge.
LEMMA DeskStep ==
  ASSUME CatalogueTypeOK, NEW a \in Admins, CatalogueStep(a)
  PROVE  /\ desk[a] # MustPurge
         /\ desk' \in [Admins -> {Idle, MustPurge} \cup Reading]
         /\ \A b \in Admins \ {a} : desk'[b] = desk[b]
<1>1. desk \in [Admins -> {Idle, MustPurge} \cup Reading] /\ text \in Values /\ price \in Values /\ live \in BOOLEAN
  BY DEF CatalogueTypeOK
<1>2. ASSUME Commit(a) PROVE desk[a] = Idle /\ desk' = [desk EXCEPT ![a] = MustPurge]
  BY <1>2 DEF Commit
<1>3. CASE Commit(a)
  <2> HIDE DEF Reading, Idle, MustPurge
  <2> QED
    BY <1>1, <1>2, <1>3, DeskTypes
<1>4. CASE OpenProduct(a)
  <2>1. desk[a] = Idle /\ desk' = [desk EXCEPT ![a] = [at |-> "product", live |-> live, before |-> text]]
    BY <1>4 DEF OpenProduct
  <2>2. [at |-> "product", live |-> live, before |-> text] \in Reading
    BY <1>1 DEF Reading
  <2> HIDE DEF Reading, Idle, MustPurge
  <2> QED
    BY <1>1, <2>1, <2>2, DeskTypes
<1>5. CASE OpenPack(a)
  <2>1. desk[a] = Idle /\ desk' = [desk EXCEPT ![a] = [at |-> "pack", before |-> price]]
    BY <1>5 DEF OpenPack
  <2>2. [at |-> "pack", before |-> price] \in Reading
    BY <1>1 DEF Reading
  <2> HIDE DEF Reading, Idle, MustPurge
  <2> QED
    BY <1>1, <2>1, <2>2, DeskTypes
<1>6. ASSUME NEW w \in Values, SaveProduct(a, w) \/ SavePack(a, w)
      PROVE  desk[a] # MustPurge /\ desk' \in {[desk EXCEPT ![a] = MustPurge], [desk EXCEPT ![a] = Idle]}
  BY <1>6 DEF SaveProduct, SavePack, MustPurge
<1>7. ASSUME NEW w \in Values, SaveProduct(a, w) \/ SavePack(a, w)
      PROVE  /\ desk[a] # MustPurge
             /\ desk' \in [Admins -> {Idle, MustPurge} \cup Reading]
             /\ \A b \in Admins \ {a} : desk'[b] = desk[b]
  <2> HIDE DEF Reading, Idle, MustPurge
  <2> QED
    BY <1>1, <1>6, <1>7
<1>8. CASE GiveUp(a)
  <2>1. desk[a] # MustPurge /\ desk' = [desk EXCEPT ![a] = Idle]
    BY <1>8 DEF GiveUp
  <2> HIDE DEF Reading, Idle, MustPurge
  <2> QED
    BY <1>1, <2>1
<1>9. CatalogueStep(a) =>
        \/ Commit(a) \/ OpenProduct(a) \/ OpenPack(a) \/ GiveUp(a)
        \/ \E w \in Values : SaveProduct(a, w) \/ SavePack(a, w)
  BY DEF CatalogueStep, Publish, Archive, CreatePack, ArchivePack, RestorePack, ReorderProducts,
         ReorderPacks, UpdateAlt, AddPhoto, SetPrimary, DeletePhoto, ReorderPhotos
<1> QED
  BY <1>3, <1>4, <1>5, <1>7, <1>8, <1>9

\* Everything but the photographs.
LEMMA GoodsStep ==
  ASSUME AlbumInv, NEW a \in Admins, CatalogueStep(a)
  PROVE  /\ live' \in BOOLEAN /\ text' \in Values /\ price' \in Values
         /\ packs' \in [Packs -> {"absent", "archived", "active"}]
         /\ order' \in [Ordered -> Values]
         /\ requests' \in 0 .. MaxRequests /\ requests' >= requests
         /\ LiveHasPack'
<1>1. /\ live \in BOOLEAN /\ text \in Values /\ price \in Values
      /\ packs \in [Packs -> {"absent", "archived", "active"}]
      /\ order \in [Ordered -> Values] /\ requests \in 0 .. MaxRequests
      /\ live => ActivePacks # {}
  BY DEF AlbumInv, CatalogueTypeOK, LiveHasPack
<1>2. requests' \in 0 .. MaxRequests /\ requests' >= requests
  <2>1. requests' = requests \/ (requests < MaxRequests /\ requests' = requests + 1)
    BY DEF CatalogueStep, Commit, Publish, Archive, OpenProduct, OpenPack, GiveUp, SaveProduct, SavePack,
           CreatePack, ArchivePack, RestorePack, ReorderProducts, ReorderPacks, UpdateAlt, AddPhoto,
           SetPrimary, DeletePhoto, ReorderPhotos
  <2> QED
    BY <1>1, <2>1, FiniteAssumption
<1>3. CASE Publish(a)
  BY <1>1, <1>2, <1>3 DEF Publish, goods, LiveHasPack, ActivePacks
<1>4. CASE Archive(a)
  BY <1>1, <1>2, <1>4 DEF Archive, goods, LiveHasPack
<1>5. CASE OpenProduct(a) \/ OpenPack(a) \/ GiveUp(a)
  BY <1>1, <1>2, <1>5 DEF OpenProduct, OpenPack, GiveUp, tables, product, goods, LiveHasPack, ActivePacks
<1>6. ASSUME NEW w \in Values, SaveProduct(a, w) \/ SavePack(a, w)
      PROVE  /\ text' \in Values /\ price' \in Values /\ UNCHANGED <<live, packs, order>>
  BY <1>1, <1>6 DEF SaveProduct, SavePack, goods, product
<1>7. ASSUME NEW w \in Values, SaveProduct(a, w) \/ SavePack(a, w)
      PROVE  LiveHasPack'
  BY <1>1, <1>6, <1>7 DEF LiveHasPack, ActivePacks
<1>8. ASSUME NEW v \in Packs, CreatePack(a, v) \/ ArchivePack(a, v) \/ RestorePack(a, v)
      PROVE  /\ UNCHANGED <<live, text, price, order>>
             /\ packs' \in [Packs -> {"absent", "archived", "active"}] /\ LiveHasPack'
  <2>1. UNCHANGED <<live, text, price, order>>
    BY <1>8 DEF CreatePack, ArchivePack, RestorePack, product
  <2>2. CASE packs' = [packs EXCEPT ![v] = "active"]
    BY <1>1, <2>1, <2>2 DEF LiveHasPack, ActivePacks
  <2>3. CASE packs' = [packs EXCEPT ![v] = "archived"] /\ MayArchive(v)
    <3>1. packs' \in [Packs -> {"absent", "archived", "active"}] /\ \A u \in Packs \ {v} : packs'[u] = packs[u]
      BY <1>1, <2>3
    <3>2. ActivePacks \ {v} \subseteq ActivePacks'
      BY <3>1 DEF ActivePacks
    <3> QED
      BY <2>1, <2>3, <3>1, <3>2 DEF LiveHasPack, MayArchive
  <2> QED
    BY <1>8, <2>1, <2>2, <2>3 DEF CreatePack, ArchivePack, RestorePack
<1>9. ASSUME NEW w \in Values, ReorderProducts(a, w) \/ ReorderPacks(a, w) \/ UpdateAlt(a, w)
      PROVE  /\ order' \in [Ordered -> Values] /\ UNCHANGED <<live, text, packs, price>>
  BY <1>1, <1>9 DEF ReorderProducts, ReorderPacks, UpdateAlt, product, goods, Ordered
<1>10. ASSUME NEW w \in Values, ReorderProducts(a, w) \/ ReorderPacks(a, w) \/ UpdateAlt(a, w)
       PROVE  LiveHasPack'
  BY <1>1, <1>9, <1>10 DEF LiveHasPack, ActivePacks
<1>11. ASSUME \/ \E x \in Photos : AddPhoto(a, x) \/ SetPrimary(a, x) \/ DeletePhoto(a, x)
              \/ ReorderPhotos(a)
       PROVE  UNCHANGED <<live, text, packs, price, order>>
  BY <1>11 DEF AddPhoto, SetPrimary, DeletePhoto, ReorderPhotos, product, goods
<1>12. ASSUME \/ \E x \in Photos : AddPhoto(a, x) \/ SetPrimary(a, x) \/ DeletePhoto(a, x)
              \/ ReorderPhotos(a)
       PROVE  LiveHasPack'
  BY <1>1, <1>11, <1>12 DEF LiveHasPack, ActivePacks
<1> QED
  BY <1>1, <1>2, <1>3, <1>4, <1>5, <1>6, <1>7, <1>8, <1>9, <1>10, <1>11, <1>12 DEF CatalogueStep

Posed == /\ place \in [Photos -> Nat] /\ primary \in SUBSET Photos
         /\ \A x \in Photos : place[x] <= Highest
         /\ Primary

LEMMA AlbumStep ==
  ASSUME AlbumInv, NEW a \in Admins, CatalogueStep(a)
  PROVE  AlbumInv'
<1>1. /\ place \in [Photos -> Nat] /\ primary \in SUBSET Photos /\ requests \in Nat /\ Highest \in Nat
      /\ \A x \in Photos : place[x] <= Highest
      /\ Primary
  BY PhotosCounted, FiniteAssumption DEF AlbumInv, CatalogueTypeOK, Highest
<1>2. requests' \in Nat /\ requests' >= requests /\ Highest' \in Nat /\ Highest' >= Highest
  BY <1>1, GoodsStep, PhotosCounted, FiniteAssumption DEF Highest
<1>3. ASSUME NEW x \in Photos, AddPhoto(a, x) PROVE Posed'
  <2>1. /\ Highest' = Highest + 1 /\ x \notin Present
        /\ place' = [place EXCEPT ![x] = LastPlace + 1]
        /\ primary' = IF Present = {} THEN {x} ELSE primary
    BY <1>1, <1>3, PhotosCounted DEF AddPhoto, Commit, Highest
  <2>2. LastPlace \in 0 .. Highest
    <3> DEFINE S == {place[y] : y \in Present}
    <3>1. S \in SUBSET (0 .. Highest) /\ (Present # {} => S # {})
      BY <1>1 DEF Present
    <3>2. Present # {} => Max(S) \in S
      <4> HIDE DEF S
      <4> QED
        BY <1>1, <3>1, MaxIsIn
    <3>3. LastPlace = (IF Present = {} THEN 0 ELSE Max(S))
      BY DEF LastPlace
    <3> HIDE DEF S
    <3> QED
      BY <1>1, <3>1, <3>2, <3>3
  <2>3. /\ place' \in [Photos -> Nat] /\ place'[x] = LastPlace + 1
        /\ \A y \in Photos \ {x} : place'[y] = place[y]
    BY <1>1, <2>1, <2>2
  <2>4. Present' = Present \cup {x}
    BY <2>2, <2>3 DEF Present
  <2>5. \A y \in Photos : place'[y] <= Highest'
    BY <1>1, <2>1, <2>2, <2>3
  <2>6. Primary' /\ primary' \in SUBSET Photos
    BY <1>1, <2>1, <2>4 DEF Primary
  <2> QED
    BY <2>3, <2>5, <2>6 DEF Posed
<1>4. ASSUME NEW x \in Photos, SetPrimary(a, x) PROVE Posed'
  <2>1. x \in Present /\ primary' = {x} /\ place' = place
    BY <1>4 DEF SetPrimary
  <2>2. Present' = Present
    BY <2>1 DEF Present
  <2> QED
    BY <1>1, <1>2, <2>1, <2>2 DEF Posed, Primary
<1>5. ASSUME NEW x \in Photos, DeletePhoto(a, x) PROVE Posed'
  <2>1. /\ x \in Present /\ place' = [place EXCEPT ![x] = 0]
        /\ x \in primary => primary' \in Heirs(x)
        /\ x \notin primary => primary' = primary
    BY <1>5 DEF DeletePhoto
  <2>2. place' \in [Photos -> Nat] /\ place'[x] = 0 /\ \A y \in Photos \ {x} : place'[y] = place[y]
    BY <1>1, <2>1
  <2>3. Present' = Present \ {x}
    BY <2>2 DEF Present
  <2>4. primary' \in Heirs(x) => (Present' = {} /\ primary' = {}) \/ \E y \in Present' : primary' = {y}
    BY <2>3 DEF Heirs
  <2>5. Primary' /\ primary' \in SUBSET Photos
    BY <1>1, <2>1, <2>3, <2>4 DEF Primary, Present
  <2>6. \A y \in Photos : place'[y] <= Highest'
    BY <1>1, <1>2, <2>2
  <2> QED
    BY <2>2, <2>5, <2>6 DEF Posed
<1>6. ASSUME ReorderPhotos(a) PROVE Posed'
  <2>9. PICK listed \in SUBSET Present \ {{}} :
          \E f \in Bijection(listed, 1 .. Cardinality(listed)) :
            place' = [x \in Photos |-> IF x \in listed THEN f[x] ELSE place[x]]
    BY <1>6 DEF ReorderPhotos
  <2>1. PICK f \in Bijection(listed, 1 .. Cardinality(listed)) :
          place' = [x \in Photos |-> IF x \in listed THEN f[x] ELSE place[x]]
    BY <2>9
  <2>2. primary' = primary
    BY <1>6 DEF ReorderPhotos
  <2>3. f \in [listed -> 1 .. Cardinality(listed)]
    BY DEF Bijection, Injection
  <2>4. Cardinality(listed) \in Nat /\ Cardinality(listed) <= Cardinality(Photos)
    BY FiniteAssumption, FS_Subset, FS_CardinalityType DEF Present
  <2>5. \A x \in listed : f[x] \in Nat /\ f[x] > 0 /\ f[x] <= Highest
    BY <1>1, <2>3, <2>4, PhotosCounted DEF Highest
  <2>6. place' \in [Photos -> Nat] /\ \A x \in Photos : place'[x] <= Highest
    BY <1>1, <2>1, <2>5
  <2>7. Present' = Present
    BY <1>1, <2>1, <2>5 DEF Present
  <2>8. \A x \in Photos : place'[x] <= Highest'
    BY <1>1, <1>2, <2>6
  <2>10. Primary'
    BY <1>1, <2>2, <2>7 DEF Primary
  <2> QED
    BY <1>1, <2>2, <2>6, <2>8, <2>10 DEF Posed
<1>7. ASSUME UNCHANGED album PROVE Posed'
  <2>1. place' = place /\ primary' = primary /\ Present' = Present
    BY <1>7 DEF album, Present
  <2> QED
    BY <1>1, <1>2, <2>1 DEF Posed, Primary
<1>9. \/ \E x \in Photos : AddPhoto(a, x) \/ SetPrimary(a, x) \/ DeletePhoto(a, x)
      \/ ReorderPhotos(a)
      \/ UNCHANGED album
  BY DEF CatalogueStep, Publish, Archive, OpenProduct, OpenPack, GiveUp,
     SaveProduct, SavePack, CreatePack, ArchivePack, RestorePack, ReorderProducts, ReorderPacks, UpdateAlt,
     tables
<1>8. Posed'
  BY <1>3, <1>4, <1>5, <1>6, <1>7, <1>9
<1> QED
  BY <1>8, GoodsStep, DeskStep DEF AlbumInv, Posed, CatalogueTypeOK

LEMMA AlbumStays ==
  ASSUME AlbumInv, UNCHANGED <<tables, requests>>,
         desk' \in [Admins -> {Idle, MustPurge} \cup Reading]
  PROVE  AlbumInv'
<1>1. UNCHANGED <<live, text, packs, price, order, place, primary, requests>>
  BY DEF tables, product, goods, album
<1>2. CatalogueTypeOK'
  BY <1>1 DEF AlbumInv, CatalogueTypeOK
<1>3. Present' = Present /\ ActivePacks' = ActivePacks /\ Highest' = Highest
  BY <1>1 DEF Present, ActivePacks, Highest
<1>4. Primary' /\ LiveHasPack'
  BY <1>1, <1>3 DEF AlbumInv, Primary, LiveHasPack
<1>5. \A x \in Photos : place'[x] <= Highest'
  BY <1>1, <1>3 DEF AlbumInv
<1> QED
  BY <1>2, <1>4, <1>5 DEF AlbumInv

\* What the steps of the caches and the wire leave alone.
LEMMA DeskOnly ==
  ASSUME CatalogueTypeOK, [Next]_vars, \A a \in Admins : ~CatalogueStep(a)
  PROVE  UNCHANGED <<tables, requests>> /\ desk' \in [Admins -> {Idle, MustPurge} \cup Reading]
<1>1. desk \in [Admins -> {Idle, MustPurge} \cup Reading]
  BY DEF CatalogueTypeOK
<1>2. ASSUME NEW a \in Admins, CutOff(a) \/ \E i \in Instances : Purge(a, i)
      PROVE  UNCHANGED <<tables, requests>> /\ desk' = [desk EXCEPT ![a] = Idle]
  BY <1>2 DEF CutOff, Purge
<1>3. ASSUME NEW i \in Watched,
             \/ Arrive(i) \/ Lose(i) \/ Disconnect(i) \/ Ready(i)
             \/ Expire(i) \/ LoadProducts(i) \/ LoadPacks(i) \/ LoadPhotos(i)
      PROVE  UNCHANGED <<tables, requests, desk>>
  BY <1>3 DEF Arrive, Lose, Disconnect, Ready, Expire, LoadProducts, LoadPacks, LoadPhotos
<1>4. UNCHANGED vars => UNCHANGED <<tables, requests, desk>>
  BY DEF vars
<1>5. \/ \E a \in Admins : CutOff(a) \/ \E i \in Instances : Purge(a, i)
      \/ UNCHANGED <<tables, requests, desk>>
  BY <1>3, <1>4 DEF Next, Edit
<1> HIDE DEF Reading, Idle, MustPurge
<1> QED
  BY <1>1, <1>2, <1>5

LEMMA AlbumHolds == Spec => []AlbumInv
<1>1. StorefrontInit => AlbumInv
  BY AlbumInit DEF StorefrontInit
<1>2. AlbumInv /\ [Next]_vars => AlbumInv'
  <2> SUFFICES ASSUME AlbumInv, [Next]_vars PROVE AlbumInv'
    OBVIOUS
  <2>1. CASE \E a \in Admins : CatalogueStep(a)
    BY <2>1, AlbumStep
  <2>2. CASE \A a \in Admins : ~CatalogueStep(a)
    <3>1. CatalogueTypeOK
      BY DEF AlbumInv
    <3>2. UNCHANGED <<tables, requests>> /\ desk' \in [Admins -> {Idle, MustPurge} \cup Reading]
      BY <2>2, <3>1, DeskOnly
    <3> QED
      BY <3>2, AlbumStays
  <2> QED
    BY <2>1, <2>2
<1> QED
  BY <1>1, <1>2, PTL DEF Spec

\* The tables are well formed in every reachable state.
THEOREM TablesTyped == Spec => []CatalogueTypeOK
<1>1. AlbumInv => CatalogueTypeOK
  BY DEF AlbumInv
<1> QED
  BY <1>1, AlbumHolds, PTL

\* What is on sale can be bought, whatever admins publish and archive at once.
THEOREM Sellable == Spec => []LiveHasPack
<1>1. AlbumInv => LiveHasPack
  BY DEF AlbumInv
<1> QED
  BY <1>1, AlbumHolds, PTL

\* One primary photograph while there is any.
THEOREM PrimaryKept == Spec => []OnePrimary
<1>1. AlbumInv => OnePrimary
  BY FS_EmptySet, FS_Singleton DEF AlbumInv, Primary, OnePrimary
<1> QED
  BY <1>1, AlbumHolds, PTL

(***************************************************************************)
(* Copies.                                                                 *)
(***************************************************************************)

Covered(i) == Due(i) \/ why[i] # "none"

\* What a load has read so far is what the tables say.
Follows(i) == live /\ (loading[i] = <<ProductRows>> \/ loading[i] = <<ProductRows, PackRows>>)

Told(i) == stale[i] \/ Covered(i) \/ copy[i] = Current
LoadsTrue(i) == loading[i] = NotLoading \/ crossed[i] \/ Covered(i) \/ Follows(i)

Shape ==
  /\ DOMAIN copy = Watched /\ DOMAIN stale = Watched /\ DOMAIN loading = Watched
  /\ DOMAIN crossed = Watched /\ DOMAIN coming = Watched /\ DOMAIN why = Watched

Marked(i) == crossed[i] => stale[i] /\ loading[i] # NotLoading

CopyInv == AlbumInv /\ Shape /\ \A i \in Watched : Told(i) /\ LoadsTrue(i) /\ Marked(i)

LEMMA SameTables ==
  ASSUME UNCHANGED tables
  PROVE  UNCHANGED <<Current, ProductRows, PackRows, PhotoRows, live>>
  BY DEF tables, product, goods, album, Current, ProductRows, PackRows, PhotoRows, ActivePacks, Page, Nothing

\* A step that leaves the copy of i alone, or marks it, and forgets no purge that
\* was due without marking it.
LEMMA Untouched ==
  ASSUME NEW i \in Watched, Told(i), LoadsTrue(i), UNCHANGED tables,
         copy'[i] = copy[i], loading'[i] = loading[i],
         stale[i] => stale'[i], crossed[i] => crossed'[i],
         Covered(i) => Covered(i)' \/ (stale'[i] /\ (loading[i] = NotLoading \/ crossed'[i]))
  PROVE  Told(i)' /\ LoadsTrue(i)'
<1>1. UNCHANGED <<Current, ProductRows, PackRows, live>>
  BY SameTables
<1>2. Told(i)'
  BY <1>1 DEF Told
<1>3. Follows(i) => Follows(i)'
  BY <1>1 DEF Follows
<1>4. LoadsTrue(i)'
  BY <1>3 DEF LoadsTrue, NotLoading
<1> QED
  BY <1>2, <1>4

LEMMA MarkFacts ==
  ASSUME NEW who, Mark(who), NEW i \in Watched
  PROVE  /\ copy'[i] = copy[i] /\ loading'[i] = loading[i]
         /\ stale[i] => stale'[i]
         /\ crossed[i] => crossed'[i]
         /\ i \in who => stale'[i] /\ (loading[i] = NotLoading \/ crossed'[i])
  BY DEF Mark

LEMMA BlameFacts ==
  ASSUME NEW who, NEW reason, Blame(who, reason), NEW i \in Watched
  PROVE  why'[i] = IF i \in who THEN reason ELSE why[i]
  BY DEF Blame

LEMMA CopyInit == StorefrontInit => CopyInv
<1> SUFFICES ASSUME StorefrontInit PROVE CopyInv
  OBVIOUS
<1>1. AlbumInv /\ Shape
  BY AlbumInit DEF StorefrontInit, Shape
<1>2. ASSUME NEW i \in Watched PROVE Told(i) /\ LoadsTrue(i) /\ Marked(i)
  <2>1. copy[i] = Current /\ loading[i] = NotLoading /\ ~crossed[i]
    BY DEF StorefrontInit
  <2> QED
    BY <2>1 DEF Told, LoadsTrue, Marked
<1> QED
  BY <1>1, <1>2 DEF CopyInv

LEMMA ShapeStep ==
  ASSUME Shape, [Next]_vars
  PROVE  Shape'
<1>1. ASSUME NEW a \in Admins, Edit(a) \/ CutOff(a) \/ \E i \in Instances : Purge(a, i) PROVE Shape'
  BY <1>1 DEF Shape, Edit, CutOff, Purge, Blame, Mark, caches, wire
<1>2. ASSUME NEW i \in Watched, Arrive(i) \/ Lose(i) \/ Disconnect(i) \/ Ready(i) PROVE Shape'
  BY <1>2 DEF Shape, Arrive, Lose, Disconnect, Ready, Blame, Mark, caches
<1>3. ASSUME NEW i \in Watched, Expire(i) \/ LoadProducts(i) \/ LoadPacks(i) \/ LoadPhotos(i) PROVE Shape'
  BY <1>3 DEF Shape, Expire, LoadProducts, LoadPacks, LoadPhotos, Blame, wire
<1>4. UNCHANGED vars => Shape'
  BY DEF Shape, vars, caches, wire
<1> QED
  BY <1>1, <1>2, <1>3, <1>4 DEF Next

LEMMA PageParts ==
  ASSUME NEW p, NEW v, NEW x, NEW q, NEW u, NEW y
  PROVE  /\ Page(p, v, x) # Nothing
         /\ Page(p, v, x) = Page(q, u, y) => p = q /\ v = u /\ x = y
<1>1. DOMAIN Page(p, v, x) # DOMAIN Nothing
  BY DEF Page, Nothing
<1>2. Page(p, v, x) = Page(q, u, y) => p = q /\ v = u /\ x = y
  BY DEF Page
<1> QED
  BY <1>1, <1>2

\* The mark a crossed load leaves behind.
LEMMA MarkedStep ==
  ASSUME Shape, [Next]_vars, NEW i \in Watched, Marked(i)
  PROVE  Marked(i)'
<1>1. ASSUME NEW who, Mark(who) PROVE Marked(i)'
  <2>1. /\ loading' = loading /\ stale'[i] = (stale[i] \/ i \in who)
        /\ crossed'[i] = (crossed[i] \/ (i \in who /\ loading[i] # NotLoading))
    BY <1>1 DEF Mark
  <2> QED
    BY <2>1 DEF Marked
<1>2. UNCHANGED caches => Marked(i)'
  BY DEF caches, Marked
<1>3. ASSUME NEW j \in Watched, Expire(j) PROVE Marked(i)'
  BY <1>3 DEF Expire, Shape, Marked
<1>4. ASSUME NEW j \in Watched, LoadProducts(j) PROVE Marked(i)'
  <2>1. loading[j] = NotLoading /\ crossed' = crossed
    BY <1>4 DEF LoadProducts
  <2>2. i # j => loading'[i] = loading[i] /\ stale'[i] = stale[i]
    BY <1>4 DEF LoadProducts, Shape
  <2> QED
    BY <2>1, <2>2 DEF Marked
<1>5. ASSUME NEW j \in Watched, LoadPacks(j) PROVE Marked(i)'
  <2>1. /\ stale' = stale /\ crossed' = crossed
        /\ loading' = [loading EXCEPT ![j] = <<loading[j][1], PackRows>>]
    BY <1>5 DEF LoadPacks
  <2>2. loading'[i] = loading[i] \/ loading'[i] = <<loading[j][1], PackRows>>
    BY <2>1 DEF Shape
  <2>3. <<loading[j][1], PackRows>> # NotLoading
    BY DEF NotLoading
  <2> QED
    BY <2>1, <2>2, <2>3 DEF Marked
<1>6. ASSUME NEW j \in Watched, LoadPhotos(j) PROVE Marked(i)'
  <2>1. crossed'[j] = FALSE
    BY <1>6 DEF LoadPhotos, Shape
  <2>2. i # j => loading'[i] = loading[i] /\ stale'[i] = stale[i] /\ crossed'[i] = crossed[i]
    BY <1>6 DEF LoadPhotos, Shape
  <2> QED
    BY <2>1, <2>2 DEF Marked
<1>7. \/ \E who : Mark(who)
      \/ UNCHANGED caches
      \/ \E j \in Watched : Expire(j) \/ LoadProducts(j) \/ LoadPacks(j) \/ LoadPhotos(j)
  <2>1. ASSUME NEW a \in Admins, NEW j \in Instances, Purge(a, j) PROVE \E who : Mark(who)
    BY <2>1, Zenon DEF Purge
  <2>2. ASSUME NEW j \in Watched, Arrive(j) PROVE \E who : Mark(who)
    BY <2>2, Zenon DEF Arrive
  <2>3. ASSUME NEW a \in Admins, Edit(a) \/ CutOff(a) PROVE UNCHANGED caches
    BY <2>3, Zenon DEF Edit, CutOff
  <2>4. ASSUME NEW j \in Watched, Lose(j) \/ Disconnect(j) \/ Ready(j) PROVE UNCHANGED caches
    BY <2>4, Zenon DEF Lose, Disconnect, Ready
  <2>5. UNCHANGED vars => UNCHANGED caches
    BY DEF vars
  <2> QED
    BY <2>1, <2>2, <2>3, <2>4, <2>5 DEF Next
<1> QED
  BY <1>1, <1>2, <1>3, <1>4, <1>5, <1>6, <1>7

LEMMA EditStep ==
  ASSUME CopyInv, NEW a \in Admins, Edit(a), NEW i \in Watched
  PROVE  Told(i)' /\ LoadsTrue(i)'
<1>1. /\ UNCHANGED <<copy, stale, loading, crossed, coming>>
      /\ Told(i) /\ LoadsTrue(i) /\ CatalogueTypeOK /\ CatalogueStep(a)
  BY DEF Edit, caches, wire, CopyInv, AlbumInv
<1>2. Due(i) => Due(i)'
  BY <1>1, DeskStep DEF Due
<1>3. CASE Silent(a)
  <2>1. why'[i] = "silent"
    BY <1>3, BlameFacts DEF Edit
  <2> QED
    BY <2>1 DEF Told, LoadsTrue, Covered
<1>4. CASE desk'[a] = MustPurge
  BY <1>4 DEF Told, LoadsTrue, Covered, Due
<1>5. CASE ~Silent(a) /\ desk'[a] # MustPurge
  <2>1. Current' = Current /\ why' = why
    BY <1>5 DEF Silent, Edit
  <2>2. Covered(i) => Covered(i)'
    BY <1>2, <2>1 DEF Covered
  <2>3. Told(i)'
    BY <1>1, <2>1, <2>2 DEF Told
  <2>4. live => live' /\ ProductRows' = ProductRows /\ PackRows' = PackRows
    <3> SUFFICES ASSUME live PROVE live' /\ ProductRows' = ProductRows /\ PackRows' = PackRows
      OBVIOUS
    <3>1. Current = Page(ProductRows, PackRows, PhotoRows)
      BY DEF Current
    <3>2. Current' = IF live' THEN Page(ProductRows', PackRows', PhotoRows') ELSE Nothing
      BY DEF Current, Page, Nothing
    <3>3. Current # Nothing
      BY <3>1, PageParts
    <3>4. live'
      BY <2>1, <3>2, <3>3
    <3>5. Page(ProductRows', PackRows', PhotoRows') = Page(ProductRows, PackRows, PhotoRows)
      BY <2>1, <3>1, <3>2, <3>4
    <3> QED
      BY <3>4, <3>5, PageParts
  <2>5. Follows(i) => Follows(i)'
    BY <1>1, <2>4 DEF Follows
  <2>6. LoadsTrue(i)'
    BY <1>1, <2>2, <2>5 DEF LoadsTrue, NotLoading
  <2> QED
    BY <2>3, <2>6
<1> QED
  BY <1>3, <1>4, <1>5

LEMMA WireStep ==
  ASSUME CopyInv, NEW i \in Watched, NEW j \in Watched,
         Arrive(j) \/ Lose(j) \/ Disconnect(j) \/ Ready(j) \/ Expire(j)
  PROVE  Told(i)' /\ LoadsTrue(i)'
<1>1. Told(i) /\ LoadsTrue(i) /\ Shape
  BY DEF CopyInv
<1>2. UNCHANGED <<tables, desk>>
  BY DEF Arrive, Lose, Disconnect, Ready, Expire
<1>3. CASE Arrive(j)
  <2>1. Mark({j}) /\ why' = why /\ coming' = [coming EXCEPT ![j] = FALSE]
    BY <1>3 DEF Arrive
  <2>2. i # j => (Covered(i) => Covered(i)')
    BY <1>1, <1>2, <2>1 DEF Covered, Due, Shape
  <2>3. Covered(i) => Covered(i)' \/ (stale'[i] /\ (loading[i] = NotLoading \/ crossed'[i]))
    BY <2>1, <2>2, MarkFacts
  <2> QED
    BY <1>1, <1>2, <2>1, <2>3, MarkFacts, Untouched
<1>4. CASE Lose(j)
  <2>1. UNCHANGED <<copy, stale, loading, crossed>> /\ Blame({j}, "lost") /\ coming' = [coming EXCEPT ![j] = FALSE]
    BY <1>4 DEF Lose, caches
  <2>2. Covered(i) => Covered(i)'
    BY <1>1, <1>2, <2>1, BlameFacts DEF Covered, Due, Shape
  <2> QED
    BY <1>1, <1>2, <2>1, <2>2, Untouched
<1>5. CASE Disconnect(j) \/ Ready(j)
  <2>1. UNCHANGED <<copy, stale, loading, crossed, coming, why>>
    BY <1>5 DEF Disconnect, Ready, caches
  <2>2. Covered(i) => Covered(i)'
    BY <1>2, <2>1 DEF Covered, Due
  <2> QED
    BY <1>1, <1>2, <2>1, <2>2, Untouched
<1>6. CASE Expire(j)
  <2>1. /\ UNCHANGED <<copy, loading, crossed, coming, why>>
        /\ stale[i] => stale'[i]
    BY <1>1, <1>6 DEF Expire, wire, Shape
  <2>2. Covered(i) => Covered(i)'
    BY <1>2, <2>1 DEF Covered, Due
  <2> QED
    BY <1>1, <1>2, <2>1, <2>2, Untouched
<1> QED
  BY <1>3, <1>4, <1>5, <1>6

LEMMA PurgeStep ==
  ASSUME CopyInv, NEW i \in Watched, NEW a \in Admins, CutOff(a) \/ \E k \in Instances : Purge(a, k)
  PROVE  Told(i)' /\ LoadsTrue(i)'
<1>1. Told(i) /\ LoadsTrue(i) /\ Shape
  BY DEF CopyInv
<1>2. CASE CutOff(a)
  <2>1. UNCHANGED <<tables, copy, stale, loading, crossed>> /\ Blame(Watched, "cut")
    BY <1>2 DEF CutOff, caches
  <2>2. Covered(i)'
    BY <2>1, BlameFacts DEF Covered
  <2> QED
    BY <1>1, <2>1, <2>2, Untouched
<1>3. ASSUME NEW k \in Instances, Purge(a, k)
      PROVE  Told(i)' /\ LoadsTrue(i)'
  <2>1. UNCHANGED tables /\ Mark({k})
    BY <1>3 DEF Purge
  <2>2. PICK reached \in BOOLEAN :
          /\ coming' = [j \in Watched |-> coming[j] \/ (reached /\ j \in Hearers(k))]
          /\ Blame({j \in Watched \ {k} : reached => ~listening[j]}, "lost")
    BY <1>3 DEF Purge
  <2>3. i # k /\ reached /\ listening[i] => Covered(i)'
    BY <2>2 DEF Covered, Due, Hearers
  <2>4. i # k /\ ~(reached /\ listening[i]) => Covered(i)'
    BY <2>2, BlameFacts DEF Covered
  <2>5. i = k => stale'[i] /\ (loading[i] = NotLoading \/ crossed'[i])
    BY <2>1, MarkFacts
  <2> QED
    BY <1>1, <2>1, <2>3, <2>4, <2>5, MarkFacts, Untouched
<1> QED
  BY <1>2, <1>3

LEMMA LoadStep ==
  ASSUME CopyInv, NEW i \in Watched, NEW j \in Watched,
         LoadProducts(j) \/ LoadPacks(j) \/ LoadPhotos(j)
  PROVE  Told(i)' /\ LoadsTrue(i)'
<1>1. Told(i) /\ LoadsTrue(i) /\ Marked(i) /\ Shape
  BY DEF CopyInv
<1>2. UNCHANGED <<tables, desk, coming>>
  BY DEF LoadProducts, LoadPacks, LoadPhotos, wire
<1>3. UNCHANGED <<Current, ProductRows, PackRows, PhotoRows, live>>
  BY <1>2, SameTables
<1>4. why'[i] # "none" <=> why[i] # "none" => (Covered(i) <=> Covered(i)')
  BY <1>2 DEF Covered, Due
<1>5. CASE i # j
  <2>1. /\ copy'[i] = copy[i] /\ loading'[i] = loading[i] /\ stale'[i] = stale[i]
        /\ crossed'[i] = crossed[i] /\ why'[i] = why[i]
    <3>1. ASSUME LoadProducts(j) PROVE <2>1!:
      BY <1>1, <1>5, <3>1 DEF LoadProducts, Shape
    <3>2. ASSUME LoadPacks(j) PROVE <2>1!:
      BY <1>1, <1>5, <3>2 DEF LoadPacks, Shape
    <3>3. ASSUME LoadPhotos(j) PROVE <2>1!:
      BY <1>1, <1>5, <3>3, BlameFacts DEF LoadPhotos, Shape
    <3> QED
      BY <3>1, <3>2, <3>3
  <2> QED
    BY <1>1, <1>2, <1>4, <2>1, Untouched
<1>6. CASE i = j /\ LoadProducts(j)
  <2>1. stale[i] /\ loading[i] = NotLoading
    BY <1>6 DEF LoadProducts
  <2>2. CASE live
    <3>1. loading'[i] = <<ProductRows>> /\ stale'[i]
      BY <1>1, <1>6, <2>1, <2>2 DEF LoadProducts, Shape
    <3> QED
      BY <1>3, <2>2, <3>1 DEF Told, LoadsTrue, Follows
  <2>3. CASE ~live
    <3>1. copy'[i] = Nothing /\ loading'[i] = NotLoading /\ Current = Nothing
      BY <1>1, <1>6, <2>1, <2>3 DEF LoadProducts, Shape, Current
    <3> QED
      BY <1>3, <3>1 DEF Told, LoadsTrue
  <2> QED
    BY <2>2, <2>3
<1>7. CASE i = j /\ LoadPacks(j)
  <2>1. /\ Len(loading[i]) = 1 /\ loading' = [loading EXCEPT ![i] = <<loading[i][1], PackRows>>]
        /\ UNCHANGED <<copy, stale, crossed, why>>
    BY <1>7 DEF LoadPacks
  <2>2. loading'[i] = <<loading[i][1], PackRows>>
    BY <1>1, <2>1 DEF Shape
  <2>3. Told(i)'
    BY <1>1, <1>3, <1>4, <2>1 DEF Told
  <2>4. loading[i] # NotLoading
    BY <2>1 DEF NotLoading
  <2>5. Follows(i) => Follows(i)'
    <3>1. Follows(i) => loading[i] = <<ProductRows>>
      BY <2>1 DEF Follows
    <3> QED
      BY <1>3, <2>2, <3>1 DEF Follows
  <2> QED
    BY <1>1, <1>4, <2>1, <2>3, <2>4, <2>5 DEF LoadsTrue
<1>8. CASE i = j /\ LoadPhotos(j)
  <2>1. Len(loading[i]) = 2 /\ loading'[i] = NotLoading
    BY <1>1, <1>8 DEF LoadPhotos, Shape
  <2>2. copy'[i] = Page(loading[i][1], loading[i][2], PhotoRows)
    BY <1>1, <1>8 DEF LoadPhotos, Shape
  <2>3. loading[i] # NotLoading /\ (Follows(i) => loading[i] = <<ProductRows, PackRows>> /\ live)
    <3> DEFINE half == <<ProductRows>>
    <3>1. Len(<<>>) # Len(loading[i]) /\ Len(half) # Len(loading[i])
      BY <2>1
    <3> HIDE DEF half
    <3>2. loading[i] # <<>> /\ loading[i] # half
      BY <3>1, Zenon
    <3> QED
      BY <3>2 DEF half, NotLoading, Follows
  <2>4. Follows(i) => copy'[i] = Current'
    <3>1. Follows(i) => copy'[i] = Page(ProductRows, PackRows, PhotoRows)
      BY <2>2, <2>3
    <3> QED
      BY <1>3, <2>3, <3>1 DEF Current
  <2>5. CASE crossed[i] /\ UNCHANGED <<stale, why>>
    <3>1. stale'[i]
      BY <1>1, <2>5 DEF Marked
    <3> QED
      BY <2>1, <3>1 DEF Told, LoadsTrue
  <2>6. CASE IF crossed[i] THEN Blame({i}, "crossed") ELSE UNCHANGED why
    <3>1. crossed[i] => Covered(i)'
      BY <2>6, BlameFacts DEF Covered
    <3>2. ~crossed[i] => why' = why
      BY <2>6
    <3> QED
      BY <1>1, <1>4, <2>1, <2>3, <2>4, <3>1, <3>2 DEF Told, LoadsTrue
  <2> QED
    BY <1>8, <2>5, <2>6 DEF LoadPhotos
<1> QED
  BY <1>5, <1>6, <1>7, <1>8

LEMMA CopyStep == CopyInv /\ [Next]_vars => CopyInv'
<1> SUFFICES ASSUME CopyInv, [Next]_vars PROVE CopyInv'
  OBVIOUS
<1>1. AlbumInv'
  <2>1. CASE \E a \in Admins : CatalogueStep(a)
    BY <2>1, AlbumStep DEF CopyInv
  <2>2. CASE \A a \in Admins : ~CatalogueStep(a)
    <3>1. UNCHANGED <<tables, requests>> /\ desk' \in [Admins -> {Idle, MustPurge} \cup Reading]
      BY <2>2, DeskOnly DEF CopyInv, AlbumInv
    <3> QED
      BY <3>1, AlbumStays DEF CopyInv
  <2> QED
    BY <2>1, <2>2
<1>2. Shape'
  BY ShapeStep DEF CopyInv
<1>3. ASSUME NEW i \in Watched PROVE Told(i)' /\ LoadsTrue(i)' /\ Marked(i)'
  <2>1. Marked(i)'
    BY MarkedStep DEF CopyInv
  <2>2. CASE UNCHANGED vars
    <3>1. UNCHANGED <<tables, desk, copy, stale, loading, crossed, coming, why>>
      BY <2>2 DEF vars, caches, wire
    <3>2. Covered(i) => Covered(i)'
      BY <3>1 DEF Covered, Due
    <3> QED
      BY <2>1, <3>1, <3>2, Untouched DEF CopyInv
  <2>3. CASE Next
    BY <2>1, <2>3, EditStep, WireStep, PurgeStep, LoadStep DEF Next
  <2> QED
    BY <2>2, <2>3
<1> QED
  BY <1>1, <1>2, <1>3 DEF CopyInv

\* A copy is as the tables are, or is marked, or is about to be, or has one of the
\* four excuses: for any number of instances, admins and edits.
THEOREM Excused == Spec => []StaleHasACause
<1>1. CopyInv => StaleHasACause
  BY DEF CopyInv, Told, Covered, StaleHasACause
<1> QED
  BY <1>1, CopyInit, CopyStep, PTL DEF Spec

(***************************************************************************)
(* The rate limiter, for any number of processes, keys and limits.         *)
(* Solvent: what the watched bucket has granted and what it could grant    *)
(* now have both come from its limit, from what was forgotten, and from    *)
(* the time that has passed.                                               *)
(***************************************************************************)

\* A bucket as the stores keep it.
Bucket(k) == {b \in [credit : Nat, at : 0 .. now] : b.credit <= Full(k)}

LEMMA FullFacts ==
  ASSUME NEW k \in Keys
  PROVE  /\ Limit[k] \in Nat \ {0} /\ Window[k] \in Nat \ {0} /\ Full(k) \in Nat \ {0}
         /\ Window[k] <= Full(k) /\ 2 * Window[k] * Limit[k] >= Full(k)
<1>1. Limit[k] \in Nat \ {0} /\ Window[k] \in Nat \ {0}
  BY BucketAssumption
<1>2. ASSUME NEW l \in Nat \ {0}, NEW w \in Nat \ {0}
      PROVE  l * w \in Nat \ {0} /\ w <= l * w /\ 2 * w * l >= l * w
  OBVIOUS
<1> QED
  BY <1>1, <1>2 DEF Full

\* What has refilled lies between nothing and a full bucket.
LEMMA RefilledFacts ==
  ASSUME now \in Nat, NEW k \in Keys, NEW b \in Bucket(k)
  PROVE  /\ Earned(k, b) \in Nat /\ Refilled(k, b) \in 0 .. Full(k)
         /\ now - b.at >= 2 * Window[k] => Refilled(k, b) = Full(k)
<1>1. /\ b.credit \in Nat /\ b.at \in 0 .. now
  BY DEF Bucket
<1>2. ASSUME NEW l \in Nat \ {0}, NEW d \in Nat, NEW w \in Nat \ {0}
      PROVE  d * l \in Nat /\ (d >= 2 * w => d * l >= 2 * w * l)
  OBVIOUS
<1>3. now - b.at \in Nat
  BY <1>1
<1>4. (now - b.at) * Limit[k] \in Nat
  BY <1>2, <1>3, FullFacts
<1>5. now - b.at >= 2 * Window[k] => (now - b.at) * Limit[k] >= 2 * Window[k] * Limit[k]
  BY <1>2, <1>3, FullFacts
<1>6. Earned(k, b) \in Nat
  BY <1>1, <1>4 DEF Earned
<1>7. now - b.at >= 2 * Window[k] => Earned(k, b) >= Full(k)
  <2> DEFINE earned == (now - b.at) * Limit[k]
             twice  == 2 * Window[k] * Limit[k]
  <2>1. twice \in Nat
    BY FullFacts
  <2> HIDE DEF earned, twice
  <2>2. twice >= Full(k) /\ Full(k) \in Nat
    BY FullFacts DEF twice
  <2>3. now - b.at >= 2 * Window[k] => earned >= twice
    BY <1>5 DEF earned, twice
  <2>4. earned \in Nat /\ Earned(k, b) = b.credit + earned
    BY <1>4 DEF earned, Earned
  <2> QED
    BY <1>1, <2>1, <2>2, <2>3, <2>4
<1>8. Full(k) \in Nat
  BY FullFacts
<1> QED
  BY <1>6, <1>7, <1>8 DEF Refilled

\* A bucket that is not there is full.
LEMMA UnusedFacts ==
  ASSUME now \in Nat, NEW k \in Keys
  PROVE  Unused(k) \in Bucket(k) /\ Refilled(k, Unused(k)) = Full(k)
<1>1. Unused(k) \in Bucket(k)
  BY FullFacts DEF Unused, Bucket
<1>2. Earned(k, Unused(k)) >= Full(k)
  <2>1. now * Limit[k] \in Nat /\ now - 0 = now /\ Full(k) \in Nat
    BY FullFacts
  <2> QED
    BY <2>1 DEF Earned, Unused
<1>3. Earned(k, Unused(k)) \in Nat /\ Full(k) \in Nat
  BY <1>1, RefilledFacts, FullFacts
<1> QED
  BY <1>1, <1>2, <1>3 DEF Refilled

\* A check writes back what had refilled, less the token it grants.
LEMMA TakenFacts ==
  ASSUME now \in Nat, NEW k \in Keys, NEW b \in Bucket(k)
  PROVE  /\ Taken(k, b) \in Bucket(k)
         /\ Refilled(k, Taken(k, b)) = Refilled(k, b) - (IF Grants(k, b) THEN Window[k] ELSE 0)
<1> DEFINE left == Refilled(k, b) - (IF Grants(k, b) THEN Window[k] ELSE 0)
<1>1. Refilled(k, b) \in 0 .. Full(k) /\ Full(k) \in Nat /\ Window[k] \in Nat /\ Limit[k] \in Nat
  BY RefilledFacts, FullFacts
<1>2. left \in 0 .. Full(k)
  BY <1>1 DEF Grants
<1>3. Taken(k, b) = [credit |-> left, at |-> now]
  BY <1>1 DEF Taken
<1> HIDE DEF left
<1>4. Taken(k, b) \in Bucket(k)
  BY <1>1, <1>2, <1>3 DEF Bucket
<1>5. Earned(k, Taken(k, b)) = left
  <2>1. (now - now) * Limit[k] = 0
    BY <1>1
  <2> QED
    BY <1>2, <1>3, <2>1 DEF Earned
<1>6. Refilled(k, Taken(k, b)) = left
  BY <1>1, <1>2, <1>5 DEF Refilled
<1> QED
  BY <1>4, <1>6 DEF left

\* Redis drops only buckets that have filled up, so nothing is gained by it.
LEMMA InRedisFacts ==
  ASSUME LimiterTypeOK, NEW k \in Keys
  PROVE  InRedis(k) \in Bucket(k) /\ Refilled(k, InRedis(k)) = Refilled(k, store[Redis][k])
<1>1. now \in Nat /\ store[Redis][k] \in Bucket(k)
  BY BucketAssumption DEF LimiterTypeOK, Stores, Bucket
<1> QED
  BY <1>1, RefilledFacts, UnusedFacts DEF InRedis

\* Before a bucket is watched nothing is counted.
Fresh == watched = NoBucket => spent = 0 /\ forgotten = 0

\* What the watched bucket has granted and what it could grant now have both come
\* from its limit, from what time has refilled and from what was forgotten.
Solvent ==
  watched # NoBucket =>
    LET k == watched.key IN
      spent * Window[k] + Refilled(k, store[watched.store][k])
        <= Limit[k] * (Window[k] * (1 + forgotten) + now - watched.since)

LimiterInv == LimiterTypeOK /\ Fresh /\ Solvent

LEMMA LimiterTypes ==
  ASSUME LimiterTypeOK
  PROVE  /\ now \in Nat /\ losses \in Nat /\ spent \in Nat /\ forgotten \in Nat
         /\ \A s \in Stores, k \in Keys : store[s][k] \in Bucket(k)
         /\ watched # NoBucket =>
              watched.store \in Stores /\ watched.key \in Keys /\ watched.since \in 0 .. now
  BY BucketAssumption DEF LimiterTypeOK, Bucket

LEMMA LimiterInitOk == LimiterInit => LimiterInv
<1> SUFFICES ASSUME LimiterInit
             PROVE  LimiterInv
  OBVIOUS
<1>1. \A k \in Keys : Unused(k) \in [credit : Nat, at : 0 .. 0] /\ Unused(k).credit <= Full(k)
  <2> SUFFICES ASSUME NEW k \in Keys
               PROVE  Unused(k) \in [credit : Nat, at : 0 .. 0] /\ Unused(k).credit <= Full(k)
    OBVIOUS
  <2>1. Full(k) \in Nat
    BY FullFacts
  <2> QED
    BY <2>1 DEF Unused
<1>2. store \in [Stores -> [Keys -> [credit : Nat, at : 0 .. now]]]
  BY <1>1 DEF LimiterInit
<1>3. \A s \in Stores, k \in Keys : store[s][k].credit <= Full(k)
  BY <1>1 DEF LimiterInit
<1>4. LimiterTypeOK
  BY <1>2, <1>3, BucketAssumption DEF LimiterInit, LimiterTypeOK
<1> QED
  BY <1>4 DEF LimiterInit, LimiterInv, Fresh, Solvent

LEMMA Spending ==
  ASSUME NEW l \in Nat, NEW w \in Nat, NEW t \in Int, NEW sp \in Nat, NEW f \in Nat, NEW r \in Int, NEW q \in Int,
         sp * w + r <= l * (w * (1 + f) + t)
  PROVE  /\ q <= r => sp * w + q <= l * (w * (1 + f) + t)
         /\ q <= r - w => (sp + 1) * w + q <= l * (w * (1 + f) + t)
         /\ q <= r + l * w => sp * w + q <= l * (w * (1 + (f + 1)) + t)
         /\ q <= r + l * w - w => (sp + 1) * w + q <= l * (w * (1 + (f + 1)) + t)
         /\ q <= r + l => sp * w + q <= l * (w * (1 + f) + (t + 1))
<1>1. /\ sp * w \in Int /\ (sp + 1) * w = sp * w + w
      /\ l * (w * (1 + f) + t) \in Int /\ l * w \in Int
      /\ l * (w * (1 + (f + 1)) + t) = l * (w * (1 + f) + t) + l * w
      /\ l * (w * (1 + f) + (t + 1)) = l * (w * (1 + f) + t) + l
  OBVIOUS
<1> DEFINE a == sp * w
           b == (sp + 1) * w
           c == l * (w * (1 + f) + t)
           d == l * (w * (1 + (f + 1)) + t)
           e == l * (w * (1 + f) + (t + 1))
           full == l * w
<1>2. a \in Int /\ b = a + w /\ c \in Int /\ full \in Int /\ d = c + full /\ e = c + l /\ a + r <= c
  BY <1>1
<1> HIDE DEF a, b, c, d, e, full
<1>3. /\ q <= r => a + q <= c
      /\ q <= r - w => b + q <= c
      /\ q <= r + full => a + q <= d
      /\ q <= r + full - w => b + q <= d
      /\ q <= r + l => a + q <= e
  BY <1>2
<1> QED
  BY <1>3 DEF a, b, c, d, e, full

\* The watched bucket gives up what it grants, and gains at most a full bucket when
\* it is forgotten.
LEMMA MoveKeepsSolvent ==
  ASSUME LimiterTypeOK, LimiterTypeOK', Fresh, Solvent, UNCHANGED <<watched, now>>,
         NEW g \in {0, 1}, NEW d \in {0, 1},
         watched = NoBucket => g = 0 /\ d = 0,
         watched # NoBucket =>
           LET k == watched.key IN
             Refilled(k, store'[watched.store][k])
               <= Refilled(k, store[watched.store][k]) + d * Full(k) - g * Window[k],
         spent' = spent + g, forgotten' = forgotten + d
  PROVE  Fresh' /\ Solvent'
<1>1. Fresh'
  BY DEF Fresh
<1>2. ASSUME watched # NoBucket
      PROVE  LET k == watched.key IN
               spent' * Window[k] + Refilled(k, store'[watched.store][k])
                 <= Limit[k] * (Window[k] * (1 + forgotten') + now - watched.since)
  <2> DEFINE k == watched.key
             r == Refilled(k, store[watched.store][k])
             q == Refilled(k, store'[watched.store][k])
             t == now - watched.since
  <2>1. /\ k \in Keys /\ store[watched.store][k] \in Bucket(k) /\ store'[watched.store][k] \in Bucket(k)
        /\ now \in Nat /\ spent \in Nat /\ forgotten \in Nat /\ t \in Int /\ watched.since \in Int
    BY <1>2, LimiterTypes DEF LimiterTypeOK, Bucket
  <2>2. r \in Int /\ q \in Int /\ Full(k) \in Int
    BY <2>1, RefilledFacts, FullFacts
  <2>3. Limit[k] \in Nat /\ Window[k] \in Nat /\ Full(k) = Limit[k] * Window[k]
    BY <2>1, FullFacts DEF Full
  <2>4. spent * Window[k] + r <= Limit[k] * (Window[k] * (1 + forgotten) + now - watched.since)
    BY <1>2 DEF Solvent
  <2>5. q <= r + d * Full(k) - g * Window[k]
    BY <1>2
  <2> HIDE DEF k, r, q, t
  <2>6. \A x \in Int : x + now - watched.since = x + t
    BY <2>1 DEF t
  <2>7. \A f \in Nat : Window[k] * (1 + f) \in Int
    BY <2>3
  <2>8. spent * Window[k] + r <= Limit[k] * (Window[k] * (1 + forgotten) + t)
    BY <2>1, <2>4, <2>6, <2>7
  <2>9. spent' * Window[k] + q <= Limit[k] * (Window[k] * (1 + forgotten') + t)
    <3>1. CASE g = 0 /\ d = 0
      <4>1. q <= r
        BY <2>2, <2>3, <2>5, <3>1
      <4> QED
        BY <2>1, <2>2, <2>3, <2>8, <3>1, <4>1, Spending
    <3>2. CASE g = 1 /\ d = 0
      <4>1. q <= r - Window[k]
        BY <2>2, <2>3, <2>5, <3>2
      <4> QED
        BY <2>1, <2>2, <2>3, <2>8, <3>2, <4>1, Spending
    <3>3. CASE g = 0 /\ d = 1
      <4>1. q <= r + Full(k)
        BY <2>2, <2>3, <2>5, <3>3
      <4> QED
        BY <2>1, <2>2, <2>3, <2>8, <3>3, <4>1, Spending
    <3>4. CASE g = 1 /\ d = 1
      <4>1. q <= r + Full(k) - Window[k]
        BY <2>2, <2>3, <2>5, <3>4
      <4> QED
        BY <2>1, <2>2, <2>3, <2>8, <3>4, <4>1, Spending
    <3> QED
      BY <3>1, <3>2, <3>3, <3>4
  <2>10. spent' * Window[k] + q <= Limit[k] * (Window[k] * (1 + forgotten') + now - watched.since)
    <3>1. forgotten' \in Nat
      BY <2>1
    <3> QED
      BY <2>6, <2>7, <2>9, <3>1
  <2> QED
    BY <2>10 DEF k, q
<1> QED
  BY <1>1, <1>2 DEF Solvent, Refilled, Earned

LEMMA CheckInRedisKeeps ==
  ASSUME LimiterInv, NEW k \in Keys, CheckInRedis(k)
  PROVE  LimiterInv'
<1> DEFINE b == InRedis(k)
<1>1. /\ store' = [store EXCEPT ![Redis] = [store[Redis] EXCEPT ![k] = Taken(k, b)]]
      /\ spent' = IF IsWatched(Redis, k) /\ Grants(k, b) THEN spent + 1 ELSE spent
      /\ UNCHANGED <<now, swept, losses, watched, forgotten>>
  BY DEF CheckInRedis, Spend, LimiterInv, LimiterTypeOK, Stores
<1>2. /\ LimiterTypeOK /\ now \in Nat /\ Redis \in Stores /\ b \in Bucket(k)
      /\ Refilled(k, b) = Refilled(k, store[Redis][k])
  BY LimiterTypes, InRedisFacts DEF LimiterInv, Stores
<1> HIDE DEF b
<1>3. /\ Taken(k, b) \in Bucket(k)
      /\ Refilled(k, Taken(k, b)) = Refilled(k, b) - (IF Grants(k, b) THEN Window[k] ELSE 0)
  BY <1>2, TakenFacts
<1>4. LimiterTypeOK'
  <2>1. Taken(k, b) \in [credit : Nat, at : 0 .. now] /\ Taken(k, b).credit <= Full(k)
    BY <1>3 DEF Bucket
  <2>2. store' \in [Stores -> [Keys -> [credit : Nat, at : 0 .. now]]]
    BY <1>1, <1>2, <2>1 DEF LimiterTypeOK
  <2>3. \A s \in Stores, j \in Keys : store'[s][j].credit <= Full(j)
    BY <1>1, <1>2, <2>1 DEF LimiterTypeOK
  <2>4. spent' \in Nat
    BY <1>1, <1>2 DEF LimiterTypeOK
  <2> QED
    BY <1>1, <1>2, <2>2, <2>3, <2>4 DEF LimiterTypeOK, Full
<1> DEFINE g == IF IsWatched(Redis, k) /\ Grants(k, b) THEN 1 ELSE 0
<1>5. spent' = spent + g /\ forgotten' = forgotten + 0 /\ g \in {0, 1}
  BY <1>1, <1>2 DEF LimiterTypeOK
<1>6. ASSUME watched # NoBucket
      PROVE  Refilled(watched.key, store'[watched.store][watched.key])
               <= Refilled(watched.key, store[watched.store][watched.key]) + 0 * Full(watched.key) - g * Window[watched.key]
  <2>1. /\ watched.store \in Stores /\ watched.key \in Keys
        /\ Window[watched.key] \in Nat /\ Full(watched.key) \in Nat
        /\ Refilled(watched.key, store[watched.store][watched.key]) \in Nat
    BY <1>2, <1>6, LimiterTypes, FullFacts, RefilledFacts
  <2>2. CASE watched.store = Redis /\ watched.key = k
    <3>1. store'[Redis][k] = Taken(k, b)
      BY <1>1, <1>2 DEF LimiterTypeOK
    <3>2. g = IF Grants(k, b) THEN 1 ELSE 0
      BY <1>6, <2>2 DEF IsWatched
    <3> QED
      BY <1>2, <1>3, <2>1, <2>2, <3>1, <3>2
  <2>3. CASE ~(watched.store = Redis /\ watched.key = k)
    <3>1. store'[watched.store][watched.key] = store[watched.store][watched.key]
      BY <1>1, <1>2, <2>1, <2>3 DEF LimiterTypeOK
    <3>2. g = 0
      BY <2>3 DEF IsWatched
    <3> QED
      BY <2>1, <3>1, <3>2
  <2> QED
    BY <2>2, <2>3
<1>7. watched = NoBucket => g = 0
  BY DEF IsWatched
<1> HIDE DEF g
<1>8. Fresh' /\ Solvent'
  BY <1>1, <1>2, <1>4, <1>5, <1>6, <1>7, MoveKeepsSolvent DEF LimiterInv
<1> QED
  BY <1>4, <1>8 DEF LimiterInv

\* The sweep makes a full bucket of what it drops.
LEMMA SweptFacts ==
  ASSUME LimiterTypeOK, NEW i \in Processes, NEW k \in Keys
  PROVE  /\ \A j \in Keys : AfterSweep(i, k)[j] \in Bucket(j)
         /\ \A j \in Keys : AfterSweep(i, k)[j] = IF j \in Drops(i, k) THEN Unused(j) ELSE store[i][j]
<1>1. \A j \in Keys : AfterSweep(i, k)[j] = IF j \in Drops(i, k) THEN Unused(j) ELSE store[i][j]
  BY DEF AfterSweep
<1>2. now \in Nat /\ i \in Stores
  BY LimiterTypes DEF Stores
<1> QED
  BY <1>1, <1>2, LimiterTypes, UnusedFacts

LEMMA CheckInMemoryKeeps ==
  ASSUME LimiterInv, NEW i \in Processes, NEW k \in Keys, NEW ran \in BOOLEAN, CheckInMemory(i, k, ran)
  PROVE  LimiterInv'
<1> DEFINE kept == AfterSweep(i, k)
           b    == InRedis(k)
           mine == [kept EXCEPT ![k] = Taken(k, kept[k])]
           rest == [store[Redis] EXCEPT ![k] = IF ran THEN Taken(k, b) ELSE store[Redis][k]]
           grants == \/ IsWatched(i, k) /\ Grants(k, kept[k])
                     \/ IsWatched(Redis, k) /\ ran /\ Grants(k, b)
<1>1. /\ LimiterTypeOK /\ now \in Nat /\ Redis \in Stores /\ i \in Stores /\ i # Redis
      /\ b \in Bucket(k) /\ Refilled(k, b) = Refilled(k, store[Redis][k])
      /\ \A j \in Keys : kept[j] \in Bucket(j)
      /\ \A j \in Keys : kept[j] = IF j \in Drops(i, k) THEN Unused(j) ELSE store[i][j]
      /\ DOMAIN kept = Keys /\ store \in [Stores -> [Keys -> [credit : Nat, at : 0 .. now]]]
  BY LimiterTypes, InRedisFacts, SweptFacts, RedisAssumption DEF LimiterInv, Stores, AfterSweep, LimiterTypeOK
<1>2. /\ store' = [store EXCEPT ![i] = mine, ![Redis] = rest]
      /\ spent' = IF grants THEN spent + 1 ELSE spent
      /\ swept' = IF SweepDue(i) THEN [swept EXCEPT ![i] = now] ELSE swept
      /\ forgotten' = IF TooEarly(i, Drops(i, k)) THEN forgotten + 1 ELSE forgotten
      /\ UNCHANGED <<now, losses, watched>>
  BY <1>1 DEF CheckInMemory, Spend, Forget
<1> HIDE DEF b, kept
<1>3. /\ Taken(k, b) \in Bucket(k)
      /\ Refilled(k, Taken(k, b)) = Refilled(k, b) - (IF Grants(k, b) THEN Window[k] ELSE 0)
      /\ Taken(k, kept[k]) \in Bucket(k)
      /\ Refilled(k, Taken(k, kept[k])) = Refilled(k, kept[k]) - (IF Grants(k, kept[k]) THEN Window[k] ELSE 0)
  BY <1>1, TakenFacts
<1>4. /\ \A j \in Keys : mine[j] = IF j = k THEN Taken(k, kept[k]) ELSE kept[j]
      /\ \A j \in Keys : rest[j] = IF j = k /\ ran THEN Taken(k, b) ELSE store[Redis][j]
      /\ \A j \in Keys : mine[j] \in Bucket(j) /\ rest[j] \in Bucket(j)
      /\ DOMAIN mine = Keys /\ DOMAIN rest = Keys
      /\ mine = [j \in Keys |-> mine[j]] /\ rest = [j \in Keys |-> rest[j]]
  <2>1. kept = [j \in Keys |-> kept[j]]
    BY <1>1 DEF kept, AfterSweep
  <2>2. \A j \in Keys : store[Redis][j] \in Bucket(j)
    BY <1>1, LimiterTypes
  <2>3. DOMAIN store[Redis] = Keys /\ store[Redis] = [j \in Keys |-> store[Redis][j]]
    BY <1>1
  <2> QED
    BY <1>1, <1>3, <2>1, <2>2, <2>3
<1>5. /\ store'[i] = mine /\ store'[Redis] = rest
      /\ \A s \in Stores \ {i, Redis} : store'[s] = store[s]
      /\ DOMAIN store' = Stores /\ store' = [s \in Stores |-> store'[s]]
  <2> HIDE DEF mine, rest
  <2> QED
    BY <1>1, <1>2
<1> HIDE DEF mine, rest
<1>6. \A s \in Stores, j \in Keys : store'[s][j] \in Bucket(j)
  BY <1>1, <1>4, <1>5, LimiterTypes
<1>7. LimiterTypeOK'
  <2>1. \A s \in Stores : store'[s] \in [Keys -> [credit : Nat, at : 0 .. now]]
    <3>1. mine \in [Keys -> [credit : Nat, at : 0 .. now]] /\ rest \in [Keys -> [credit : Nat, at : 0 .. now]]
      BY <1>4 DEF Bucket
    <3> QED
      BY <1>1, <1>5, <3>1
  <2>2. store' \in [Stores -> [Keys -> [credit : Nat, at : 0 .. now]]]
    BY <1>5, <2>1
  <2>3. \A s \in Stores, j \in Keys : store'[s][j].credit <= Full(j)
    BY <1>6 DEF Bucket
  <2>4. spent' \in Nat /\ forgotten' \in Nat
    BY <1>1, <1>2 DEF LimiterTypeOK
  <2>5. swept' \in [Processes -> -SweepEvery .. now]
    <3>1. now \in -SweepEvery .. now
      BY <1>1, BucketAssumption
    <3> QED
      BY <1>1, <1>2, <3>1 DEF LimiterTypeOK
  <2> QED
    BY <1>1, <1>2, <2>2, <2>3, <2>4, <2>5 DEF LimiterTypeOK, Full
<1> DEFINE g == IF grants THEN 1 ELSE 0
           d == IF TooEarly(i, Drops(i, k)) THEN 1 ELSE 0
<1>8. spent' = spent + g /\ forgotten' = forgotten + d /\ g \in {0, 1} /\ d \in {0, 1}
  BY <1>1, <1>2 DEF LimiterTypeOK
<1>9. ASSUME watched # NoBucket
      PROVE  Refilled(watched.key, store'[watched.store][watched.key])
               <= Refilled(watched.key, store[watched.store][watched.key]) + d * Full(watched.key) - g * Window[watched.key]
  <2> DEFINE j == watched.key
             r == Refilled(j, store[watched.store][j])
  <2>1. /\ watched.store \in Stores /\ j \in Keys
        /\ Window[j] \in Nat /\ Full(j) \in Nat /\ r \in 0 .. Full(j)
    BY <1>1, <1>9, LimiterTypes, FullFacts, RefilledFacts
  <2>2. CASE watched.store = i
    <3>1. /\ d = IF j \in Drops(i, k) /\ r < Full(j) THEN 1 ELSE 0
          /\ g = IF j = k /\ Grants(k, kept[k]) THEN 1 ELSE 0
      BY <1>1, <1>9, <2>2 DEF TooEarly, IsWatched, Drops
    <3>2. Refilled(j, kept[j]) <= r + d * Full(j)
      <4>1. CASE j \in Drops(i, k)
        <5>1. Refilled(j, kept[j]) = Full(j)
          BY <1>1, <2>1, <4>1, UnusedFacts
        <5> QED
          BY <2>1, <3>1, <4>1, <5>1
      <4>2. CASE j \notin Drops(i, k)
        <5>1. kept[j] = store[i][j] /\ d = 0
          BY <1>1, <2>1, <3>1, <4>2
        <5> QED
          BY <2>1, <2>2, <5>1
      <4> QED
        BY <4>1, <4>2
    <3>3. Refilled(j, kept[j]) \in Nat
      BY <1>1, <2>1, RefilledFacts
    <3>4. Refilled(j, store'[i][j]) = Refilled(j, kept[j]) - g * Window[j]
      <4>1. CASE j = k
        BY <1>3, <1>4, <1>5, <2>1, <3>1, <3>3, <4>1
      <4>2. CASE j # k
        BY <1>4, <1>5, <2>1, <3>1, <3>3, <4>2
      <4> QED
        BY <4>1, <4>2
    <3>5. g * Window[j] \in Nat /\ d * Full(j) \in Nat
      BY <1>8, <2>1
    <3> QED
      BY <2>1, <2>2, <3>2, <3>3, <3>4, <3>5
  <2>3. CASE watched.store = Redis
    <3>1. d = 0 /\ g = IF j = k /\ ran /\ Grants(k, b) THEN 1 ELSE 0
      BY <1>1, <1>9, <2>3 DEF TooEarly, IsWatched
    <3>2. Refilled(j, store'[Redis][j]) = r - g * Window[j]
      <4>1. CASE j = k /\ ran
        BY <1>1, <1>3, <1>4, <1>5, <2>1, <2>3, <3>1, <4>1
      <4>2. CASE ~(j = k /\ ran)
        BY <1>4, <1>5, <2>1, <2>3, <3>1, <4>2
      <4> QED
        BY <4>1, <4>2
    <3> QED
      BY <2>1, <2>3, <3>1, <3>2
  <2>4. CASE watched.store \notin {i, Redis}
    <3>1. d = 0 /\ g = 0
      BY <2>4 DEF TooEarly, IsWatched
    <3>2. store'[watched.store] = store[watched.store]
      BY <1>5, <2>1, <2>4
    <3> QED
      BY <2>1, <3>1, <3>2
  <2> QED
    BY <2>2, <2>3, <2>4
<1>10. watched = NoBucket => g = 0 /\ d = 0
  BY DEF IsWatched, TooEarly
<1> HIDE DEF g, d, grants
<1>11. Fresh' /\ Solvent'
  BY <1>1, <1>2, <1>7, <1>8, <1>9, <1>10, MoveKeepsSolvent DEF LimiterInv
<1> QED
  BY <1>7, <1>11 DEF LimiterInv

LEMMA RestartKeeps ==
  ASSUME LimiterInv, NEW s \in Stores, Restart(s)
  PROVE  LimiterInv'
<1>1. /\ store' = [store EXCEPT ![s] = [k \in Keys |-> Unused(k)]]
      /\ swept' = [i \in Processes |-> IF i = s THEN -SweepEvery ELSE swept[i]]
      /\ forgotten' = IF TooEarly(s, Keys) THEN forgotten + 1 ELSE forgotten
      /\ losses' = losses + 1 /\ losses < MaxLosses
      /\ UNCHANGED <<now, watched, spent>>
  BY DEF Restart, Forget
<1>2. LimiterTypeOK /\ now \in Nat /\ losses \in Nat
  BY LimiterTypes DEF LimiterInv
<1>3. LimiterTypeOK'
  <2>1. \A k \in Keys : Unused(k) \in [credit : Nat, at : 0 .. now] /\ Unused(k).credit <= Full(k)
    BY <1>2, UnusedFacts DEF Bucket
  <2>2. store' \in [Stores -> [Keys -> [credit : Nat, at : 0 .. now]]]
    BY <1>1, <1>2, <2>1 DEF LimiterTypeOK
  <2>3. \A t \in Stores, k \in Keys : store'[t][k].credit <= Full(k)
    BY <1>1, <1>2, <2>1 DEF LimiterTypeOK
  <2>4. swept' \in [Processes -> -SweepEvery .. now]
    BY <1>1, <1>2, BucketAssumption DEF LimiterTypeOK
  <2>5. forgotten' \in Nat /\ losses' \in 0 .. MaxLosses
    BY <1>1, <1>2, BucketAssumption DEF LimiterTypeOK
  <2> QED
    BY <1>1, <1>2, <2>2, <2>3, <2>4, <2>5 DEF LimiterTypeOK, Full
<1> DEFINE d == IF TooEarly(s, Keys) THEN 1 ELSE 0
<1>4. spent' = spent + 0 /\ forgotten' = forgotten + d /\ d \in {0, 1}
  BY <1>1, <1>2 DEF LimiterTypeOK
<1>5. ASSUME watched # NoBucket
      PROVE  Refilled(watched.key, store'[watched.store][watched.key])
               <= Refilled(watched.key, store[watched.store][watched.key]) + d * Full(watched.key) - 0 * Window[watched.key]
  <2> DEFINE j == watched.key
             r == Refilled(j, store[watched.store][j])
  <2>1. /\ watched.store \in Stores /\ j \in Keys
        /\ Window[j] \in Nat /\ Full(j) \in Nat /\ r \in 0 .. Full(j)
    BY <1>2, <1>5, LimiterTypes, FullFacts, RefilledFacts
  <2>2. CASE watched.store = s
    <3>1. d = IF r < Full(j) THEN 1 ELSE 0
      BY <1>5, <2>1, <2>2 DEF TooEarly, IsWatched
    <3>2. Refilled(j, store'[s][j]) = Full(j)
      <4>1. store'[s][j] = Unused(j)
        BY <1>1, <1>2, <2>1 DEF LimiterTypeOK
      <4> QED
        BY <1>2, <2>1, <4>1, UnusedFacts
    <3> QED
      BY <2>1, <2>2, <3>1, <3>2
  <2>3. CASE watched.store # s
    <3>1. d = 0 /\ store'[watched.store] = store[watched.store]
      BY <1>1, <1>2, <2>1, <2>3 DEF TooEarly, IsWatched, LimiterTypeOK
    <3> QED
      BY <2>1, <3>1
  <2> QED
    BY <2>2, <2>3
<1>6. watched = NoBucket => d = 0
  BY DEF TooEarly, IsWatched
<1> HIDE DEF d
<1>7. Fresh' /\ Solvent'
  BY <1>1, <1>2, <1>3, <1>4, <1>5, <1>6, MoveKeepsSolvent DEF LimiterInv
<1> QED
  BY <1>3, <1>7 DEF LimiterInv

\* A bucket that comes under watch can grant no more than its limit.
LEMMA WatchKeeps ==
  ASSUME LimiterInv, NEW s \in Stores, NEW k \in Keys, Watch(s, k)
  PROVE  LimiterInv'
<1>1. /\ watched = NoBucket /\ watched' = [store |-> s, key |-> k, since |-> now]
      /\ UNCHANGED <<now, store, swept, losses, spent, forgotten>>
  BY DEF Watch, buckets
<1>2. LimiterTypeOK /\ now \in Nat /\ spent = 0 /\ forgotten = 0 /\ store[s][k] \in Bucket(k)
  BY <1>1, LimiterTypes DEF LimiterInv, Fresh
<1>3. watched' # NoBucket
  BY <1>1, <1>2 DEF NoBucket
<1>4. LimiterTypeOK'
  BY <1>1, <1>2 DEF LimiterTypeOK, Full
<1>5. Refilled(k, store[s][k]) <= Full(k) /\ Refilled(k, store[s][k]) \in Nat
  BY <1>2, RefilledFacts, FullFacts
<1>6. 0 * Window[k] + Refilled(k, store[s][k]) <= Limit[k] * (Window[k] * (1 + 0) + now - now)
  <2>1. /\ Window[k] \in Nat /\ Limit[k] \in Nat /\ 0 * Window[k] = 0
        /\ Window[k] * (1 + 0) + now - now = Window[k]
    BY <1>2, FullFacts
  <2> QED
    BY <1>5, <2>1 DEF Full
<1>7. Solvent'
  BY <1>1, <1>2, <1>6 DEF Solvent, Refilled, Earned
<1> QED
  BY <1>3, <1>4, <1>7 DEF LimiterInv, Fresh

\* In a unit of time a bucket refills its limit, or what it lacks.
LEMMA TickKeeps ==
  ASSUME LimiterInv, Tick
  PROVE  LimiterInv'
<1>1. now < MaxTime /\ now' = now + 1 /\ UNCHANGED <<store, swept, losses, watched, spent, forgotten>>
  BY DEF Tick, buckets, watch
<1>2. LimiterTypeOK /\ now \in Nat
  BY LimiterTypes DEF LimiterInv
<1>3. LimiterTypeOK'
  <2>1. 0 .. now \subseteq 0 .. now' /\ -SweepEvery .. now \subseteq -SweepEvery .. now'
    BY <1>1, <1>2, BucketAssumption
  <2>2. now' \in 0 .. MaxTime
    BY <1>1, <1>2, BucketAssumption
  <2>3. store' \in [Stores -> [Keys -> [credit : Nat, at : 0 .. now']]]
    BY <1>1, <1>2, <2>1 DEF LimiterTypeOK
  <2>4. watched' \in {NoBucket} \cup [store : Stores, key : Keys, since : 0 .. now']
    BY <1>1, <1>2, <2>1 DEF LimiterTypeOK
  <2> QED
    BY <1>1, <1>2, <2>1, <2>2, <2>3, <2>4 DEF LimiterTypeOK, Full
<1>4. ASSUME watched # NoBucket
      PROVE  LET k == watched.key IN
               spent * Window[k] + Refilled(k, store[watched.store][k])'
                 <= Limit[k] * (Window[k] * (1 + forgotten) + now' - watched.since)
  <2> DEFINE k == watched.key
             b == store[watched.store][k]
             r == Refilled(k, b)
             q == IF Earned(k, b) + Limit[k] < Full(k) THEN Earned(k, b) + Limit[k] ELSE Full(k)
             t == now - watched.since
  <2>1. /\ k \in Keys /\ b \in Bucket(k) /\ spent \in Nat /\ forgotten \in Nat
        /\ t \in Int /\ watched.since \in Int
    BY <1>2, <1>4, LimiterTypes
  <2>2. /\ Earned(k, b) \in Nat /\ Full(k) \in Nat /\ Limit[k] \in Nat /\ Window[k] \in Nat
    BY <1>2, <2>1, RefilledFacts, FullFacts
  <2>3. Refilled(k, b)' = q
    <3>1. b.credit \in Nat /\ b.at \in Nat
      BY <2>1 DEF Bucket
    <3>2. (now + 1 - b.at) * Limit[k] = (now - b.at) * Limit[k] + Limit[k] /\ (now - b.at) * Limit[k] \in Int
      BY <1>2, <2>2, <3>1
    <3>3. b.credit + (now + 1 - b.at) * Limit[k] = b.credit + (now - b.at) * Limit[k] + Limit[k]
      BY <2>2, <3>1, <3>2
    <3>4. b' = b /\ k' = k
      BY <1>1
    <3>5. Refilled(k, b)' = IF b'.credit + (now' - b'.at) * Limit[k'] < Full(k')
                            THEN b'.credit + (now' - b'.at) * Limit[k'] ELSE Full(k')
      BY DEF Refilled, Earned, Full
    <3> HIDE DEF k, b
    <3>6. b'.credit + (now' - b'.at) * Limit[k'] = b.credit + (now + 1 - b.at) * Limit[k]
      <4>1. now' = now + 1
        BY <1>1
      <4>2. b'.credit + (now' - b'.at) * Limit[k'] = b.credit + (now' - b.at) * Limit[k]
        BY <3>4
      <4>3. now' - b.at = now + 1 - b.at
        BY <1>2, <3>1, <4>1
      <4> QED
        BY <4>2, <4>3
    <3>7. b'.credit + (now' - b'.at) * Limit[k'] = Earned(k, b) + Limit[k]
      BY <3>3, <3>6 DEF Earned
    <3>8. Full(k') = Full(k)
      BY <3>4
    <3> QED
      BY <3>5, <3>7, <3>8
  <2>4. r \in Int /\ q \in Int /\ q <= r + Limit[k]
    BY <2>2 DEF Refilled
  <2>5. spent * Window[k] + r <= Limit[k] * (Window[k] * (1 + forgotten) + now - watched.since)
    BY <1>4 DEF Solvent, LimiterInv
  <2>6. \A f \in Nat : Window[k] * (1 + f) \in Int
    BY <2>2
  <2> HIDE DEF k, b, r, q, t
  <2>7. \A x \in Int : x + now - watched.since = x + t /\ x + now' - watched.since = x + (t + 1)
    BY <1>1, <1>2, <2>1 DEF t
  <2>8. spent * Window[k] + r <= Limit[k] * (Window[k] * (1 + forgotten) + t)
    BY <2>1, <2>5, <2>6, <2>7
  <2>9. spent * Window[k] + q <= Limit[k] * (Window[k] * (1 + forgotten) + (t + 1))
    BY <2>1, <2>2, <2>4, <2>8, Spending
  <2>10. spent * Window[k] + q <= Limit[k] * (Window[k] * (1 + forgotten) + now' - watched.since)
    BY <2>1, <2>6, <2>7, <2>9
  <2> QED
    BY <2>3, <2>10 DEF k, b
<1>5. Solvent'
  BY <1>1, <1>4 DEF Solvent
<1> QED
  BY <1>1, <1>3, <1>5 DEF LimiterInv, Fresh

LEMMA LimiterInvariant == LimiterSpec => []LimiterInv
<1>1. LimiterInv /\ UNCHANGED limiterVars => LimiterInv'
  BY DEF limiterVars, buckets, watch, LimiterInv, LimiterTypeOK, Fresh, Solvent, Refilled, Earned, Full
<1>2. LimiterInv /\ [LimiterNext]_limiterVars => LimiterInv'
  BY <1>1, CheckInRedisKeeps, CheckInMemoryKeeps, RestartKeeps, WatchKeeps, TickKeeps DEF LimiterNext
<1> QED
  BY <1>2, LimiterInitOk, PTL DEF LimiterSpec

\* The buckets keep their types; in particular none holds more than its limit or was
\* written in the future.
THEOREM BucketsAreBuckets == LimiterSpec => []LimiterTypeOK
<1>1. LimiterInv => LimiterTypeOK
  BY DEF LimiterInv
<1> QED
  BY <1>1, LimiterInvariant, PTL

\* Through outages, lost answers, sweeps and restarts, and for any limits and windows:
\* over any interval a bucket grants at most its limit, what refills meanwhile, and
\* its limit again for each time it was forgotten before it was full.
THEOREM AllowanceHolds == LimiterSpec => []WithinAllowance
<1>1. LimiterInv => WithinAllowance
  <2> SUFFICES ASSUME LimiterInv, watched # NoBucket
               PROVE  spent * Window[watched.key]
                        <= Limit[watched.key] * (Window[watched.key] * (1 + forgotten) + now - watched.since)
    BY DEF WithinAllowance
  <2> DEFINE k == watched.key
             allowance == Limit[k] * (Window[k] * (1 + forgotten) + now - watched.since)
  <2>1. /\ k \in Keys /\ store[watched.store][k] \in Bucket(k) /\ now \in Nat /\ spent \in Nat
        /\ forgotten \in Nat /\ watched.since \in Int
    BY LimiterTypes DEF LimiterInv
  <2>2. Refilled(k, store[watched.store][k]) \in Nat /\ Limit[k] \in Nat /\ Window[k] \in Nat
    BY <2>1, RefilledFacts, FullFacts
  <2>3. spent * Window[k] \in Int /\ allowance \in Int
    BY <2>1, <2>2
  <2>4. spent * Window[k] + Refilled(k, store[watched.store][k]) <= allowance
    BY DEF LimiterInv, Solvent
  <2> HIDE DEF allowance
  <2>5. spent * Window[k] <= allowance
    <3> HIDE DEF k
    <3> QED
      BY <2>2, <2>3, <2>4
  <2> QED
    BY <2>5 DEF allowance
<1> QED
  BY <1>1, LimiterInvariant, PTL
=============================================================================
