------------------------------ MODULE Catalogue ------------------------------
(***************************************************************************)
(* The admin's side of the catalogue: one product, its packs and its       *)
(* photographs, and what each request of the admin desk commits.  A        *)
(* request that has committed is about to purge the page caches (module    *)
(* Storefront).  Saving a product or a pack reads the row first, outside   *)
(* any transaction, and judges by that reading whether pages must be       *)
(* purged; every other operation is one transaction.                       *)
(***************************************************************************)
EXTENDS Naturals, FiniteSets, FiniteSetsExt, Functions

CONSTANTS
  Packs,        \* product_variants of the product
  Photos,       \* product_images of the product
  Values,       \* what a column may hold
  First,        \* what the columns hold to begin with
  Admins,       \* requests to the admin desk at once
  MaxRequests   \* bound on the requests that write

ASSUME FirstAssumption == First \in Values
ASSUME PacksAssumption == Packs # {}
ASSUME FiniteAssumption == IsFiniteSet(Packs) /\ IsFiniteSet(Photos) /\ MaxRequests \in Nat

VARIABLES
  live,      \* products.is_active
  text,      \* the columns a product edit writes
  packs,     \* each pack: absent, archived or active
  price,     \* the columns a pack edit writes
  order,     \* sort_order of products and packs, alt_text of photographs
  place,     \* product_images.sort_order, 0 where there is no row
  primary,   \* photographs with is_primary = 1
  desk,      \* where each request is
  requests   \* requests that have written

product == <<live, text>>
goods   == <<packs, price>>
album   == <<place, primary>>
tables  == <<product, goods, order, album>>

Ordered == {"products", "packs", "alts"}

\* A request at rest, one that has read the row it will save, one that has
\* committed and must purge.  What was read: the columns, and is_active of a product.
Idle == [at |-> "idle"]
MustPurge == [at |-> "purge"]
Reading == [at : {"product"}, live : BOOLEAN, before : Values] \cup [at : {"pack"}, before : Values]

CatalogueTypeOK ==
  /\ live \in BOOLEAN /\ text \in Values
  /\ packs \in [Packs -> {"absent", "archived", "active"}] /\ price \in Values
  /\ order \in [Ordered -> Values]
  /\ place \in [Photos -> Nat] /\ primary \in SUBSET Photos
  /\ desk \in [Admins -> {Idle, MustPurge} \cup Reading]
  /\ requests \in 0 .. MaxRequests

Present == {x \in Photos : place[x] > 0}

\* A product as createProduct inserts it, switched off and bare.
Created ==
  /\ live = FALSE
  /\ packs = [v \in Packs |-> "absent"]
  /\ place = [x \in Photos |-> 0] /\ primary = {}

\* A product as the seed leaves it, on sale with all its packs and pictures.
Seeded ==
  /\ live = TRUE
  /\ packs = [v \in Packs |-> "active"]
  /\ \E x \in Photos : place = [y \in Photos |-> IF y = x THEN 1 ELSE 0] /\ primary = {x}

CatalogueInit ==
  /\ Created \/ Seeded
  /\ text = First /\ price = First /\ order = [o \in Ordered |-> First]
  /\ desk = [a \in Admins |-> Idle]
  /\ requests = 0

\* A write by a request that was at rest; what follows is the purge.
Commit(a) ==
  /\ desk[a] = Idle
  /\ requests < MaxRequests /\ requests' = requests + 1
  /\ desk' = [desk EXCEPT ![a] = MustPurge]

(***************************************************************************)
(* The product.                                                            *)
(***************************************************************************)

ActivePacks == {v \in Packs : packs[v] = "active"}

\* setProductActive: going live is checked, going dark is not.
Publish(a) ==
  /\ Commit(a)
  /\ ActivePacks # {} /\ Present # {}
  /\ live' = TRUE
  /\ UNCHANGED <<text, goods, order, album>>

Archive(a) ==
  /\ Commit(a)
  /\ live' = FALSE
  /\ UNCHANGED <<text, goods, order, album>>

\* updateProduct, the reading: getProductForAdmin.
OpenProduct(a) ==
  /\ desk[a] = Idle
  /\ desk' = [desk EXCEPT ![a] = [at |-> "product", live |-> live, before |-> text]]
  /\ UNCHANGED <<tables, requests>>

\* if (before.isActive) revalidateCatalog(), after "Nothing changed" has returned.
ProductPurges(read, input) == input # read.before /\ read.live

\* updateProduct, the statement, and what its action makes of the reading.
SaveProduct(a, input) ==
  /\ desk[a].at = "product"
  /\ requests < MaxRequests /\ requests' = requests + 1
  /\ text' = input
  /\ desk' = [desk EXCEPT ![a] = IF ProductPurges(@, input) THEN MustPurge ELSE Idle]
  /\ UNCHANGED <<live, goods, order, album>>

\* The slug is locked or taken, or the statement fails: nothing is saved.
GiveUp(a) ==
  /\ desk[a] \notin {Idle, MustPurge}
  /\ desk' = [desk EXCEPT ![a] = Idle]
  /\ UNCHANGED <<tables, requests>>

(***************************************************************************)
(* Packs.                                                                  *)
(***************************************************************************)

\* createVariant inserts an active pack.
CreatePack(a, v) ==
  /\ Commit(a)
  /\ packs[v] = "absent"
  /\ packs' = [packs EXCEPT ![v] = "active"]
  /\ UNCHANGED <<product, price, order, album>>

\* updateVariant and the purge of saveVariantAction, as for a product.
OpenPack(a) ==
  /\ desk[a] = Idle
  /\ \E v \in Packs : packs[v] # "absent"
  /\ desk' = [desk EXCEPT ![a] = [at |-> "pack", before |-> price]]
  /\ UNCHANGED <<tables, requests>>

SavePack(a, input) ==
  /\ desk[a].at = "pack"
  /\ requests < MaxRequests /\ requests' = requests + 1
  /\ price' = input
  /\ desk' = [desk EXCEPT ![a] = IF input # @.before THEN MustPurge ELSE Idle]
  /\ UNCHANGED <<product, packs, order, album>>

\* Fault: any pack may be archived.
AnyPack(v) == TRUE

\* The last active pack of a live product stays.
MayArchive(v) == live => ActivePacks \ {v} # {}

\* setVariantActive, under the locks of the pack and of its product.
ArchivePack(a, v) ==
  /\ Commit(a)
  /\ packs[v] # "absent" /\ MayArchive(v)
  /\ packs' = [packs EXCEPT ![v] = "archived"]
  /\ UNCHANGED <<product, price, order, album>>

RestorePack(a, v) ==
  /\ Commit(a)
  /\ packs[v] # "absent"
  /\ packs' = [packs EXCEPT ![v] = "active"]
  /\ UNCHANGED <<product, price, order, album>>

\* reorderProducts, reorderVariants and updateImageAlt write and purge.
ReorderProducts(a, w) ==
  /\ Commit(a)
  /\ order' = [order EXCEPT !["products"] = w]
  /\ UNCHANGED <<product, goods, album>>

ReorderPacks(a, w) ==
  /\ Commit(a)
  /\ order' = [order EXCEPT !["packs"] = w]
  /\ UNCHANGED <<product, goods, album>>

UpdateAlt(a, w) ==
  /\ Commit(a)
  /\ Present # {}
  /\ order' = [order EXCEPT !["alts"] = w]
  /\ UNCHANGED <<product, goods, album>>

(***************************************************************************)
(* Photographs.                                                            *)
(***************************************************************************)

\* COALESCE(MAX(sort_order), 0)
LastPlace == IF Present = {} THEN 0 ELSE Max({place[x] : x \in Present})

\* addProductImage: the first one is the primary one.
AddPhoto(a, x) ==
  /\ Commit(a)
  /\ x \notin Present
  /\ place' = [place EXCEPT ![x] = LastPlace + 1]
  /\ primary' = IF Present = {} THEN {x} ELSE primary
  /\ UNCHANGED <<product, goods, order>>

\* setPrimaryImage clears them all and sets one.
SetPrimary(a, x) ==
  /\ Commit(a)
  /\ x \in Present
  /\ primary' = {x}
  /\ UNCHANGED <<product, goods, order, place>>

\* Fault: nothing takes the place of a primary photograph.
NoHeir(x) == {{}}

\* ORDER BY sort_order, id LIMIT 1; a tie may go either way.
Heirs(x) ==
  LET left == Present \ {x}
      first == {y \in left : \A z \in left : place[y] <= place[z]}
  IN  IF left = {} THEN {{}} ELSE {{y} : y \in first}

\* deleteProductImage, of a live product's last photograph too.
DeletePhoto(a, x) ==
  /\ Commit(a)
  /\ x \in Present
  /\ place' = [place EXCEPT ![x] = 0]
  /\ IF x \in primary THEN primary' \in Heirs(x) ELSE UNCHANGED primary
  /\ UNCHANGED <<product, goods, order>>

\* reorderImages: the posted list may lack photographs added since.
ReorderPhotos(a) ==
  /\ Commit(a)
  /\ \E listed \in SUBSET Present \ {{}} : \E f \in Bijection(listed, 1 .. Cardinality(listed)) :
       place' = [x \in Photos |-> IF x \in listed THEN f[x] ELSE place[x]]
  /\ UNCHANGED <<product, goods, order, primary>>

CatalogueStep(a) ==
  \/ Publish(a) \/ Archive(a) \/ OpenProduct(a) \/ GiveUp(a)
  \/ \E w \in Values : SaveProduct(a, w) \/ SavePack(a, w)
  \/ OpenPack(a)
  \/ \E v \in Packs : CreatePack(a, v) \/ ArchivePack(a, v) \/ RestorePack(a, v)
  \/ \E w \in Values : ReorderProducts(a, w) \/ ReorderPacks(a, w) \/ UpdateAlt(a, w)
  \/ \E x \in Photos : AddPhoto(a, x) \/ SetPrimary(a, x) \/ DeletePhoto(a, x)
  \/ ReorderPhotos(a)

(***************************************************************************)
(* What must hold.                                                         *)
(***************************************************************************)

\* Whatever the order of publishing, archiving and restoring by several admins, a
\* product on sale has something to buy.  (A photograph it may lose.)
LiveHasPack == live => ActivePacks # {}

\* One primary photograph while there is any, through every deletion and reorder.
OnePrimary == primary \subseteq Present /\ Cardinality(primary) = IF Present = {} THEN 0 ELSE 1
=============================================================================
