----------------------------- MODULE Storefront ------------------------------
(***************************************************************************)
(* The catalogue as visitors see it: every instance of the application     *)
(* keeps a copy, made by loadCatalog from three queries one after another. *)
(* A request of the admin desk, once committed, marks the copy of the      *)
(* instance that served it and announces the purge over Redis; the others  *)
(* mark theirs when the announcement reaches them.  A marked copy is still *)
(* served while the next one is loaded, and every copy expires within the  *)
(* hour, which makes good any purge that was lost.                         *)
(***************************************************************************)
EXTENDS Catalogue, Sequences

CONSTANTS
  Instances,  \* processes of the application, each with its own cache
  Watched     \* those whose copy the model follows; any may serve the admin desk

ASSUME WatchedAssumption == Watched \subseteq Instances

VARIABLES
  copy,       \* unstable_cache: what loadCatalog returned
  stale,      \* the copy is marked, or its hour is over
  loading,    \* what a load in progress has read so far
  crossed,    \* a purge came while the copy was being loaded
  listening,  \* subscribed to PURGE_CHANNEL
  coming,     \* an announcement is on its way to the instance
  why         \* for the properties: why a copy may be out of date unmarked

caches == <<copy, stale, loading, crossed>>
wire   == <<listening, coming>>
vars   == <<tables, desk, requests, caches, wire, why>>

\* What each of the three queries returns.
ProductRows == [text |-> text, order |-> order["products"]]
PackRows == [active |-> ActivePacks, price |-> price, order |-> order["packs"]]
PhotoRows == [place |-> place, primary |-> primary, alts |-> order["alts"]]

Nothing == [product |-> "none"]
Page(p, v, x) == [product |-> p, packs |-> v, photos |-> x]

\* What a load of this moment would show.
Current == IF live THEN Page(ProductRows, PackRows, PhotoRows) ELSE Nothing

\* A load has read nothing, the products, or the products and the packs.
NotLoading == <<>>

StorefrontInit ==
  /\ CatalogueInit
  /\ copy = [i \in Watched |-> Current]
  /\ stale = [i \in Watched |-> FALSE]
  /\ loading = [i \in Watched |-> NotLoading]
  /\ crossed = [i \in Watched |-> FALSE]
  /\ listening = [i \in Watched |-> TRUE]
  /\ coming = [i \in Watched |-> FALSE]
  /\ why = [i \in Watched |-> "none"]

Blame(who, reason) == why' = [i \in Watched |-> IF i \in who THEN reason ELSE why[i]]

\* A purge marks the copy; one being loaded may yet be stored over the mark.
Mark(who) ==
  /\ stale' = [i \in Watched |-> stale[i] \/ i \in who]
  /\ crossed' = [i \in Watched |-> crossed[i] \/ (i \in who /\ loading[i] # NotLoading)]
  /\ UNCHANGED <<copy, loading>>

(***************************************************************************)
(* The admin desk.                                                         *)
(***************************************************************************)

\* The pages change and the request that changed them will not purge: it judges
\* by a reading that others have overtaken.
Silent(a) == Current' # Current /\ desk'[a] # MustPurge

Edit(a) ==
  /\ CatalogueStep(a)
  /\ IF Silent(a) THEN Blame(Watched, "silent") ELSE UNCHANGED why
  /\ UNCHANGED <<caches, wire>>

\* Fault: nobody else is told.
ToldNobody(i) == {}

\* Who hears the announcement of instance i, which ignores its own echo.
Hearers(i) == {j \in Watched \ {i} : listening[j]}

\* revalidateCatalog where the request was served.  The announcement is best
\* effort: it reaches nobody when Redis cannot be reached.
Purge(a, i) ==
  /\ desk[a] = MustPurge
  /\ desk' = [desk EXCEPT ![a] = Idle]
  /\ Mark({i})
  /\ \E reached \in BOOLEAN :
       /\ coming' = [j \in Watched |-> coming[j] \/ (reached /\ j \in Hearers(i))]
       /\ Blame({j \in Watched \ {i} : reached => ~listening[j]}, "lost")
  /\ UNCHANGED <<tables, requests, listening>>

\* The process ends between the commit and the purge.
CutOff(a) ==
  /\ desk[a] = MustPurge
  /\ desk' = [desk EXCEPT ![a] = Idle]
  /\ Blame(Watched, "cut")
  /\ UNCHANGED <<tables, requests, caches, wire>>

(***************************************************************************)
(* The channel.                                                            *)
(***************************************************************************)

\* The subscriber calls its own /api/revalidate, which with fanout=1 announces
\* nothing further.
Arrive(j) ==
  /\ coming[j]
  /\ coming' = [coming EXCEPT ![j] = FALSE]
  /\ Mark({j})
  /\ UNCHANGED <<tables, desk, requests, listening, why>>

\* The call to itself fails, or the connection is lost under the message.
Lose(j) ==
  /\ coming[j]
  /\ coming' = [coming EXCEPT ![j] = FALSE]
  /\ Blame({j}, "lost")
  /\ UNCHANGED <<tables, desk, requests, caches, listening>>

Disconnect(j) ==
  /\ listening[j]
  /\ listening' = [listening EXCEPT ![j] = FALSE]
  /\ UNCHANGED <<tables, desk, requests, caches, coming, why>>

\* SUBSCRIBE again on every ready; what was announced meanwhile is gone.
Ready(j) ==
  /\ ~listening[j]
  /\ listening' = [listening EXCEPT ![j] = TRUE]
  /\ UNCHANGED <<tables, desk, requests, caches, coming, why>>

(***************************************************************************)
(* The copies.                                                             *)
(***************************************************************************)

\* Fault: copies are kept until they are purged.
KeptForEver(i) == FALSE

\* REVALIDATE_SECONDS.
Expires(i) == ~stale[i]

Expire(i) ==
  /\ Expires(i)
  /\ stale' = [stale EXCEPT ![i] = TRUE]
  /\ UNCHANGED <<tables, desk, requests, copy, loading, crossed, wire, why>>

\* A visitor meets a marked copy; the first query finds no product, or goes on.
LoadProducts(i) ==
  /\ stale[i] /\ loading[i] = NotLoading
  /\ why' = [why EXCEPT ![i] = "none"]
  /\ IF live
       THEN /\ loading' = [loading EXCEPT ![i] = <<ProductRows>>]
            /\ UNCHANGED <<copy, stale>>
       ELSE /\ copy' = [copy EXCEPT ![i] = Nothing]
            /\ stale' = [stale EXCEPT ![i] = FALSE]
            /\ UNCHANGED loading
  /\ UNCHANGED <<tables, desk, requests, crossed, wire>>

LoadPacks(i) ==
  /\ Len(loading[i]) = 1
  /\ loading' = [loading EXCEPT ![i] = <<@[1], PackRows>>]
  /\ UNCHANGED <<tables, desk, requests, copy, stale, crossed, wire, why>>

\* The last query, and the copy is stored.  Whether a purge that came during the
\* load still counts against the new copy is up to the framework.
LoadPhotos(i) ==
  /\ Len(loading[i]) = 2
  /\ copy' = [copy EXCEPT ![i] = Page(loading[i][1], loading[i][2], PhotoRows)]
  /\ loading' = [loading EXCEPT ![i] = NotLoading]
  /\ crossed' = [crossed EXCEPT ![i] = FALSE]
  /\ \/ /\ stale' = [stale EXCEPT ![i] = FALSE]
        /\ IF crossed[i] THEN Blame({i}, "crossed") ELSE UNCHANGED why
     \/ crossed[i] /\ UNCHANGED <<stale, why>>
  /\ UNCHANGED <<tables, desk, requests, wire>>

Next ==
  \/ \E a \in Admins : Edit(a) \/ CutOff(a)
  \/ \E a \in Admins, i \in Instances : Purge(a, i)
  \/ \E i \in Watched : Arrive(i) \/ Lose(i) \/ Disconnect(i) \/ Ready(i)
  \/ \E i \in Watched : Expire(i) \/ LoadProducts(i) \/ LoadPacks(i) \/ LoadPhotos(i)

Spec == StorefrontInit /\ [][Next]_vars

\* Time passes, pages are visited, queries return and messages are handled or
\* lost.  Nothing is asked of the admin, of Redis or of any purge.
Fairness ==
  \A i \in Watched :
    /\ WF_vars(Expire(i))
    /\ WF_vars(LoadProducts(i))
    /\ WF_vars(LoadPacks(i))
    /\ WF_vars(LoadPhotos(i))
    /\ WF_vars(Arrive(i) \/ Lose(i))

FairSpec == Spec /\ Fairness

(***************************************************************************)
(* What must hold.                                                         *)
(***************************************************************************)

\* A purge that will still mark the copy of i.
Due(i) == coming[i] \/ \E a \in Admins : desk[a] = MustPurge

\* A copy that is not what the tables say is marked, or about to be, unless its
\* purge was lost, cut off, crossed by the load that made the copy, or never
\* thought necessary by an edit that others had overtaken.
StaleHasACause ==
  \A i \in Watched : stale[i] \/ Due(i) \/ why[i] # "none" \/ copy[i] = Current

\* Purges die out, and every instance comes to show what the tables say, however
\* many of them were lost.
EventuallyShown == <>[](\A i \in Watched : ~coming[i] /\ copy[i] = Current)
=============================================================================
