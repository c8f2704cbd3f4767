----------------------------- MODULE AddressBook -----------------------------
(***************************************************************************)
(* What the saved addresses of one customer promise: every edit is one     *)
(* indivisible step, at most one address is the one checkout prefills, and *)
(* there are never more than the cap.                                      *)
(***************************************************************************)
EXTENDS Naturals, FiniteSets

CONSTANTS
  Addresses,     \* ids an address may have
  MaxAddresses   \* how many a customer may keep, MAX_ADDRESSES

VARIABLES
  book,   \* what each id is
  open    \* the customer has not been erased

Mark == {"gone", "plain", "default"}

Kept     == {a \in Addresses : book[a] # "gone"}
Defaults == {a \in Addresses : book[a] = "default"}

\* The book when nothing, or only a, is the default.
AllPlain      == [b \in Addresses |-> IF b \in Kept THEN "plain" ELSE "gone"]
OnlyDefault(a) == [AllPlain EXCEPT ![a] = "default"]

Init ==
  /\ book \in [Addresses -> Mark]
  /\ Cardinality(Defaults) <= 1
  /\ Cardinality(Kept) <= MaxAddresses
  /\ open = TRUE

\* A new address; the first is the default, asked for or not.
Save(a) ==
  /\ open /\ a \notin Kept
  /\ Cardinality(Kept) < MaxAddresses
  /\ \/ book' = OnlyDefault(a)
     \/ Kept # {} /\ book' = [book EXCEPT ![a] = "plain"]
  /\ UNCHANGED open

MakeDefault(a) ==
  /\ a \in Kept
  /\ book' = OnlyDefault(a)
  /\ UNCHANGED open

\* Another address takes the place of a default that is removed.
Remove(a) ==
  /\ a \in Kept
  /\ \/ /\ a \notin Defaults \/ Kept = {a}
        /\ book' = [book EXCEPT ![a] = "gone"]
     \/ /\ a \in Defaults
        /\ \E b \in Kept \ {a} : book' = [book EXCEPT ![a] = "gone", ![b] = "default"]
  /\ UNCHANGED open

\* An edit that was to make the default of an address removed meanwhile.
LoseDefault ==
  /\ book' = AllPlain
  /\ UNCHANGED open

Erase ==
  /\ open' = FALSE
  /\ book' = [b \in Addresses |-> "gone"]

Next ==
  \/ \E a \in Addresses : Save(a) \/ MakeDefault(a) \/ Remove(a)
  \/ LoseDefault
  \/ Erase

vars == <<book, open>>

Spec == Init /\ [][Next]_vars

\* The default that checkout prefills is unambiguous: no two addresses of a customer
\* are marked, whatever devices edit them at once (createAddress, setDefaultAddress).
OneDefault == \A a, b \in Defaults : a = b

\* An erasure is final: nothing is filed under the customer it has removed
\* (eraseCustomer, and the foreign key that refuses a save that comes late).
ErasedKeepsNothing == ~open => Kept = {}
=============================================================================
