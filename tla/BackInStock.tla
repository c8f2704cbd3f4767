----------------------------- MODULE BackInStock -----------------------------
(***************************************************************************)
(* The waiting list of one pack.  Customers ask to be told when it is back *)
(* (requestBackInStock), checkouts and cancellations move its stock, and   *)
(* an admin edit that takes the stock from zero drains the list: it reads  *)
(* who waits, sends one mail after another and stamps those that left,     *)
(* all outside the transaction of the edit.  Several edits may drain at    *)
(* once, a mail may fail, a drain may be cut off anywhere, and an erasure  *)
(* deletes a row that a drain has read.                                    *)
(***************************************************************************)
EXTENDS Naturals, FiniteSets

CONSTANTS
  People,       \* addresses that may wait
  Drains,       \* admin edits in progress at once
  MaxStock,     \* units on the shelf
  MaxEdits,     \* bound on the admin's stock edits
  MaxErasures   \* bound on erasures

ASSUME BoundsAssumption == MaxStock \in Nat /\ MaxEdits \in Nat /\ MaxErasures \in Nat
ASSUME DrainsAssumption == IsFiniteSet(Drains)

VARIABLES
  stock,     \* product_variants.stock_qty
  active,    \* product_variants.is_active
  sold,      \* units in orders, which a cancellation may put back
  row,       \* back_in_stock_requests: nobody, waiting (notified_at IS NULL) or told
  life,      \* which row of a person this is: an erasure ends one
  asking,    \* requests that have seen the shelf empty and not yet inserted
  drain,     \* where an admin edit is
  todo,      \* the rows a drain has read and not yet mailed
  mailed,    \* the rows whose mail has left, delivered[]
  edits,     \* stock edits so far
  \* What has happened, for the properties.
  comebacks, \* edits that took the stock from zero
  mails,     \* mails to each person
  heard,     \* who was mailed about the present row since they last asked
  crossed,   \* who last asked between such a mail and its stamp
  cause      \* why a person may wait for a pack that is on the shelf

shelf == <<stock, active, sold>>
list  == <<row, life, asking>>
work  == <<drain, todo, mailed>>
past  == <<comebacks, mails, heard, crossed, cause>>
waitlistVars == <<shelf, list, work, edits, past>>

\* A row as a drain remembers it.
Entry == People \X (0 .. MaxErasures)

WaitlistTypeOK ==
  /\ stock \in 0 .. MaxStock /\ active \in BOOLEAN /\ sold \in 0 .. MaxStock
  /\ row \in [People -> {"none", "waiting", "told"}]
  /\ life \in [People -> 0 .. MaxErasures]
  /\ asking \in SUBSET People
  /\ drain \in [Drains -> {"idle", "list", "send"}]
  /\ todo \in [Drains -> SUBSET Entry] /\ mailed \in [Drains -> SUBSET Entry]
  /\ edits \in 0 .. MaxEdits /\ comebacks \in Nat
  /\ mails \in [People -> Nat]
  /\ heard \in SUBSET People /\ crossed \in SUBSET People
  /\ cause \in [People -> {"none", "late", "cancelled", "failed", "cut"}]

WaitlistInit ==
  /\ stock = 0 /\ active = TRUE /\ sold \in 0 .. MaxStock
  /\ row = [p \in People |-> "none"]
  /\ life = [p \in People |-> 0]
  /\ asking = {}
  /\ drain = [d \in Drains |-> "idle"]
  /\ todo = [d \in Drains |-> {}] /\ mailed = [d \in Drains |-> {}]
  /\ edits = 0 /\ comebacks = 0
  /\ mails = [p \in People |-> 0]
  /\ heard = {} /\ crossed = {}
  /\ cause = [p \in People |-> "none"]

Waiting == {p \in People : row[p] = "waiting"}

\* The row a drain remembers is still the one in the table.
Current(e) == row[e[1]] # "none" /\ life[e[1]] = e[2]

Blame(who, why) == cause' = [p \in People |-> IF p \in who THEN why ELSE cause[p]]

(***************************************************************************)
(* requestBackInStock.                                                     *)
(***************************************************************************)

\* The SELECT of an active variant; one on the shelf is answered in_stock.
Ask(p) ==
  /\ p \notin asking
  /\ active /\ stock = 0
  /\ asking' = asking \cup {p}
  /\ UNCHANGED <<shelf, row, life, work, edits, past>>

\* A drain has mailed p and not yet stamped the row.
AboutToStamp(p) == \E d \in Drains : <<p, life[p]>> \in mailed[d]

\* The upsert clears notified_at: whoever was told before waits again, for a mail to come.
Register(p) ==
  /\ p \in asking
  /\ asking' = asking \ {p}
  /\ row' = [row EXCEPT ![p] = "waiting"]
  /\ heard' = heard \ {p}
  /\ crossed' = IF AboutToStamp(p) THEN crossed \cup {p} ELSE crossed \ {p}
  /\ IF stock > 0 THEN Blame({p}, "late") ELSE UNCHANGED cause
  /\ UNCHANGED <<shelf, life, work, edits, comebacks, mails>>

(***************************************************************************)
(* The shelf.                                                              *)
(***************************************************************************)

\* createOrder takes a unit; who waits from here on waits for the next restock.
Sell ==
  /\ active /\ stock > 0 /\ sold < MaxStock
  /\ stock' = stock - 1 /\ sold' = sold + 1
  /\ IF stock' = 0 THEN Blame(People, "none") ELSE UNCHANGED cause
  /\ UNCHANGED <<active, list, work, edits, comebacks, mails, heard, crossed>>

\* A cancellation puts a unit back and, on purpose, tells nobody.
Restore ==
  /\ sold > 0 /\ stock < MaxStock
  /\ stock' = stock + 1 /\ sold' = sold - 1
  /\ IF stock = 0 THEN Blame(Waiting, "cancelled") ELSE UNCHANGED cause
  /\ UNCHANGED <<active, list, work, edits, comebacks, mails, heard, crossed>>

\* setVariantActive.
Toggle ==
  /\ active' = ~active
  /\ UNCHANGED <<stock, sold, list, work, edits, past>>

\* Fault: any edit that leaves stock on the shelf wakes the list.
WakesAlways(previous, next) == next > 0

\* Fault: only a pack on sale wakes the list.
WakesOnSale(previous, next) == previous = 0 /\ next > 0 /\ active

\* result.previous === 0 && result.next > 0.
Wakes(previous, next) == previous = 0 /\ next > 0

\* updateStockAction up to the list: setVariantStock reads the figure it replaces
\* under the lock of the row.
EditStock(d, next) ==
  /\ drain[d] = "idle" /\ edits < MaxEdits
  /\ edits' = edits + 1
  /\ stock' = next
  /\ comebacks' = IF stock = 0 /\ next > 0 THEN comebacks + 1 ELSE comebacks
  /\ IF next = 0 \/ stock = 0 THEN Blame(People, "none") ELSE UNCHANGED cause
  /\ drain' = [drain EXCEPT ![d] = IF Wakes(stock, next) THEN "list" ELSE "idle"]
  /\ UNCHANGED <<active, sold, list, todo, mailed, mails, heard, crossed>>

(***************************************************************************)
(* notifyBackInStock.                                                      *)
(***************************************************************************)

\* listPendingForVariant.
ListPending(d) ==
  /\ drain[d] = "list"
  /\ todo' = [todo EXCEPT ![d] = {<<p, life[p]>> : p \in Waiting}]
  /\ drain' = [drain EXCEPT ![d] = IF Waiting = {} THEN "idle" ELSE "send"]
  /\ UNCHANGED <<shelf, list, mailed, edits, past>>

\* One mail: it leaves, or it is failed or skipped; sendAndLog never throws.
\* The order of the list makes no difference here.
SendMail(d, e) ==
  /\ drain[d] = "send" /\ e \in todo[d]
  /\ todo' = [todo EXCEPT ![d] = @ \ {e}]
  /\ \/ /\ mailed' = [mailed EXCEPT ![d] = @ \cup {e}]
        /\ mails' = [mails EXCEPT ![e[1]] = @ + 1]
        /\ heard' = IF Current(e) THEN heard \cup {e[1]} ELSE heard
        /\ UNCHANGED cause
     \/ /\ Blame({e[1]}, "failed")
        /\ UNCHANGED <<mailed, mails, heard>>
  /\ UNCHANGED <<shelf, list, drain, edits, comebacks, crossed>>

\* Fault: everybody on the variant is stamped.
StampedAll(d) == {<<p, life[p]>> : p \in Waiting}

\* The ids the caller sent to.
Stamped(d) == mailed[d]

\* markNotified, after the last mail.
MarkNotified(d) ==
  /\ drain[d] = "send" /\ todo[d] = {}
  /\ row' = [p \in People |-> IF row[p] # "none" /\ <<p, life[p]>> \in Stamped(d) THEN "told" ELSE row[p]]
  /\ drain' = [drain EXCEPT ![d] = "idle"]
  /\ mailed' = [mailed EXCEPT ![d] = {}]
  /\ UNCHANGED <<shelf, life, asking, todo, edits, past>>

\* The list or the stamp throws, or the process ends between two mails.
CutOff(d) ==
  /\ drain[d] # "idle"
  /\ drain' = [drain EXCEPT ![d] = "idle"]
  /\ todo' = [todo EXCEPT ![d] = {}] /\ mailed' = [mailed EXCEPT ![d] = {}]
  /\ Blame(Waiting, "cut")
  /\ UNCHANGED <<shelf, list, edits, comebacks, mails, heard, crossed>>

\* eraseCustomer: DELETE FROM back_in_stock_requests.
Erase(p) ==
  /\ row[p] # "none" /\ life[p] < MaxErasures
  /\ row' = [row EXCEPT ![p] = "none"]
  /\ life' = [life EXCEPT ![p] = @ + 1]
  /\ heard' = heard \ {p} /\ crossed' = crossed \ {p}
  /\ UNCHANGED <<shelf, asking, work, edits, comebacks, mails, cause>>

WaitlistNext ==
  \/ \E p \in People : Ask(p) \/ Register(p) \/ Erase(p)
  \/ Sell \/ Restore \/ Toggle
  \/ \E d \in Drains :
       \/ \E next \in 0 .. MaxStock : EditStock(d, next)
       \/ ListPending(d)
       \/ \E e \in todo[d] : SendMail(d, e)
       \/ MarkNotified(d)
       \/ CutOff(d)

WaitlistSpec == WaitlistInit /\ [][WaitlistNext]_waitlistVars

(***************************************************************************)
(* What must hold.                                                         *)
(***************************************************************************)

\* An ask is settled only after a mail that left since it was made, whichever drains
\* overlap and whatever fails or is erased between the list and the stamp ("puts the person
\* back in the queue").  One made between a mail and its stamp is settled by that stamp.
ToldWasMailed == \A p \in People : row[p] = "told" => p \in heard \/ p \in crossed

\* Nobody is mailed more often than the pack came back: overlapping drains may
\* repeat a mail, but only one edit is the restock.
OneMailPerRestock == \A p \in People : mails[p] <= comebacks

\* Whoever is left waiting for a pack that is on the shelf, with no edit at work,
\* asked while it was being restocked, saw it come back by a cancellation, or was
\* missed by a mail that failed or a drain that was cut off.
LeftWaitingHasACause ==
  \A p \in Waiting :
    stock > 0 /\ (\A d \in Drains : drain[d] = "idle") => cause[p] # "none"
=============================================================================
