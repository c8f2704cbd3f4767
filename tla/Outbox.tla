------------------------------- MODULE Outbox -------------------------------
(***************************************************************************)
(* The browser's half of placing an order: the checkout page, the outbox   *)
(* in IndexedDB that holds Cash on Delivery orders while there is no       *)
(* connection, and the drains of the service worker that send them.  The   *)
(* checkout is reached over a network that may lose a request or its       *)
(* response, and may still deliver a request the browser has given up on.  *)
(* Of the server only what Checkout promises is kept: one order per key,   *)
(* an answer for every outcome, and an online order that is written before *)
(* the payment provider has been asked.                                    *)
(***************************************************************************)
EXTENDS Integers, FiniteSets

CONSTANTS
  Keys,        \* idempotency keys, minted at most once each
  MaxBaskets,  \* bound: baskets the customer fills
  Drains,      \* drains of the outbox that may run at once
  MaxAdrift,   \* bound: requests on their way whose sender has given them up
  None         \* no key, no order, no request

ASSUME DrainsAssumption == Drains \cap {"page", "gone"} = {}

ASSUME BasketsAssumption == MaxBaskets \in Nat

VARIABLES
  page,      \* where the checkout page is
  keyRef,    \* idempotencyKeyRef.current
  method,    \* payment method of the attempt
  basket,    \* the basket in localStorage, 0 when empty
  baskets,   \* baskets filled so far
  basketOf,  \* history: the basket each key was minted for, 0 before
  dropped,   \* history: why the page gave the key up
  sync,      \* a drain has been asked for and has not begun
  outbox,    \* state of each entry, by key; "none" when there is none
  drain,     \* the drains of the service worker
  net,       \* requests the server has not finished with
  reply,     \* the response each sender has not read yet
  orders     \* the orders table, by key

page_      == <<page, keyRef, method>>
cart_      == <<basket, baskets, basketOf, dropped>>
vars       == <<page_, cart_, sync, outbox, drain, net, reply, orders>>

Methods    == {"cod", "razorpay"}
Senders    == {"page"} \cup Drains
\* What a response comes down to: an order to be paid now, any other order, a 4xx, an
\* error after which the page starts over (500 and the like, 429), a 503.
Statuses   == {"payable", "placed", "4xx", "500", "503"}
Requests   == [from : Senders \cup {"gone"}, key : Keys, method : Methods, at : {"sent", "provider"}]
OrderRows  == [method : Methods, attached : BOOLEAN]

ASSUME NoneAssumption == None \notin Keys /\ None \notin Statuses /\ None \notin OrderRows

IdleDrain  == [at |-> "idle", todo |-> {}, key |-> None]

TypeOK ==
  /\ page \in {"form", "sending", "paying", "queueing", "held", "away"}
  /\ keyRef \in Keys \cup {None} /\ method \in Methods
  /\ basket \in 0 .. MaxBaskets /\ baskets \in 0 .. MaxBaskets
  /\ basketOf \in [Keys -> 0 .. MaxBaskets]
  /\ dropped \in [Keys -> Statuses \cup {"no", "reload", "done"}]
  /\ sync \in BOOLEAN
  /\ outbox \in [Keys -> {"none", "pending", "placed", "failed"}]
  /\ drain \in [Drains -> [at : {"idle", "next", "waiting"}, todo : SUBSET Keys, key : Keys \cup {None}]]
  /\ net \in SUBSET Requests
  /\ reply \in [Senders -> Statuses \cup {None}]
  /\ orders \in [Keys -> OrderRows \cup {None}]

Init ==
  /\ page = "away" /\ keyRef = None /\ method = "cod"
  /\ basket = 0 /\ baskets = 0
  /\ basketOf = [k \in Keys |-> 0]
  /\ dropped = [k \in Keys |-> "no"]
  /\ sync = FALSE
  /\ outbox = [k \in Keys |-> "none"]
  /\ drain = [d \in Drains |-> IdleDrain]
  /\ net = {}
  /\ reply = [s \in Senders |-> None]
  /\ orders = [k \in Keys |-> None]

Exists(k) == orders[k] # None

(***************************************************************************)
(* The server.                                                             *)
(***************************************************************************)

\* Nobody reads the answer to a request its sender has given up.
Reply(r, status) ==
  reply' = IF r.from = "gone" THEN reply ELSE [reply EXCEPT ![r.from] = status]

Finish(r, status) == net' = net \ {r} /\ Reply(r, status)

\* Refused, throttled by the proxy, or failed before anything was written.  A replay
\* may be refused as well: for stock or a coupon its own order has used up.
Decline(r) ==
  /\ r.at = "sent"
  /\ \E status \in {"4xx", "500", "503"} : Finish(r, status)
  /\ UNCHANGED <<page_, cart_, sync, outbox, drain, orders>>

\* createOrder commits; the commit itself may go unacknowledged.
Create(r) ==
  /\ r.at = "sent" /\ ~Exists(r.key)
  /\ orders' = [orders EXCEPT ![r.key] = [method |-> r.method, attached |-> FALSE]]
  /\ \/ r.method = "cod" /\ Finish(r, "placed")
     \/ r.method = "razorpay" /\ net' = (net \ {r}) \cup {[r EXCEPT !.at = "provider"]}
                              /\ UNCHANGED reply
     \/ \E status \in {"500", "503"} : Finish(r, status)
  /\ UNCHANGED <<page_, cart_, sync, outbox, drain>>

\* createRazorpayOrder and attachRazorpayOrderId; either may fail.
Attach(r) ==
  /\ r.at = "provider"
  /\ \/ /\ orders' = [orders EXCEPT ![r.key].attached = TRUE]
        /\ Finish(r, "payable")
     \/ /\ \E status \in {"500", "503"} : Finish(r, status)
        /\ UNCHANGED orders
  /\ UNCHANGED <<page_, cart_, sync, outbox, drain>>

\* Fault: the window opens for any online order.
PayableIfOnline(order) == order.method = "razorpay"

\* The page opens the payment window for a Razorpay order with a Razorpay order id.
Payable(order) == order.method = "razorpay" /\ order.attached

\* ER_DUP_ENTRY: the order that was created the first time, whatever is asked now.
Replay(r) ==
  /\ r.at = "sent" /\ Exists(r.key)
  /\ Finish(r, IF Payable(orders[r.key]) THEN "payable" ELSE "placed")
  /\ UNCHANGED <<page_, cart_, sync, outbox, drain, orders>>

(***************************************************************************)
(* The checkout page.                                                      *)
(***************************************************************************)

Send(s, k, m) == net' = net \cup {[from |-> s, key |-> k, method |-> m, at |-> "sent"]}

Adrift == {r \in net : r.from = "gone"}

\* Whatever s is waiting for will not reach it any more; the request itself may be
\* lost, or arrive all the same.
GiveUp(s) ==
  LET mine == {r \in net : r.from = s}
  IN  /\ \E lost \in SUBSET {r \in mine : r.at = "sent"} :
           LET adrift == {[r EXCEPT !.from = "gone"] : r \in mine \ lost}
           IN  /\ Cardinality(Adrift \cup adrift) <= MaxAdrift
               /\ net' = (net \ mine) \cup adrift
      /\ reply' = [reply EXCEPT ![s] = None]

Take(s) == reply' = [reply EXCEPT ![s] = None]

DropKey(why) ==
  /\ keyRef' = None
  /\ dropped' = IF keyRef = None THEN dropped ELSE [dropped EXCEPT ![keyRef] = why]

FillBasket ==
  /\ page = "away" /\ basket = 0 /\ baskets < MaxBaskets
  /\ basket' = baskets + 1 /\ baskets' = baskets + 1
  /\ UNCHANGED <<page_, basketOf, dropped, sync, outbox, drain, net, reply, orders>>

\* The page is mounted, or left and mounted again: the key lives in a ref and the
\* basket in localStorage.
Open ==
  /\ basket # 0
  /\ page' = "form" /\ UNCHANGED <<method, basket, baskets, basketOf>>
  /\ DropKey("reload") /\ GiveUp("page")
  /\ UNCHANGED <<sync, outbox, drain, orders>>

Fresh == {k \in Keys : basketOf[k] = 0}

CurrentKey == IF keyRef # None THEN {keyRef} ELSE Fresh

Submit(m) ==
  /\ page = "form" /\ basket # 0
  /\ \E k \in CurrentKey :
       /\ keyRef' = k
       /\ basketOf' = [basketOf EXCEPT ![k] = basket]
       /\ Send("page", k, m)
  /\ page' = "sending" /\ method' = m
  /\ UNCHANGED <<basket, baskets, dropped, sync, outbox, drain, reply, orders>>

\* Fault: the key is given up with any error.
ForgetsKeyAlways(status) == TRUE

\* "A 503 keeps its key".
ForgetsKey(status) == status # "503"

ShowError ==
  /\ page = "sending" /\ reply["page"] \in {"4xx", "500", "503"}
  /\ page' = "form"
  /\ IF ForgetsKey(reply["page"]) THEN DropKey(reply["page"]) ELSE UNCHANGED <<keyRef, dropped>>
  /\ Take("page")
  /\ UNCHANGED <<method, basket, baskets, basketOf, sync, outbox, drain, net, orders>>

\* cartCleared, and the page is left.
Leave ==
  /\ page' = "away" /\ basket' = 0
  /\ DropKey("done")
  /\ UNCHANGED <<method, baskets, basketOf>>

\* The answer decides what happens next, not the method that was asked for.
OpenRazorpay ==
  /\ page = "sending" /\ reply["page"] = "payable"
  /\ page' = "paying"
  /\ Take("page")
  /\ UNCHANGED <<keyRef, method, cart_, sync, outbox, drain, net, orders>>

Confirmed ==
  /\ page = "sending" /\ reply["page"] = "placed"
  /\ Leave
  /\ Take("page")
  /\ UNCHANGED <<sync, outbox, drain, net, orders>>

\* The payment window: it does not load, is dismissed, or the payment succeeds.
Dismissed ==
  /\ page = "paying"
  /\ page' = "form"
  /\ UNCHANGED <<keyRef, method, cart_, sync, outbox, drain, net, reply, orders>>

Paid ==
  /\ page = "paying"
  /\ Leave
  /\ UNCHANGED <<sync, outbox, drain, net, reply, orders>>

\* fetch rejects: no connection, or one that dropped in mid-flight.
ConnectionDrops ==
  /\ page = "sending"
  /\ GiveUp("page")
  /\ page' = IF method = "cod" THEN "queueing" ELSE "form"
  /\ UNCHANGED <<keyRef, method, cart_, sync, outbox, drain, orders>>

\* Fault: the cart is cleared before IndexedDB has the entry.
HoldsOptimistically == /\ page = "queueing" /\ Leave /\ UNCHANGED outbox

\* queueOrder: the entry is stored, then the service worker is asked to drain.
Holds ==
  /\ page = "queueing"
  /\ page' = "held"
  /\ outbox' = [outbox EXCEPT ![keyRef] = "pending"]
  /\ UNCHANGED <<keyRef, method, cart_>>

Hold ==
  /\ Holds
  /\ sync' = TRUE
  /\ UNCHANGED <<drain, net, reply, orders>>

\* No IndexedDB, or the put fails.
CannotHold ==
  /\ page = "queueing"
  /\ page' = "form"
  /\ UNCHANGED <<keyRef, method, cart_, sync, outbox, drain, net, reply, orders>>

Queued ==
  /\ page = "held"
  /\ Leave
  /\ UNCHANGED <<sync, outbox, drain, net, reply, orders>>

(***************************************************************************)
(* The service worker and the page that reports on the outbox.             *)
(***************************************************************************)

\* The connection returns while a page with QueuedOrders on it is open.
Online ==
  /\ page = "away"
  /\ sync' = TRUE
  /\ UNCHANGED <<page_, cart_, outbox, drain, net, reply, orders>>

\* Forgetting an entry is offered once it is resolved.
ForgetEntry(k) ==
  /\ page = "away" /\ outbox[k] \in {"placed", "failed"}
  /\ outbox' = [outbox EXCEPT ![k] = "none"]
  /\ UNCHANGED <<page_, cart_, sync, drain, net, reply, orders>>

\* A sync or a message event; the drain reads the whole store once.
StartDrain(d) ==
  /\ sync /\ drain[d].at = "idle"
  /\ sync' = FALSE
  /\ drain' = [drain EXCEPT ![d] = [at |-> "next", todo |-> {k \in Keys : outbox[k] = "pending"}, key |-> None]]
  /\ UNCHANGED <<page_, cart_, outbox, net, reply, orders>>

SendEntry(d) ==
  /\ drain[d].at = "next"
  /\ \E k \in drain[d].todo :
       /\ drain' = [drain EXCEPT ![d] = [at |-> "waiting", todo |-> @.todo \ {k}, key |-> k]]
       /\ Send(d, k, "cod")
  /\ UNCHANGED <<page_, cart_, sync, outbox, reply, orders>>

EndDrain(d) ==
  /\ drain[d].at = "next" /\ drain[d].todo = {}
  /\ drain' = [drain EXCEPT ![d] = IdleDrain]
  /\ UNCHANGED <<page_, cart_, sync, outbox, net, reply, orders>>

\* Fault: whatever is not a 4xx is taken for an order.
PlacedUnlessRefused(status, state) == IF status = "4xx" THEN "failed" ELSE "placed"

\* Fault: the worker writes a state the page does not know.
ResolvedAsRefused(status, state) ==
  CASE status \in {"payable", "placed"} -> "placed"
    [] status = "4xx"                   -> "refused"
    [] OTHER                            -> state

\* A 4xx is a decision; after a 5xx or a throttle the entry stays as it is.
ResolvedAs(status, state) ==
  CASE status \in {"payable", "placed"} -> "placed"
    [] status = "4xx"                   -> "failed"
    [] OTHER                            -> state

ReadAnswer(d) ==
  /\ drain[d].at = "waiting" /\ reply[d] # None
  /\ outbox' = [outbox EXCEPT ![drain[d].key] = ResolvedAs(reply[d], @)]
  /\ drain' = [drain EXCEPT ![d].at = "next"]
  /\ Take(d)
  /\ UNCHANGED <<page_, cart_, sync, net, orders>>

\* fetch rejects, or the answer cannot be written back: the drain is over.
DrainStops(d) ==
  /\ drain[d].at = "waiting"
  /\ drain' = [drain EXCEPT ![d] = IdleDrain]
  /\ GiveUp(d)
  /\ UNCHANGED <<page_, cart_, sync, outbox, orders>>

Serve(r) == Decline(r) \/ Create(r) \/ Attach(r) \/ Replay(r)

Next ==
  \/ \E r \in net : Serve(r)
  \/ FillBasket \/ Open
  \/ \E m \in Methods : Submit(m)
  \/ ShowError \/ OpenRazorpay \/ Confirmed \/ Dismissed \/ Paid
  \/ ConnectionDrops \/ Hold \/ CannotHold \/ Queued
  \/ Online
  \/ \E k \in Keys : ForgetEntry(k)
  \/ \E d \in Drains : StartDrain(d) \/ SendEntry(d) \/ EndDrain(d) \/ ReadAnswer(d) \/ DrainStops(d)

Spec == Init /\ [][Next]_vars

\* A retry after a 503, a dropped connection or a dismissed payment, a held order
\* and however many drains make one order of a basket: for a second one the page
\* must have been told of a refusal or a 500, or been reloaded.
RetriesMakeOneOrder ==
  \A k, l \in Keys :
    k # l /\ Exists(k) /\ Exists(l) /\ basketOf[k] = basketOf[l]
      => {dropped[k], dropped[l]} \cap {"4xx", "500", "reload"} # {}

\* The cart is cleared only for an order that is in the table or in the outbox.
CartIsNotLost ==
  [][basket # 0 /\ basket' = 0 => Exists(keyRef) \/ outbox[keyRef] # "none"]_vars

\* An entry reported as sent and accepted is an order, whichever of the drains and
\* the page wrote last.
PlacedIsAnOrder == \A k \in Keys : outbox[k] = "placed" => Exists(k)

\* Whoever is asked to pay pays for an order of this key that a webhook can find.
PaysForItsOrder ==
  page = "paying" => orders[keyRef] = [method |-> "razorpay", attached |-> TRUE]
=============================================================================
