----------------------------- MODULE ClientsProofs -----------------------------
(***************************************************************************)
(* The two clients of the shop: the browser with its outbox, and the app.  *)
(***************************************************************************)
EXTENDS Outbox, Phone, TLAPS

(***************************************************************************)
(* Proofs about the browser's half of checkout, for any number of keys,    *)
(* baskets and drains.  KeyInv says what the page knows of its key, MintInv*)
(* that only minted keys travel, NetInv that what a sender waits for and   *)
(* what it is told agree with the orders table.                            *)
(***************************************************************************)

Minted(k) == basketOf[k] # 0

Blamed(k) == dropped[k] \in {"4xx", "500", "reload"}

KeyInv ==
  /\ keyRef # None => basket # 0 /\ basketOf[keyRef] = basket /\ dropped[keyRef] = "no"
  /\ page \in {"sending", "paying", "queueing", "held"} => keyRef # None
  /\ basket <= baskets
  /\ \A k \in Keys :
       /\ basketOf[k] <= baskets
       /\ dropped[k] # "no" => Minted(k)
       /\ Minted(k) /\ dropped[k] = "no" => k = keyRef
       /\ dropped[k] \in {"no", "done"} \/ Blamed(k)
       /\ dropped[k] = "done" => basketOf[k] # basket

OneUnblamed ==
  \A k, l \in Keys : k # l /\ Minted(k) /\ basketOf[k] = basketOf[l] => Blamed(k) \/ Blamed(l)

MintInv ==
  /\ \A k \in Keys : Exists(k) \/ outbox[k] # "none" => Minted(k)
  /\ \A r \in net : Minted(r.key)
  /\ \A d \in Drains : \A k \in drain[d].todo : Minted(k)
  /\ \A d \in Drains : drain[d].at = "waiting" => drain[d].key \in Keys /\ Minted(drain[d].key)

Waits(s) == IF s = "page" THEN page = "sending" ELSE drain[s].at = "waiting"

KeyOf(s) == IF s = "page" THEN keyRef ELSE drain[s].key

ToPay(k) == orders[k] = [method |-> "razorpay", attached |-> TRUE]

NetInv ==
  /\ \A r \in net : r.at = "provider" => Exists(r.key) /\ orders[r.key].method = "razorpay"
  /\ \A r \in net : r.from # "gone" => Waits(r.from) /\ r.key = KeyOf(r.from) /\ reply[r.from] = None
  /\ \A r, q \in net : r.from = q.from /\ r.from # "gone" => r = q
  /\ \A s \in Senders : reply[s] # None => Waits(s)
  /\ \A s \in Senders : reply[s] \in {"placed", "payable"} => Exists(KeyOf(s))
  /\ reply["page"] = "payable" => ToPay(keyRef)
  /\ page = "paying" => ToPay(keyRef)
  /\ page = "held" => outbox[keyRef] # "none"
  /\ PlacedIsAnOrder

IInv == TypeOK /\ KeyInv /\ OneUnblamed /\ MintInv /\ NetInv

LEMMA TypeInit == Init => TypeOK
<1> SUFFICES ASSUME Init PROVE TypeOK
  OBVIOUS
<1>1. drain \in [Drains -> [at : {"idle", "next", "waiting"}, todo : SUBSET Keys, key : Keys \cup {None}]]
  BY DEF Init, IdleDrain
<1>2. reply \in [Senders -> Statuses \cup {None}]
  BY DEF Init
<1>3. basketOf \in [Keys -> 0 .. MaxBaskets] /\ 0 \in 0 .. MaxBaskets
  BY BasketsAssumption DEF Init
<1> QED
  BY <1>1, <1>2, <1>3 DEF Init, TypeOK, Methods

\* What giving a request up does to the network.
LEMMA GiveUpFacts ==
  ASSUME TypeOK, NEW s \in Senders, GiveUp(s)
  PROVE  /\ net' \in SUBSET Requests
         /\ reply' = [reply EXCEPT ![s] = None] /\ reply' \in [Senders -> Statuses \cup {None}]
         /\ \A r \in net' : r.from # "gone" => r \in net /\ r.from # s
         /\ \A r \in net' : r.from = "gone" =>
              \E q \in net : r.key = q.key /\ r.method = q.method /\ r.at = q.at
<1> DEFINE mine == {r \in net : r.from = s}
<1>1. PICK lost \in SUBSET {r \in mine : r.at = "sent"} :
        net' = (net \ mine) \cup {[r EXCEPT !.from = "gone"] : r \in mine \ lost}
  BY DEF GiveUp, Adrift
<1>2. reply' = [reply EXCEPT ![s] = None] /\ reply' \in [Senders -> Statuses \cup {None}]
  BY DEF GiveUp, TypeOK
<1>3. \A q \in net : [q EXCEPT !.from = "gone"] \in Requests
  BY DEF TypeOK, Requests
<1>4. net' \in SUBSET Requests
  BY <1>1, <1>3 DEF TypeOK
<1>5. ASSUME NEW r \in net'
      PROVE  \/ r \in net /\ r.from # s
             \/ \E q \in net : r = [q EXCEPT !.from = "gone"]
  BY <1>1
<1>6. ASSUME NEW q \in net, NEW r, r = [q EXCEPT !.from = "gone"]
      PROVE  r.from = "gone" /\ r.key = q.key /\ r.method = q.method /\ r.at = q.at
  BY <1>6 DEF TypeOK, Requests
<1> QED
  BY <1>2, <1>4, <1>5, <1>6

LEMMA SendFacts ==
  ASSUME TypeOK, NEW s \in Senders, NEW k \in Keys, NEW m \in Methods, Send(s, k, m)
  PROVE  /\ net' \in SUBSET Requests
         /\ \A r \in net' : r \in net \/ (r.from = s /\ r.key = k /\ r.at = "sent")
  BY DEF TypeOK, Send, Requests, Senders

\* What the server does to one request: no order is changed but for being attached, one
\* request is answered or passed on to the provider.
LEMMA ServeFacts ==
  ASSUME TypeOK, NetInv, NEW r \in net, Serve(r)
  PROVE  /\ UNCHANGED <<page_, cart_, sync, outbox, drain>>
         /\ r \in Requests
         /\ orders' \in [Keys -> OrderRows \cup {None}]
         /\ \A k \in Keys : Exists(k) => /\ Exists(k)' /\ orders'[k].method = orders[k].method
                                         /\ ToPay(k) => ToPay(k)'
         /\ \A k \in Keys : Exists(k)' /\ ~Exists(k) => k = r.key
         /\ net' \in SUBSET Requests
         /\ \A q \in net' : \/ q \in net \ {r}
                            \/ /\ q = [r EXCEPT !.at = "provider"] /\ reply' = reply
                               /\ Exists(r.key)' /\ orders'[r.key].method = "razorpay"
         /\ reply' \in [Senders -> Statuses \cup {None}]
         /\ \A s \in Senders : \/ reply'[s] = reply[s]
                               \/ /\ s = r.from /\ net' = net \ {r}
                                  /\ reply'[s] \in {"placed", "payable"} => Exists(r.key)'
                                  /\ reply'[s] = "payable" => ToPay(r.key)'
<1>1. r \in Requests /\ r.key \in Keys /\ r.method \in Methods
  BY DEF TypeOK, Requests
<1>2. ASSUME NEW status \in Statuses, Finish(r, status)
      PROVE  /\ net' = net \ {r} /\ reply' \in [Senders -> Statuses \cup {None}]
             /\ \A s \in Senders : reply'[s] = reply[s] \/ (s = r.from /\ reply'[s] = status)
  BY <1>2 DEF Finish, Reply, TypeOK
<1>3. CASE Decline(r)
  <2>1. PICK status \in {"4xx", "500", "503"} : Finish(r, status)
    BY <1>3 DEF Decline
  <2>2. status \in Statuses /\ status \notin {"placed", "payable"}
    BY DEF Statuses
  <2> QED
    BY <1>1, <1>2, <1>3, <2>1, <2>2 DEF Decline, Exists, ToPay, TypeOK
<1>4. CASE Create(r)
  <2>1. /\ orders' = [orders EXCEPT ![r.key] = [method |-> r.method, attached |-> FALSE]]
        /\ ~Exists(r.key) /\ UNCHANGED <<page_, cart_, sync, outbox, drain>>
    BY <1>4 DEF Create
  <2>2. /\ orders' \in [Keys -> OrderRows \cup {None}]
        /\ Exists(r.key)' /\ orders'[r.key].method = r.method
        /\ \A k \in Keys : k # r.key => orders'[k] = orders[k]
    <3>1. [method |-> r.method, attached |-> FALSE] \in OrderRows
      BY <1>1 DEF OrderRows
    <3>2. orders \in [Keys -> OrderRows \cup {None}]
      BY DEF TypeOK
    <3>3. orders'[r.key] = [method |-> r.method, attached |-> FALSE] /\ \A k \in Keys : k # r.key => orders'[k] = orders[k]
      BY <1>1, <2>1, <3>2
    <3>4. orders' \in [Keys -> OrderRows \cup {None}]
      BY <2>1, <3>1, <3>2
    <3>5. orders'[r.key] # None
      BY <3>1, <3>3, NoneAssumption
    <3> QED
      BY <3>3, <3>4, <3>5 DEF Exists
  <2>3. /\ \A k \in Keys : Exists(k) => Exists(k)' /\ orders'[k].method = orders[k].method /\ (ToPay(k) => ToPay(k)')
        /\ \A k \in Keys : Exists(k)' /\ ~Exists(k) => k = r.key
    BY <2>1, <2>2 DEF Exists, ToPay
  <2>4. CASE r.method = "razorpay" /\ net' = (net \ {r}) \cup {[r EXCEPT !.at = "provider"]} /\ UNCHANGED reply
    <3>1. [r EXCEPT !.at = "provider"] \in Requests
      BY <1>1 DEF Requests
    <3>2. net' \in SUBSET Requests /\ reply' = reply /\ reply \in [Senders -> Statuses \cup {None}]
      BY <2>4, <3>1 DEF TypeOK
    <3>3. \A q \in net' : q \in net \ {r} \/ q = [r EXCEPT !.at = "provider"]
      BY <2>4
    <3>4. orders'[r.key].method = "razorpay"
      BY <2>2, <2>4
    <3> QED
      BY <1>1, <2>1, <2>2, <2>3, <3>2, <3>3, <3>4
  <2>5. CASE \E status \in {"placed", "500", "503"} : Finish(r, status)
    <3>1. PICK status \in {"placed", "500", "503"} : Finish(r, status)
      BY <2>5
    <3>2. status \in Statuses /\ status # "payable"
      BY DEF Statuses
    <3> QED
      BY <1>1, <1>2, <2>1, <2>2, <2>3, <3>1, <3>2 DEF TypeOK
  <2> QED
    BY <1>4, <2>4, <2>5 DEF Create
<1>5. CASE Attach(r)
  <2>1. Exists(r.key) /\ orders[r.key].method = "razorpay" /\ UNCHANGED <<page_, cart_, sync, outbox, drain>>
    BY <1>5 DEF Attach, NetInv
  <2>2. CASE orders' = [orders EXCEPT ![r.key].attached = TRUE] /\ Finish(r, "payable")
    <3>1. /\ orders[r.key] \in OrderRows
          /\ orders'[r.key] = [method |-> "razorpay", attached |-> TRUE]
          /\ \A k \in Keys : k # r.key => orders'[k] = orders[k]
      BY <1>1, <2>1, <2>2 DEF TypeOK, OrderRows, Exists
    <3>2. orders' \in [Keys -> OrderRows \cup {None}]
      BY <1>1, <2>2, <3>1 DEF TypeOK, OrderRows, Methods
    <3>3. Exists(r.key)' /\ ToPay(r.key)' /\ orders'[r.key].method = "razorpay"
      <4>1. [method |-> "razorpay", attached |-> TRUE] \in OrderRows
        BY DEF OrderRows, Methods
      <4>2. [method |-> "razorpay", attached |-> TRUE] # None
        BY <4>1, NoneAssumption
      <4> QED
        BY <3>1, <4>2 DEF Exists, ToPay
    <3>4. "payable" \in Statuses
      BY DEF Statuses
    <3>5. /\ \A k \in Keys : Exists(k) => Exists(k)' /\ orders'[k].method = orders[k].method /\ (ToPay(k) => ToPay(k)')
          /\ \A k \in Keys : Exists(k)' /\ ~Exists(k) => k = r.key
      BY <2>1, <3>1, <3>3 DEF Exists, ToPay
    <3>6. /\ net' = net \ {r} /\ net' \in SUBSET Requests /\ reply' \in [Senders -> Statuses \cup {None}]
          /\ \A s \in Senders : reply'[s] = reply[s] \/ s = r.from
      BY <1>2, <2>2, <3>4 DEF TypeOK
    <3> QED
      BY <1>1, <2>1, <3>2, <3>3, <3>5, <3>6
  <2>3. CASE UNCHANGED orders /\ \E status \in {"500", "503"} : Finish(r, status)
    <3>1. PICK status \in {"500", "503"} : Finish(r, status)
      BY <2>3
    <3>2. status \in Statuses /\ status \notin {"placed", "payable"}
      BY DEF Statuses
    <3> QED
      BY <1>1, <1>2, <2>1, <2>3, <3>1, <3>2 DEF Exists, ToPay, TypeOK
  <2> QED
    BY <1>5, <2>2, <2>3 DEF Attach
<1>6. CASE Replay(r)
  <2>1. /\ Exists(r.key) /\ UNCHANGED <<page_, cart_, sync, outbox, drain, orders>>
        /\ Finish(r, IF Payable(orders[r.key]) THEN "payable" ELSE "placed")
    BY <1>6 DEF Replay
  <2>2. Payable(orders[r.key]) => ToPay(r.key)
    BY <1>1, <2>1 DEF Payable, ToPay, Exists, TypeOK, OrderRows
  <2>3. PICK status \in {"payable", "placed"} : Finish(r, status) /\ (status = "payable" => ToPay(r.key))
    BY <2>1, <2>2
  <2>4. status \in Statuses
    BY DEF Statuses
  <2> QED
    BY <1>1, <1>2, <2>1, <2>3, <2>4 DEF Exists, ToPay, TypeOK
<1> QED
  BY <1>3, <1>4, <1>5, <1>6 DEF Serve

LEMMA TypeStep == TypeOK /\ NetInv /\ [Next]_vars => TypeOK'
<1> SUFFICES ASSUME TypeOK, NetInv, [Next]_vars PROVE TypeOK'
  OBVIOUS
<1> USE DEF page_, cart_
<1>1. ASSUME NEW r \in net, Serve(r) PROVE TypeOK'
  <2>1. UNCHANGED <<page_, cart_, sync, outbox, drain>> /\ orders' \in [Keys -> OrderRows \cup {None}]
        /\ net' \in SUBSET Requests /\ reply' \in [Senders -> Statuses \cup {None}]
    BY <1>1, ServeFacts
  <2> QED
    BY <2>1 DEF TypeOK
<1>2. CASE FillBasket
  <2>1. baskets + 1 \in 0 .. MaxBaskets
    BY <1>2, BasketsAssumption DEF FillBasket, TypeOK
  <2> QED
    BY <1>2, <2>1 DEF FillBasket, TypeOK
<1>3. CASE Open
  <2>1. net' \in SUBSET Requests /\ reply' \in [Senders -> Statuses \cup {None}]
    BY <1>3, GiveUpFacts DEF Open, Senders
  <2>2. keyRef' = None /\ dropped' \in [Keys -> Statuses \cup {"no", "reload", "done"}]
    BY <1>3 DEF Open, DropKey, TypeOK
  <2> QED
    BY <1>3, <2>1, <2>2 DEF Open, TypeOK
<1>4. ASSUME NEW m \in Methods, Submit(m) PROVE TypeOK'
  <2>1. PICK k \in CurrentKey : keyRef' = k /\ basketOf' = [basketOf EXCEPT ![k] = basket] /\ Send("page", k, m)
    BY <1>4 DEF Submit
  <2>2. k \in Keys
    BY <2>1 DEF CurrentKey, Fresh, TypeOK
  <2>3. net' \in SUBSET Requests
    BY <2>1, <2>2, SendFacts DEF Senders
  <2>4. basketOf' \in [Keys -> 0 .. MaxBaskets]
    BY <2>1 DEF TypeOK
  <2> QED
    BY <1>4, <2>1, <2>2, <2>3, <2>4 DEF Submit, TypeOK
<1>5. CASE ShowError
  <2>1. reply' \in [Senders -> Statuses \cup {None}]
    BY <1>5 DEF ShowError, Take, TypeOK
  <2>2. reply["page"] \in Statuses
    BY <1>5 DEF ShowError, Statuses
  <2>3. keyRef' \in Keys \cup {None} /\ dropped' \in [Keys -> Statuses \cup {"no", "reload", "done"}]
    BY <1>5, <2>2 DEF ShowError, DropKey, TypeOK
  <2> QED
    BY <1>5, <2>1, <2>3 DEF ShowError, TypeOK
<1>6. ASSUME Leave PROVE /\ page' \in {"form", "sending", "paying", "queueing", "held", "away"}
                         /\ keyRef' \in Keys \cup {None} /\ method' \in Methods
                         /\ basket' \in 0 .. MaxBaskets /\ baskets' \in 0 .. MaxBaskets
                         /\ basketOf' \in [Keys -> 0 .. MaxBaskets]
                         /\ dropped' \in [Keys -> Statuses \cup {"no", "reload", "done"}]
  <2>1. keyRef' = None /\ dropped' \in [Keys -> Statuses \cup {"no", "reload", "done"}]
    BY <1>6 DEF Leave, DropKey, TypeOK
  <2>2. 0 \in 0 .. MaxBaskets
    BY BasketsAssumption
  <2> QED
    BY <1>6, <2>1, <2>2 DEF Leave, TypeOK
<1>7. CASE OpenRazorpay
  BY <1>7 DEF OpenRazorpay, Take, TypeOK
<1>8. CASE Confirmed
  <2>1. reply' \in [Senders -> Statuses \cup {None}]
    BY <1>8 DEF Confirmed, Take, TypeOK
  <2> QED
    BY <1>6, <1>8, <2>1 DEF Confirmed, TypeOK
<1>9. CASE Dismissed
  BY <1>9 DEF Dismissed, TypeOK
<1>10. CASE Paid
  BY <1>6, <1>10 DEF Paid, TypeOK
<1>11. CASE ConnectionDrops
  <2>1. net' \in SUBSET Requests /\ reply' \in [Senders -> Statuses \cup {None}]
    BY <1>11, GiveUpFacts DEF ConnectionDrops, Senders
  <2>2. page' \in {"queueing", "form"}
    BY <1>11 DEF ConnectionDrops
  <2> QED
    BY <1>11, <2>1, <2>2 DEF ConnectionDrops, TypeOK
<1>12. CASE Hold
  <2>1. outbox' \in [Keys -> {"none", "pending", "placed", "failed"}]
    BY <1>12 DEF Hold, Holds, TypeOK
  <2> QED
    BY <1>12, <2>1 DEF Hold, Holds, TypeOK
<1>13. CASE CannotHold
  BY <1>13 DEF CannotHold, TypeOK
<1>14. CASE Queued
  BY <1>6, <1>14 DEF Queued, TypeOK
<1>15. CASE Online
  BY <1>15 DEF Online, TypeOK
<1>16. ASSUME NEW k \in Keys, ForgetEntry(k) PROVE TypeOK'
  BY <1>16 DEF ForgetEntry, TypeOK
<1>17. ASSUME NEW d \in Drains, StartDrain(d) PROVE TypeOK'
  <2>1. [at |-> "next", todo |-> {k \in Keys : outbox[k] = "pending"}, key |-> None]
          \in [at : {"idle", "next", "waiting"}, todo : SUBSET Keys, key : Keys \cup {None}]
    OBVIOUS
  <2> QED
    BY <1>17, <2>1 DEF StartDrain, TypeOK
<1>18. ASSUME NEW d \in Drains, SendEntry(d) PROVE TypeOK'
  <2>1. PICK k \in drain[d].todo : /\ drain' = [drain EXCEPT ![d] = [at |-> "waiting", todo |-> @.todo \ {k}, key |-> k]]
                                   /\ Send(d, k, "cod")
    BY <1>18 DEF SendEntry
  <2>2. k \in Keys /\ drain[d].todo \ {k} \in SUBSET Keys
    BY <2>1 DEF TypeOK
  <2>3. net' \in SUBSET Requests
    BY <2>1, <2>2, SendFacts DEF Senders, Methods
  <2>4. [at |-> "waiting", todo |-> drain[d].todo \ {k}, key |-> k]
          \in [at : {"idle", "next", "waiting"}, todo : SUBSET Keys, key : Keys \cup {None}]
    BY <2>2
  <2>5. drain' \in [Drains -> [at : {"idle", "next", "waiting"}, todo : SUBSET Keys, key : Keys \cup {None}]]
    BY <2>1, <2>4 DEF TypeOK
  <2> QED
    BY <1>18, <2>3, <2>5 DEF SendEntry, TypeOK
<1>19. IdleDrain \in [at : {"idle", "next", "waiting"}, todo : SUBSET Keys, key : Keys \cup {None}]
  BY DEF IdleDrain
<1>20. ASSUME NEW d \in Drains, EndDrain(d) PROVE TypeOK'
  BY <1>19, <1>20 DEF EndDrain, TypeOK
<1>21. ASSUME NEW d \in Drains, ReadAnswer(d) PROVE TypeOK'
  <2>1. reply' \in [Senders -> Statuses \cup {None}]
    BY <1>21 DEF ReadAnswer, Take, TypeOK
  <2>2. drain' \in [Drains -> [at : {"idle", "next", "waiting"}, todo : SUBSET Keys, key : Keys \cup {None}]]
    BY <1>21 DEF ReadAnswer, TypeOK
  <2>3. \A st \in {"none", "pending", "placed", "failed"} :
          ResolvedAs(reply[d], st) \in {"none", "pending", "placed", "failed"}
    BY DEF ResolvedAs
  <2>4. outbox' \in [Keys -> {"none", "pending", "placed", "failed"}]
    BY <1>21, <2>3 DEF ReadAnswer, TypeOK
  <2> QED
    BY <1>21, <2>1, <2>2, <2>4 DEF ReadAnswer, TypeOK
<1>22. ASSUME NEW d \in Drains, DrainStops(d) PROVE TypeOK'
  <2>1. net' \in SUBSET Requests /\ reply' \in [Senders -> Statuses \cup {None}]
    BY <1>22, GiveUpFacts DEF DrainStops, Senders
  <2> QED
    BY <1>19, <1>22, <2>1 DEF DrainStops, TypeOK
<1>23. CASE UNCHANGED vars
  BY <1>23 DEF vars, TypeOK
<1> QED
  BY <1>1, <1>2, <1>3, <1>4, <1>5, <1>7, <1>8, <1>9, <1>10, <1>11, <1>12, <1>13, <1>14, <1>15,
     <1>16, <1>17, <1>18, <1>20, <1>21, <1>22, <1>23 DEF Next

\* A step that keeps the cart and the key, and comes to no page that needs a key.
LEMMA SameKey ==
  ASSUME KeyInv, OneUnblamed, UNCHANGED <<cart_, keyRef>>,
         page' \in {"sending", "paying", "queueing", "held"} => keyRef # None
  PROVE  KeyInv' /\ OneUnblamed'
BY DEF KeyInv, OneUnblamed, Minted, Blamed, cart_

\* A key given up: none is in use, and whoever shared its basket is still accounted for.
LEMMA DropFacts ==
  ASSUME TypeOK, KeyInv, OneUnblamed, NEW why \in {"4xx", "500", "reload", "done"}, DropKey(why),
         UNCHANGED <<basketOf, baskets>>,
         page' \notin {"sending", "paying", "queueing", "held"},
         basket' \in {0, basket}, why = "done" => basket' = 0
  PROVE  KeyInv' /\ OneUnblamed'
<1>1. keyRef' = None /\ basket \in Nat /\ baskets \in Nat
  BY DEF DropKey, TypeOK
<1>2. \A k \in Keys : dropped'[k] = IF k = keyRef THEN why ELSE dropped[k]
  <2>1. CASE keyRef = None
    BY <2>1, NoneAssumption DEF DropKey
  <2>2. CASE keyRef # None
    <3>1. dropped' = [dropped EXCEPT ![keyRef] = why] /\ keyRef \in Keys
      BY <2>2 DEF DropKey, TypeOK
    <3> QED
      BY <3>1 DEF TypeOK
  <2> QED
    BY <2>1, <2>2
<1>3. \A k \in Keys : Blamed(k) => Blamed(k)'
  BY <1>2, NoneAssumption DEF Blamed, KeyInv
<1>4. OneUnblamed'
  BY <1>3 DEF OneUnblamed, Minted
<1>5. ASSUME NEW k \in Keys
      PROVE  /\ basketOf'[k] <= baskets'
             /\ dropped'[k] # "no" => Minted(k)'
             /\ Minted(k)' /\ dropped'[k] = "no" => k = keyRef'
             /\ dropped'[k] \in {"no", "done"} \/ Blamed(k)'
             /\ dropped'[k] = "done" => basketOf'[k] # basket'
  <2>1. CASE k = keyRef
    BY <1>1, <1>2, <2>1, NoneAssumption DEF KeyInv, Minted, Blamed
  <2>2. CASE k # keyRef
    <3>1. dropped'[k] = dropped[k] /\ basketOf'[k] = basketOf[k]
      BY <1>2, <2>2
    <3>2. dropped[k] = "done" => basketOf[k] # basket'
      BY DEF KeyInv, Minted
    <3> QED
      BY <1>1, <2>2, <3>1, <3>2 DEF KeyInv, Minted, Blamed
  <2> QED
    BY <2>1, <2>2
<1>6. basket' <= baskets'
  BY <1>1 DEF KeyInv
<1> QED
  BY <1>1, <1>4, <1>5, <1>6 DEF KeyInv

LEMMA KeyStep == TypeOK /\ NetInv /\ KeyInv /\ OneUnblamed /\ [Next]_vars => KeyInv' /\ OneUnblamed'
<1> SUFFICES ASSUME TypeOK, NetInv, KeyInv, OneUnblamed, [Next]_vars PROVE KeyInv' /\ OneUnblamed'
  OBVIOUS
<1>1. ASSUME NEW r \in net, Serve(r) PROVE KeyInv' /\ OneUnblamed'
  BY <1>1, ServeFacts, SameKey DEF page_, KeyInv
<1>2. CASE FillBasket
  <2>1. keyRef = None /\ keyRef' = None /\ page' = "away"
    BY <1>2 DEF FillBasket, KeyInv, page_
  <2>2. basket' = baskets + 1 /\ baskets' = baskets + 1 /\ baskets \in Nat
        /\ UNCHANGED <<basketOf, dropped>> /\ basketOf \in [Keys -> Nat]
    BY <1>2 DEF FillBasket, TypeOK
  <2>3. ASSUME NEW k \in Keys PROVE basketOf[k] <= baskets' /\ basketOf[k] # basket'
    <3>1. basketOf[k] <= baskets /\ basketOf[k] \in Nat
      BY <2>2 DEF KeyInv
    <3> QED
      BY <2>2, <3>1
  <2>4. KeyInv'
    BY <2>1, <2>2, <2>3 DEF KeyInv, Minted, Blamed
  <2> QED
    BY <2>2, <2>4 DEF OneUnblamed, Minted, Blamed
<1>3. CASE Open
  BY <1>3, DropFacts DEF Open
<1>4. ASSUME NEW m \in Methods, Submit(m) PROVE KeyInv' /\ OneUnblamed'
  <2>1. PICK k \in CurrentKey : keyRef' = k /\ basketOf' = [basketOf EXCEPT ![k] = basket]
    BY <1>4 DEF Submit
  <2>2. k \in Keys /\ basket # 0 /\ basket' = basket /\ baskets' = baskets /\ dropped' = dropped
    BY <1>4, <2>1 DEF CurrentKey, Fresh, TypeOK, Submit
  <2>3. basketOf'[k] = basket /\ \A l \in Keys : l # k => basketOf'[l] = basketOf[l]
    BY <2>1, <2>2 DEF TypeOK
  <2>4. dropped[k] = "no"
    BY <2>1, <2>2 DEF CurrentKey, Fresh, KeyInv, Minted
  <2>5. ASSUME NEW l \in Keys, l # k, Minted(l), dropped[l] = "no" PROVE FALSE
    BY <2>1, <2>2, <2>5, NoneAssumption DEF CurrentKey, KeyInv
  <2>6. ASSUME NEW l \in Keys, l # k, basketOf[l] = basket PROVE Blamed(l)
    BY <2>2, <2>5, <2>6 DEF KeyInv, Minted
  <2>7. KeyInv'
    <3>1. keyRef' # None => basket' # 0 /\ basketOf'[keyRef'] = basket' /\ dropped'[keyRef'] = "no"
      BY <2>1, <2>2, <2>3, <2>4
    <3>2. page' = "sending" /\ keyRef' # None
      BY <1>4, <2>1, <2>2, NoneAssumption DEF Submit
    <3>3. basket <= baskets
      BY DEF KeyInv
    <3>4. ASSUME NEW l \in Keys
          PROVE  /\ basketOf'[l] <= baskets'
                 /\ dropped'[l] # "no" => Minted(l)'
                 /\ Minted(l)' /\ dropped'[l] = "no" => l = keyRef'
                 /\ dropped'[l] \in {"no", "done"} \/ Blamed(l)'
                 /\ dropped'[l] = "done" => basketOf'[l] # basket'
      <4>1. CASE l = k
        BY <2>1, <2>2, <2>3, <2>4, <3>3, <4>1
      <4>2. CASE l # k
        BY <2>1, <2>2, <2>3, <2>5, <4>2 DEF KeyInv, Minted, Blamed
      <4> QED
        BY <4>1, <4>2
    <3> QED
      BY <2>2, <3>1, <3>2, <3>3, <3>4 DEF KeyInv
  <2>8. OneUnblamed'
    <3>1. ASSUME NEW i \in Keys, NEW j \in Keys, i # j, Minted(i)', basketOf'[i] = basketOf'[j]
          PROVE  Blamed(i) \/ Blamed(j)
      <4>1. CASE i = k
        BY <2>3, <2>6, <3>1, <4>1
      <4>2. CASE j = k
        BY <2>3, <2>6, <3>1, <4>2
      <4>3. CASE i # k /\ j # k
        BY <2>3, <3>1, <4>3 DEF OneUnblamed, Minted
      <4> QED
        BY <4>1, <4>2, <4>3
    <3> QED
      BY <2>2, <3>1 DEF OneUnblamed, Blamed
  <2> QED
    BY <2>7, <2>8
<1>5. CASE ShowError
  <2>1. CASE ForgetsKey(reply["page"])
    <3>1. reply["page"] \in {"4xx", "500"}
      BY <1>5, <2>1 DEF ShowError, ForgetsKey
    <3> QED
      BY <1>5, <2>1, <3>1, DropFacts DEF ShowError
  <2>2. CASE ~ForgetsKey(reply["page"])
    BY <1>5, <2>2, SameKey DEF ShowError, cart_
  <2> QED
    BY <2>1, <2>2
<1>6. ASSUME Leave PROVE KeyInv' /\ OneUnblamed'
  BY <1>6, DropFacts DEF Leave
<1>7. CASE OpenRazorpay
  BY <1>7, SameKey DEF OpenRazorpay, KeyInv
<1>8. CASE Confirmed \/ Paid \/ Queued
  BY <1>6, <1>8 DEF Confirmed, Paid, Queued
<1>9. CASE Dismissed \/ CannotHold \/ Online
  BY <1>9, SameKey DEF Dismissed, CannotHold, Online, page_
<1>10. CASE ConnectionDrops \/ Hold
  BY <1>10, SameKey DEF ConnectionDrops, Hold, Holds, KeyInv
<1>11. ASSUME NEW k \in Keys, ForgetEntry(k) PROVE KeyInv' /\ OneUnblamed'
  BY <1>11, SameKey DEF ForgetEntry, page_, KeyInv
<1>12. ASSUME NEW d \in Drains,
              StartDrain(d) \/ SendEntry(d) \/ EndDrain(d) \/ ReadAnswer(d) \/ DrainStops(d)
       PROVE  KeyInv' /\ OneUnblamed'
  BY <1>12, SameKey DEF StartDrain, SendEntry, EndDrain, ReadAnswer, DrainStops, page_, KeyInv
<1>13. CASE UNCHANGED vars
  BY <1>13, SameKey DEF vars, page_, KeyInv
<1> QED
  BY <1>1, <1>2, <1>3, <1>4, <1>5, <1>7, <1>8, <1>9, <1>10, <1>11, <1>12, <1>13 DEF Next

LEMMA MintStep == TypeOK /\ NetInv /\ KeyInv /\ MintInv /\ [Next]_vars => MintInv'
<1> SUFFICES ASSUME TypeOK, NetInv, KeyInv, MintInv, [Next]_vars PROVE MintInv'
  OBVIOUS
<1> USE DEF page_, cart_
<1>1. ASSUME NEW r \in net, Serve(r) PROVE MintInv'
  <2>1. \A k \in Keys : Minted(k)' = Minted(k)
    BY <1>1, ServeFacts DEF Minted
  <2>2. ASSUME NEW k \in Keys, Exists(k)' \/ outbox'[k] # "none" PROVE Minted(k)
    BY <1>1, <2>2, ServeFacts DEF MintInv
  <2>3. ASSUME NEW q \in net' PROVE Minted(q.key) /\ q.key \in Keys
    BY <1>1, ServeFacts DEF MintInv, Requests
  <2> QED
    BY <1>1, <2>1, <2>2, <2>3, ServeFacts DEF MintInv, Minted
<1>2. ASSUME UNCHANGED <<basketOf, orders, drain>>,
             \A k \in Keys : outbox'[k] # "none" => outbox[k] # "none" \/ k = keyRef,
             net' = net \/ \E s \in Senders : GiveUp(s)
      PROVE  MintInv'
  <2>1. \A r \in net' : \E q \in net : r.key = q.key
    BY <1>2, GiveUpFacts
  <2>2. keyRef \in Keys => Minted(keyRef)
    BY NoneAssumption DEF KeyInv, Minted
  <2> QED
    BY <1>2, <2>1, <2>2 DEF MintInv, Minted, Exists
<1>3. CASE FillBasket
  BY <1>2, <1>3 DEF FillBasket
<1>4. CASE Open
  BY <1>2, <1>4 DEF Open, Senders
<1>5. ASSUME NEW m \in Methods, Submit(m) PROVE MintInv'
  <2>1. PICK k \in CurrentKey : basketOf' = [basketOf EXCEPT ![k] = basket] /\ Send("page", k, m)
    BY <1>5 DEF Submit
  <2>2. k \in Keys /\ basket # 0 /\ UNCHANGED <<orders, outbox, drain>>
    BY <1>5, <2>1 DEF CurrentKey, Fresh, TypeOK, Submit
  <2>3. Minted(k)' /\ \A l \in Keys : Minted(l) => Minted(l)'
    BY <2>1, <2>2 DEF Minted, TypeOK
  <2>4. \A r \in net' : r \in net \/ r.key = k
    BY <2>1, <2>2, SendFacts DEF Senders
  <2>5. \A r \in net : r.key \in Keys
    BY DEF TypeOK, Requests
  <2>6. \A d \in Drains : drain[d].todo \subseteq Keys
    BY DEF TypeOK
  <2> QED
    BY <2>2, <2>3, <2>4, <2>5, <2>6 DEF MintInv, Exists
<1>6. CASE ShowError
  BY <1>2, <1>6 DEF ShowError
<1>7. CASE OpenRazorpay \/ Confirmed \/ Dismissed \/ Paid \/ CannotHold \/ Queued \/ Online
  BY <1>2, <1>7 DEF OpenRazorpay, Confirmed, Dismissed, Paid, CannotHold, Queued, Online, Leave
<1>8. CASE ConnectionDrops
  BY <1>2, <1>8 DEF ConnectionDrops, Senders
<1>9. CASE Hold
  BY <1>2, <1>9 DEF Hold, Holds, TypeOK
<1>10. ASSUME NEW k \in Keys, ForgetEntry(k) PROVE MintInv'
  BY <1>2, <1>10 DEF ForgetEntry, TypeOK
<1>11. ASSUME NEW d \in Drains, StartDrain(d) PROVE MintInv'
  <2>1. UNCHANGED <<basketOf, orders, outbox, net>>
    BY <1>11 DEF StartDrain
  <2>2. drain'[d].todo = {k \in Keys : outbox[k] = "pending"} /\ drain'[d].at = "next"
        /\ \A e \in Drains : e # d => drain'[e] = drain[e]
    BY <1>11 DEF StartDrain, TypeOK
  <2> QED
    BY <2>1, <2>2 DEF MintInv, Minted, Exists
<1>12. ASSUME NEW d \in Drains, SendEntry(d) PROVE MintInv'
  <2>1. PICK k \in drain[d].todo : /\ drain' = [drain EXCEPT ![d] = [at |-> "waiting", todo |-> @.todo \ {k}, key |-> k]]
                                   /\ Send(d, k, "cod")
    BY <1>12 DEF SendEntry
  <2>2. k \in Keys /\ Minted(k) /\ UNCHANGED <<basketOf, orders, outbox>>
    BY <1>12, <2>1 DEF SendEntry, TypeOK, MintInv
  <2>3. drain'[d].todo \subseteq drain[d].todo /\ drain'[d].key = k
        /\ \A e \in Drains : e # d => drain'[e] = drain[e]
    BY <2>1 DEF TypeOK
  <2>4. \A r \in net' : r \in net \/ r.key = k
    BY <2>1, <2>2, SendFacts DEF Senders, Methods
  <2> QED
    BY <2>2, <2>3, <2>4 DEF MintInv, Minted, Exists
<1>13. ASSUME NEW d \in Drains, drain' = [drain EXCEPT ![d] = IdleDrain] \/ drain' = [drain EXCEPT ![d].at = "next"],
              UNCHANGED <<basketOf, orders>>,
              \A k \in Keys : outbox'[k] # "none" => outbox[k] # "none" \/ Minted(k),
              net' = net \/ GiveUp(d)
       PROVE  MintInv'
  <2>1. \A r \in net' : \E q \in net : r.key = q.key
    BY <1>13, GiveUpFacts DEF Senders
  <2>2. drain'[d].todo \subseteq drain[d].todo /\ drain'[d].at # "waiting"
        /\ \A e \in Drains : e # d => drain'[e] = drain[e]
    BY <1>13 DEF TypeOK, IdleDrain
  <2> QED
    BY <1>13, <2>1, <2>2 DEF MintInv, Minted, Exists
<1>14. ASSUME NEW d \in Drains, EndDrain(d) PROVE MintInv'
  BY <1>13, <1>14 DEF EndDrain
<1>15. ASSUME NEW d \in Drains, ReadAnswer(d) PROVE MintInv'
  <2>1. UNCHANGED <<basketOf, orders, net>> /\ drain' = [drain EXCEPT ![d].at = "next"]
    BY <1>15 DEF ReadAnswer
  <2>2. \A k \in Keys : k # drain[d].key => outbox'[k] = outbox[k]
    BY <1>15 DEF ReadAnswer, TypeOK
  <2>3. Minted(drain[d].key)
    BY <1>15 DEF ReadAnswer, MintInv
  <2> QED
    BY <1>13, <2>1, <2>2, <2>3
<1>16. ASSUME NEW d \in Drains, DrainStops(d) PROVE MintInv'
  BY <1>13, <1>16 DEF DrainStops
<1>17. CASE UNCHANGED vars
  BY <1>2, <1>17 DEF vars
<1> QED
  BY <1>1, <1>3, <1>4, <1>5, <1>6, <1>7, <1>8, <1>9, <1>10, <1>11, <1>12, <1>14, <1>15, <1>16, <1>17 DEF Next

\* What has to be shown of a step of the browser: who waits for what afterwards.
LEMMA BrowserFacts ==
  ASSUME NetInv, UNCHANGED orders,
         \A r \in net' : r.at = "sent" \/ \E q \in net : r.key = q.key /\ r.at = q.at,
         \A r \in net' : r.from # "gone" => Waits(r.from)' /\ r.key = KeyOf(r.from)' /\ reply'[r.from] = None,
         \A r, q \in net' : r.from = q.from /\ r.from # "gone" => r = q,
         \A s \in Senders : reply'[s] # None => Waits(s)' /\ KeyOf(s)' = KeyOf(s) /\ reply'[s] = reply[s],
         reply'["page"] = "payable" => keyRef' = keyRef,
         page' = "paying" => ToPay(keyRef) /\ keyRef' = keyRef,
         page' = "held" => outbox'[keyRef'] # "none",
         PlacedIsAnOrder'
  PROVE  NetInv'
<1>1. \A r \in net' : r.at = "provider" => Exists(r.key)' /\ orders'[r.key].method = "razorpay"
  BY DEF NetInv, Exists
<1>2. \A s \in Senders : reply'[s] \in {"placed", "payable"} => Exists(KeyOf(s))'
  BY NoneAssumption DEF NetInv, Exists, Statuses
<1>3. reply'["page"] = "payable" => ToPay(keyRef)'
  BY NoneAssumption DEF NetInv, ToPay, Statuses, Senders
<1>4. page' = "paying" => ToPay(keyRef)'
  BY DEF ToPay
<1> QED
  BY <1>1, <1>2, <1>3, <1>4 DEF NetInv

\* The page never waits for a drain, nor a drain for the page.
LEMMA Waiting ==
  /\ "page" \in Senders /\ "gone" \notin Senders
  /\ Waits("page") = (page = "sending") /\ KeyOf("page") = keyRef
  /\ \A d \in Drains : d # "page" /\ d \in Senders /\ Waits(d) = (drain[d].at = "waiting") /\ KeyOf(d) = drain[d].key
BY DrainsAssumption DEF Senders, Waits, KeyOf

\* A step that neither sends, nor gives up, nor reads an answer.
LEMMA Undisturbed ==
  ASSUME TypeOK, NetInv, UNCHANGED <<net, reply, orders>>,
         page = "sending" => page' = "sending" /\ keyRef' = keyRef,
         \A d \in Drains : drain[d].at = "waiting" => drain'[d] = drain[d],
         page' = "paying" => page = "paying" /\ keyRef' = keyRef,
         page' = "held" => outbox'[keyRef'] # "none",
         \A k \in Keys : outbox'[k] = "placed" => outbox[k] = "placed"
  PROVE  NetInv'
<1>1. \A s \in Senders : Waits(s) => Waits(s)' /\ KeyOf(s)' = KeyOf(s)
  BY DEF Senders, Waits, KeyOf
<1>2. \A r \in net : r.from # "gone" => r.from \in Senders
  BY DEF TypeOK, Requests
<1>3. \A r \in net' : r.at = "sent" \/ \E q \in net : r.key = q.key /\ r.at = q.at
  OBVIOUS
<1>4. \A r \in net' : r.from # "gone" => Waits(r.from)' /\ r.key = KeyOf(r.from)' /\ reply'[r.from] = None
  BY <1>1, <1>2 DEF NetInv
<1>5. \A s \in Senders : reply'[s] # None => Waits(s)' /\ KeyOf(s)' = KeyOf(s) /\ reply'[s] = reply[s]
  BY <1>1 DEF NetInv
<1>6. reply'["page"] = "payable" => keyRef' = keyRef
  BY Waiting, NoneAssumption DEF NetInv, Statuses
<1>7. PlacedIsAnOrder'
  BY DEF NetInv, PlacedIsAnOrder, Exists
<1>8. page' = "paying" => ToPay(keyRef) /\ keyRef' = keyRef
  BY DEF NetInv
<1>9. \A r, q \in net' : r.from = q.from /\ r.from # "gone" => r = q
  BY DEF NetInv
<1> QED
  BY ONLY BrowserFacts, NetInv, <1>3, <1>4, <1>5, <1>6, <1>7, <1>8, <1>9, UNCHANGED orders,
          page' = "held" => outbox'[keyRef'] # "none"

\* A step in which s, that did not wait, sends a request and waits for it.
LEMMA Sends ==
  ASSUME TypeOK, NetInv, NEW s \in Senders, NEW k \in Keys, NEW m \in Methods, Send(s, k, m),
         ~Waits(s), Waits(s)', KeyOf(s)' = k, UNCHANGED <<reply, orders, outbox>>,
         \A t \in Senders : t # s => Waits(t)' = Waits(t) /\ KeyOf(t)' = KeyOf(t),
         s # "page" => UNCHANGED <<page, keyRef>>,
         s = "page" => page' = "sending"
  PROVE  NetInv'
<1>1. reply[s] = None /\ \A r \in net : r.from # s
  BY Waiting DEF NetInv
<1>2. PICK new \in Requests : /\ new.from = s /\ new.key = k /\ new.at = "sent"
                              /\ net' = net \cup {new}
  BY DEF Send, Requests
<1>3. \A r \in net : r.from # "gone" => r.from \in Senders
  BY DEF TypeOK, Requests
<1>4. \A r \in net' : r.at = "sent" \/ \E q \in net : r.key = q.key /\ r.at = q.at
  BY <1>2
<1>5. \A r \in net' : r.from # "gone" => Waits(r.from)' /\ r.key = KeyOf(r.from)' /\ reply'[r.from] = None
  BY <1>1, <1>2, <1>3 DEF NetInv
<1>6. \A r, q \in net' : r.from = q.from /\ r.from # "gone" => r = q
  BY <1>1, <1>2 DEF NetInv
<1>7. \A t \in Senders : reply'[t] # None => Waits(t)' /\ KeyOf(t)' = KeyOf(t) /\ reply'[t] = reply[t]
  BY <1>1 DEF NetInv
<1>8. reply'["page"] = "payable" => keyRef' = keyRef
  BY <1>1, NoneAssumption DEF Statuses
<1>9. page' = "paying" => ToPay(keyRef) /\ keyRef' = keyRef
  BY DEF NetInv
<1>10. page' = "held" => outbox'[keyRef'] # "none"
  BY DEF NetInv
<1>11. PlacedIsAnOrder'
  BY DEF NetInv, PlacedIsAnOrder, Exists
<1> QED
  BY <1>4, <1>5, <1>6, <1>7, <1>8, <1>9, <1>10, <1>11, BrowserFacts

\* A step in which s stops waiting: it reads its answer or gives its request up.
LEMMA Stops ==
  ASSUME TypeOK, NetInv, NEW s \in Senders, UNCHANGED orders,
         GiveUp(s) \/ (reply[s] # None /\ net' = net /\ Take(s)),
         \A t \in Senders : t # s => Waits(t)' = Waits(t) /\ KeyOf(t)' = KeyOf(t),
         s # "page" => UNCHANGED <<page, keyRef>>,
         page' = "paying" => ToPay(keyRef) /\ keyRef' = keyRef,
         page' = "held" => outbox'[keyRef'] # "none",
         PlacedIsAnOrder'
  PROVE  NetInv'
<1>1. /\ reply' = [reply EXCEPT ![s] = None]
      /\ \A r \in net' : r.from # "gone" => r \in net /\ r.from # s
      /\ \A r \in net' : r \in net \/ \E q \in net : r.key = q.key /\ r.at = q.at
  <2>1. CASE GiveUp(s)
    <3>1. \A r \in net' : r.from = "gone" => \E q \in net : r.key = q.key /\ r.at = q.at
      BY <2>1, GiveUpFacts
    <3>2. \A r \in net' : r.from # "gone" => r \in net /\ r.from # s
      BY <2>1, GiveUpFacts
    <3>3. reply' = [reply EXCEPT ![s] = None]
      BY <2>1, GiveUpFacts
    <3> QED
      BY <3>1, <3>2, <3>3
  <2>2. CASE reply[s] # None /\ net' = net /\ Take(s)
    BY <2>2, Waiting DEF Take, NetInv
  <2> QED
    BY <2>1, <2>2
<1>2. /\ reply'[s] = None
      /\ \A t \in Senders : t # s => reply'[t] = reply[t]
  BY <1>1 DEF TypeOK
<1>3. \A r \in net : r.from # "gone" => r.from \in Senders
  BY DEF TypeOK, Requests
<1>4. \A r \in net' : r.at = "sent" \/ \E q \in net : r.key = q.key /\ r.at = q.at
  BY <1>1
<1>5. \A r \in net' : r.from # "gone" => Waits(r.from)' /\ r.key = KeyOf(r.from)' /\ reply'[r.from] = None
  BY <1>1, <1>2, <1>3 DEF NetInv
<1>6. \A r, q \in net' : r.from = q.from /\ r.from # "gone" => r = q
  BY <1>1 DEF NetInv
<1>7. \A t \in Senders : reply'[t] # None => Waits(t)' /\ KeyOf(t)' = KeyOf(t) /\ reply'[t] = reply[t]
  BY <1>2 DEF NetInv
<1>8. reply'["page"] = "payable" => keyRef' = keyRef
  <2>1. CASE s = "page"
    BY <1>2, <2>1, NoneAssumption DEF Statuses
  <2> QED
    BY <2>1
<1> QED
  BY <1>4, <1>5, <1>6, <1>7, <1>8, BrowserFacts

LEMMA WaitsForAKey ==
  ASSUME TypeOK, KeyInv, MintInv, NEW s \in Senders, Waits(s)
  PROVE  KeyOf(s) \in Keys
BY DEF TypeOK, KeyInv, MintInv, Senders, Waits, KeyOf

LEMMA NetStep == TypeOK /\ KeyInv /\ MintInv /\ NetInv /\ [Next]_vars => NetInv'
<1> SUFFICES ASSUME TypeOK, KeyInv, MintInv, NetInv, [Next]_vars PROVE NetInv'
  OBVIOUS
<1> USE DEF page_, cart_
<1>1. ASSUME NEW r \in net, Serve(r) PROVE NetInv'
  <2>1. \A s \in Senders : Waits(s)' = Waits(s) /\ KeyOf(s)' = KeyOf(s)
    BY <1>1, ServeFacts DEF Waits, KeyOf
  <2>2. \A q \in net : q.key \in Keys /\ (q.from # "gone" => q.from \in Senders)
    BY DEF TypeOK, Requests
  <2>3. \A q \in net' : \/ q \in net \ {r}
                        \/ /\ q = [r EXCEPT !.at = "provider"] /\ reply' = reply
                           /\ q.from = r.from /\ q.key = r.key
                           /\ Exists(r.key)' /\ orders'[r.key].method = "razorpay"
    BY <1>1, ServeFacts DEF Requests
  <2>4. \A s \in Senders : \/ reply'[s] = reply[s]
                           \/ /\ s = r.from /\ net' = net \ {r}
                              /\ reply'[s] \in {"placed", "payable"} => Exists(r.key)'
                              /\ reply'[s] = "payable" => ToPay(r.key)'
    BY <1>1, ServeFacts
  <2>5. \A k \in Keys : Exists(k) => /\ Exists(k)' /\ orders'[k].method = orders[k].method
                                     /\ ToPay(k) => ToPay(k)'
    BY <1>1, ServeFacts
  <2>6. \A s \in Senders : reply'[s] # reply[s] => Waits(s) /\ KeyOf(s) = r.key
    BY <2>4, Waiting DEF NetInv
  <2>7. \A s \in Senders : Waits(s) => KeyOf(s) \in Keys
    BY WaitsForAKey
  <2>8. \A s \in Senders : reply[s] # None => Waits(s)
    BY DEF NetInv
  <2>9. \A q \in net' : q.at = "provider" => Exists(q.key)' /\ orders'[q.key].method = "razorpay"
    BY <2>2, <2>3, <2>5 DEF NetInv
  <2>10. \A q \in net' : q.from # "gone" => Waits(q.from)' /\ q.key = KeyOf(q.from)' /\ reply'[q.from] = None
    <3>1. ASSUME NEW q \in net \ {r}, q.from # "gone" PROVE reply'[q.from] = None
      BY <2>2, <2>4, <3>1 DEF NetInv
    <3> QED
      BY <2>1, <2>2, <2>3, <3>1 DEF NetInv
  <2>11. \A q, p \in net' : q.from = p.from /\ q.from # "gone" => q = p
    BY <2>3 DEF NetInv
  <2>12. \A s \in Senders : reply'[s] # None => Waits(s)'
    BY <2>1, <2>6, <2>8
  <2>13. ASSUME NEW s \in Senders, reply'[s] \in {"placed", "payable"} PROVE Exists(KeyOf(s))'
    <3>1. CASE reply'[s] = reply[s]
      <4>1. reply[s] # None /\ Exists(KeyOf(s))
        BY <2>13, <3>1, NoneAssumption DEF NetInv, Statuses
      <4>2. KeyOf(s) \in Keys
        BY <2>7, <2>8, <4>1
      <4>3. \A k \in Keys : Exists(k) => Exists(k)'
        BY <2>5
      <4> QED
        BY <2>1, <4>1, <4>2, <4>3 DEF Exists
    <3>2. CASE reply'[s] # reply[s]
      BY <2>1, <2>4, <2>6, <2>13, <3>2 DEF Exists
    <3> QED
      BY <3>1, <3>2
  <2>14. ASSUME ToPay(keyRef), page \in {"sending", "paying"} PROVE ToPay(keyRef)'
    <3>1. keyRef \in Keys /\ Exists(keyRef) /\ keyRef' = keyRef
      <4>1. keyRef \in Keys /\ keyRef' = keyRef
        BY <1>1, <2>14, ServeFacts DEF KeyInv, TypeOK
      <4>2. [method |-> "razorpay", attached |-> TRUE] # None
        <5>1. [method |-> "razorpay", attached |-> TRUE] \in OrderRows
          BY DEF OrderRows, Methods
        <5> QED
          BY <5>1, NoneAssumption
      <4> QED
        BY <2>14, <4>1, <4>2 DEF Exists, ToPay
    <3> QED
      BY <2>5, <2>14, <3>1 DEF ToPay
  <2>15. reply'["page"] = "payable" => ToPay(keyRef)'
    <3>1. CASE reply'["page"] = reply["page"]
      BY <2>8, <2>14, <3>1, Waiting, NoneAssumption DEF NetInv, Statuses
    <3>2. CASE reply'["page"] # reply["page"]
      BY <1>1, <2>4, <2>6, <3>2, Waiting, ServeFacts DEF ToPay
    <3> QED
      BY <3>1, <3>2
  <2>16. page' = "paying" => ToPay(keyRef)'
    BY <1>1, <2>14, ServeFacts DEF NetInv
  <2>17. page' = "held" => outbox'[keyRef'] # "none"
    BY <1>1, ServeFacts DEF NetInv
  <2>18. PlacedIsAnOrder'
    BY <1>1, <2>5, ServeFacts DEF NetInv, PlacedIsAnOrder
  <2> QED
    BY <2>9, <2>10, <2>11, <2>12, <2>13, <2>15, <2>16, <2>17, <2>18 DEF NetInv
<1>2. PlacedIsAnOrder /\ (UNCHANGED <<outbox, orders>> => PlacedIsAnOrder')
  BY DEF NetInv, PlacedIsAnOrder, Exists
<1>3. ASSUME UNCHANGED drain PROVE \A t \in Senders : t # "page" => Waits(t)' = Waits(t) /\ KeyOf(t)' = KeyOf(t)
  BY <1>3 DEF Waits, KeyOf
<1>4. ASSUME UNCHANGED <<page, keyRef>>, NEW d \in Drains, \A e \in Drains : e # d => drain'[e] = drain[e]
      PROVE  \A t \in Senders : t # d => Waits(t)' = Waits(t) /\ KeyOf(t)' = KeyOf(t)
  BY <1>4 DEF Waits, KeyOf, Senders
<1>5. CASE FillBasket
  BY <1>5, Undisturbed DEF FillBasket, NetInv
<1>6. CASE Open
  BY <1>2, <1>3, <1>6, Stops, Waiting DEF Open
<1>7. ASSUME NEW m \in Methods, Submit(m) PROVE NetInv'
  <2>1. PICK k \in CurrentKey : keyRef' = k /\ Send("page", k, m)
    BY <1>7 DEF Submit
  <2>2. k \in Keys /\ page = "form" /\ page' = "sending" /\ UNCHANGED <<reply, orders, outbox, drain>>
    BY <1>7, <2>1 DEF CurrentKey, Fresh, TypeOK, Submit
  <2>3. ~Waits("page") /\ Waits("page")' /\ KeyOf("page")' = k
    BY <2>1, <2>2 DEF Waits, KeyOf
  <2> QED
    BY <1>3, <2>1, <2>2, <2>3, Sends, Waiting
<1>8. CASE ShowError
  <2>1. reply["page"] # None
    BY <1>8, NoneAssumption DEF ShowError, Statuses
  <2> QED
    BY <1>2, <1>3, <1>8, <2>1, Stops, Waiting DEF ShowError
<1>9. CASE OpenRazorpay \/ Confirmed
  <2>1. reply["page"] # None
    BY <1>9, NoneAssumption DEF OpenRazorpay, Confirmed, Statuses
  <2>2. page' = "paying" => ToPay(keyRef) /\ keyRef' = keyRef
    BY <1>9 DEF OpenRazorpay, Confirmed, Leave, NetInv
  <2> QED
    BY <1>2, <1>3, <1>9, <2>1, <2>2, Stops, Waiting DEF OpenRazorpay, Confirmed, Leave
<1>10. CASE Dismissed \/ Paid \/ CannotHold \/ Queued \/ Online
  BY <1>10, Undisturbed DEF Dismissed, Paid, CannotHold, Queued, Online, Leave
<1>11. CASE ConnectionDrops
  BY <1>2, <1>3, <1>11, Stops, Waiting DEF ConnectionDrops
<1>12. CASE Hold
  <2>1. keyRef \in Keys /\ keyRef' = keyRef /\ outbox' = [outbox EXCEPT ![keyRef] = "pending"]
    BY <1>12 DEF Hold, Holds, KeyInv, TypeOK
  <2>2. outbox'[keyRef] = "pending" /\ \A k \in Keys : outbox'[k] = "placed" => outbox[k] = "placed"
    BY <2>1 DEF TypeOK
  <2> QED
    BY <1>12, <2>1, <2>2, Undisturbed DEF Hold, Holds
<1>13. ASSUME NEW k \in Keys, ForgetEntry(k) PROVE NetInv'
  <2>1. \A l \in Keys : outbox'[l] = "placed" => outbox[l] = "placed"
    BY <1>13 DEF ForgetEntry, TypeOK
  <2> QED
    BY <1>13, <2>1, Undisturbed DEF ForgetEntry
<1>14. ASSUME NEW d \in Drains, StartDrain(d) \/ EndDrain(d) PROVE NetInv'
  <2>1. \A e \in Drains : drain[e].at = "waiting" => drain'[e] = drain[e]
    BY <1>14 DEF StartDrain, EndDrain, TypeOK
  <2> QED
    BY <1>14, <2>1, Undisturbed DEF StartDrain, EndDrain, NetInv
<1>15. ASSUME NEW d \in Drains, SendEntry(d) PROVE NetInv'
  <2>1. PICK k \in drain[d].todo : /\ drain' = [drain EXCEPT ![d] = [at |-> "waiting", todo |-> @.todo \ {k}, key |-> k]]
                                   /\ Send(d, k, "cod")
    BY <1>15 DEF SendEntry
  <2>2. k \in Keys /\ drain[d].at = "next" /\ UNCHANGED <<page, keyRef, reply, orders, outbox>> /\ "cod" \in Methods
    BY <1>15, <2>1 DEF SendEntry, TypeOK, Methods
  <2>3. drain'[d].at = "waiting" /\ drain'[d].key = k /\ \A e \in Drains : e # d => drain'[e] = drain[e]
    BY <2>1 DEF TypeOK
  <2>4. ~Waits(d) /\ Waits(d)' /\ KeyOf(d)' = k
    BY <2>2, <2>3, Waiting DEF Waits, KeyOf
  <2>5. \A t \in Senders : t # d => Waits(t)' = Waits(t) /\ KeyOf(t)' = KeyOf(t)
    BY <1>4, <2>2, <2>3
  <2> QED
    BY <2>1, <2>2, <2>4, <2>5, Sends, Waiting
<1>16. ASSUME NEW d \in Drains, ReadAnswer(d) PROVE NetInv'
  <2>1. /\ drain[d].at = "waiting" /\ reply[d] # None /\ Take(d) /\ UNCHANGED <<page, keyRef, net, orders>>
        /\ \A e \in Drains : e # d => drain'[e] = drain[e]
    BY <1>16 DEF ReadAnswer, TypeOK
  <2>2. drain[d].key \in Keys
    BY <2>1 DEF MintInv
  <2>3. /\ outbox'[drain[d].key] = ResolvedAs(reply[d], outbox[drain[d].key])
        /\ \A k \in Keys : k # drain[d].key => outbox'[k] = outbox[k]
    BY <1>16, <2>2 DEF ReadAnswer, TypeOK
  <2>4. reply[d] \in {"placed", "payable"} => Exists(drain[d].key)
    BY Waiting DEF NetInv
  <2>5. PlacedIsAnOrder'
    <3>1. ResolvedAs(reply[d], outbox[drain[d].key]) = "placed"
            => reply[d] \in {"placed", "payable"} \/ outbox[drain[d].key] = "placed"
      BY DEF ResolvedAs
    <3> QED
      BY <1>2, <2>1, <2>2, <2>3, <2>4, <3>1 DEF PlacedIsAnOrder, Exists
  <2>6. page' = "held" => outbox'[keyRef'] # "none"
    <3>1. outbox[drain[d].key] # "none" => outbox'[drain[d].key] # "none"
      BY <2>3 DEF ResolvedAs
    <3>2. page = "held" => keyRef \in Keys /\ outbox[keyRef] # "none"
      BY DEF KeyInv, NetInv, TypeOK
    <3> QED
      BY <2>1, <2>3, <3>1, <3>2
  <2>7. page' = "paying" => ToPay(keyRef) /\ keyRef' = keyRef
    BY <2>1 DEF NetInv
  <2> QED
    BY <1>4, <2>1, <2>5, <2>6, <2>7, Stops, Waiting
<1>17. ASSUME NEW d \in Drains, DrainStops(d) PROVE NetInv'
  <2>1. GiveUp(d) /\ UNCHANGED <<page, keyRef, outbox, orders>> /\ \A e \in Drains : e # d => drain'[e] = drain[e]
    BY <1>17 DEF DrainStops, TypeOK
  <2>2. page' = "paying" => ToPay(keyRef) /\ keyRef' = keyRef
    BY <2>1 DEF NetInv
  <2>3. page' = "held" => outbox'[keyRef'] # "none"
    BY <2>1 DEF NetInv
  <2> QED
    BY <1>2, <1>4, <2>1, <2>2, <2>3, Stops, Waiting
<1>18. CASE UNCHANGED vars
  BY <1>18, Undisturbed DEF vars, NetInv
<1> QED
  BY <1>1, <1>5, <1>6, <1>7, <1>8, <1>9, <1>10, <1>11, <1>12, <1>13, <1>14, <1>15, <1>16, <1>17, <1>18 DEF Next

LEMMA IInvInit == Init => IInv
<1> SUFFICES ASSUME Init PROVE IInv
  OBVIOUS
<1>1. TypeOK
  BY TypeInit
<1>2. KeyInv /\ OneUnblamed
  BY BasketsAssumption DEF Init, KeyInv, OneUnblamed, Minted, Blamed
<1>3. MintInv
  BY DEF Init, MintInv, Exists, IdleDrain
<1>4. NetInv
  BY NoneAssumption, Waiting DEF Init, NetInv, PlacedIsAnOrder, Statuses
<1> QED
  BY <1>1, <1>2, <1>3, <1>4 DEF IInv

LEMMA IInvStep == IInv /\ [Next]_vars => IInv'
BY TypeStep, KeyStep, MintStep, NetStep DEF IInv

LEMMA Invariance == Spec => []IInv
BY IInvInit, IInvStep, PTL DEF Spec

\* TypeOK: each variable keeps to its range, whatever the numbers of keys and drains.
THEOREM TypeCorrect == Spec => []TypeOK
<1>1. IInv => TypeOK
  BY DEF IInv
<1> QED
  BY <1>1, Invariance, PTL

\* Retries, held orders and concurrent drains make one order of a basket, unless the
\* page gave a key up after a refusal or a 500, or with a reload.
THEOREM OneOrderPerBasket == Spec => []RetriesMakeOneOrder
<1>1. IInv => RetriesMakeOneOrder
  <2> SUFFICES ASSUME IInv, NEW k \in Keys, NEW l \in Keys, k # l, Exists(k), Exists(l), basketOf[k] = basketOf[l]
               PROVE  {dropped[k], dropped[l]} \cap {"4xx", "500", "reload"} # {}
    BY DEF RetriesMakeOneOrder
  <2>1. Minted(k)
    BY DEF IInv, MintInv
  <2>2. Blamed(k) \/ Blamed(l)
    BY <2>1 DEF IInv, OneUnblamed
  <2> QED
    BY <2>2 DEF Blamed
<1> QED
  BY <1>1, Invariance, PTL

\* An entry of the outbox that is reported as placed has an order in the table.
THEOREM PlacedHasAnOrder == Spec => []PlacedIsAnOrder
<1>1. IInv => PlacedIsAnOrder
  BY DEF IInv, NetInv
<1> QED
  BY <1>1, Invariance, PTL

\* The payment window is open only over an online order the provider knows.
THEOREM PaymentHasAnOrder == Spec => []PaysForItsOrder
<1>1. IInv => PaysForItsOrder
  BY DEF IInv, NetInv, ToPay, PaysForItsOrder
<1> QED
  BY <1>1, Invariance, PTL

\* No step clears the cart unless its order is in the table or in the outbox.
THEOREM CartIsKept == Spec => CartIsNotLost
<1>1. IInv /\ [Next]_vars => [basket # 0 /\ basket' = 0 => Exists(keyRef) \/ outbox[keyRef] # "none"]_vars
  <2> SUFFICES ASSUME IInv, Next, basket # 0, basket' = 0 PROVE Exists(keyRef) \/ outbox[keyRef] # "none"
    OBVIOUS
  <2> USE DEF cart_, page_
  <2>1. Confirmed \/ Paid \/ Queued
    <3>1. ASSUME NEW r \in net, Serve(r) PROVE FALSE
      BY <3>1, ServeFacts DEF IInv
    <3>2. basket \in 0 .. MaxBaskets /\ baskets \in 0 .. MaxBaskets
      BY DEF IInv, TypeOK
    <3>3. CASE FillBasket
      BY <3>2, <3>3 DEF FillBasket
    <3>4. ASSUME NEW d \in Drains, StartDrain(d) \/ SendEntry(d) \/ EndDrain(d) \/ ReadAnswer(d) \/ DrainStops(d) PROVE FALSE
      BY <3>4 DEF StartDrain, SendEntry, EndDrain, ReadAnswer, DrainStops
    <3> QED
      BY <3>1, <3>3, <3>4 DEF Next, Open, Submit, ShowError, OpenRazorpay, Dismissed, ConnectionDrops, Hold, Holds,
         CannotHold, Online, ForgetEntry
  <2>2. CASE Confirmed
    BY <2>2, Waiting DEF IInv, NetInv, Confirmed
  <2>3. CASE Paid
    <3>1. [method |-> "razorpay", attached |-> TRUE] \in OrderRows
      BY DEF OrderRows, Methods
    <3> QED
      BY <2>3, <3>1, NoneAssumption DEF IInv, NetInv, Paid, ToPay, Exists
  <2>4. CASE Queued
    BY <2>4 DEF IInv, NetInv, Queued
  <2> QED
    BY <2>1, <2>2, <2>3, <2>4
<1> QED
  BY <1>1, Invariance, PTL DEF Spec, CartIsNotLost

(***************************************************************************)
(* The app, for any number of requests, sign-ins and taps.  DeviceAgrees:  *)
(* as long as nothing went astray, the keystore holds the session the      *)
(* customer should have or is being cleared of it.  CheckoutInv: every     *)
(* attempt still under way is under a key the app has, or has let go of.   *)
(***************************************************************************)

(***************************************************************************)
(* The session of the app.                                                 *)
(***************************************************************************)

\* Undisturbed, the keystore holds the session the customer should have or is being
\* cleared of it, and whoever has read it or saved to it knows what it holds.
Cleared == Under({"cleared"})

DeviceAgrees ==
  ~astray =>
    /\ ~Crossing
    /\ Clears => wanted = NoToken /\ (Cleared => keystore = NoToken)
    /\ ~Clears => keystore = wanted
    /\ ~Clears /\ door.at # "saved" => cached \in {Unread, wanted}
    /\ \A c \in Calls : calls[c].at = "read" => calls[c].token = keystore
    /\ door.at = "saved" => keystore = door.token

SessionInv == SessionTypeOK /\ DeviceAgrees

LEMMA PlaceFacts ==
  /\ Idle.at = "idle"
  /\ \A s, t : At(s, t).at = s /\ At(s, t).token = t
BY DEF Idle, At

LEMMA PlacesAre ==
  ASSUME NEW p
  PROVE  /\ p \in CallPlaces =>
              /\ p = Idle \/ p.token \in Tokens \cup {NoToken}
              /\ p.at \in {"idle", "reading", "read", "sent", "clear", "cleared"}
         /\ p \in DoorPlaces =>
              /\ p = Idle \/ p.token \in Tokens \cup {NoToken}
              /\ p.at \in {"idle", "asked", "save", "saved", "clear", "cleared"}
BY DEF CallPlaces, DoorPlaces, Places, Idle, At

LEMMA PlacesMade ==
  ASSUME NEW s, NEW t \in Tokens \cup {NoToken}
  PROVE  /\ s \in {"reading", "read", "sent", "clear", "cleared"} => At(s, t) \in CallPlaces
         /\ s \in {"asked", "save", "saved", "clear", "cleared"} => At(s, t) \in DoorPlaces
         /\ Idle \in CallPlaces /\ Idle \in DoorPlaces
BY DEF CallPlaces, DoorPlaces, Places

LEMMA SessionStarts == SessionInit => SessionInv
<1> SUFFICES ASSUME SessionInit PROVE SessionInv
  OBVIOUS
<1>1. SessionTypeOK
  BY PlacesMade DEF SessionInit, SessionTypeOK
<1>2. DeviceAgrees
  BY PlaceFacts DEF SessionInit, DeviceAgrees, Crossing, Reads, Saves, Clears, Cleared, Under
<1> QED
  BY <1>1, <1>2 DEF SessionInv

\* What is under way after somebody moves from one place to another was under way
\* before, or is what that one does now; and the reverse.
Moved(old, new) ==
  /\ (Reads' => Reads \/ new.at \in {"reading", "read"}) /\ (new.at \in {"reading", "read"} => Reads')
  /\ (Reads => Reads' \/ old.at \in {"reading", "read"}) /\ (old.at \in {"reading", "read"} => Reads)
  /\ (Saves' => Saves \/ new.at \in {"save", "saved"}) /\ (new.at \in {"save", "saved"} => Saves')
  /\ (Saves => Saves' \/ old.at \in {"save", "saved"}) /\ (old.at \in {"save", "saved"} => Saves)
  /\ (Clears' => Clears \/ new.at \in {"clear", "cleared"}) /\ (new.at \in {"clear", "cleared"} => Clears')
  /\ (Clears => Clears' \/ old.at \in {"clear", "cleared"}) /\ (old.at \in {"clear", "cleared"} => Clears)
  /\ (Cleared' => Cleared \/ new.at \in {"cleared"}) /\ (new.at \in {"cleared"} => Cleared')
  /\ (Cleared => Cleared' \/ old.at \in {"cleared"}) /\ (old.at \in {"cleared"} => Cleared)

LEMMA CallMoves ==
  ASSUME SessionTypeOK, NEW c \in Calls, NEW p,
         calls' = [calls EXCEPT ![c] = p], door' = door
  PROVE  /\ calls'[c] = p /\ \A d \in Calls : d # c => calls'[d] = calls[d]
         /\ p \in CallPlaces => calls' \in [Calls -> CallPlaces]
         /\ Moved(calls[c], p)
<1>1. calls \in [Calls -> CallPlaces]
  BY DEF SessionTypeOK
<1>2. calls'[c] = p /\ \A d \in Calls : d # c => calls'[d] = calls[d]
  BY <1>1
<1>3. p \in CallPlaces => calls' \in [Calls -> CallPlaces]
  BY <1>1
<1>4. ASSUME NEW steps
      PROVE  /\ (Under(steps)' => Under(steps) \/ p.at \in steps) /\ (p.at \in steps => Under(steps)')
             /\ (Under(steps) => Under(steps)' \/ calls[c].at \in steps) /\ (calls[c].at \in steps => Under(steps))
  BY <1>2 DEF Under
<1> QED
  BY <1>2, <1>3, <1>4 DEF Reads, Saves, Clears, Cleared, Moved

LEMMA DoorMoves ==
  ASSUME NEW p, door' = p, calls' = calls
  PROVE  Moved(door, p)
BY DEF Reads, Saves, Clears, Cleared, Under, Moved

LEMMA CallStep ==
  ASSUME SessionInv, NEW c \in Calls,
         Ask(c) \/ Fetch(c) \/ Load(c) \/ Answer(c) \/ Refuse(c) \/ DeleteAfter401(c) \/ DropAfter401(c)
  PROVE  SessionInv'
<1> USE DEF SessionInv
<1>a. /\ keystore \in Tokens \cup {NoToken} /\ cached \in Tokens \cup {NoToken, Unread}
      /\ calls[c] \in CallPlaces /\ door \in DoorPlaces /\ astray \in BOOLEAN
  BY DEF SessionTypeOK
<1>b. calls[c] = Idle \/ calls[c].token \in Tokens \cup {NoToken}
  BY <1>a, PlacesAre
<1>c. /\ Cleared => Clears
      /\ \A d \in Calls : calls[d].at = "read" => Reads
      /\ door.at = "saved" => Saves
  BY DEF Under, Clears, Cleared, Reads, Saves
<1>1. CASE Ask(c)
  <2>1. PICK p : /\ p = IF cached = Unread THEN At("reading", NoToken) ELSE At("sent", cached)
                 /\ calls' = [calls EXCEPT ![c] = p]
    BY <1>1 DEF Ask
  <2>2. p \in CallPlaces /\ p.at \in {"reading", "sent"}
    BY <1>a, <2>1, PlacesMade, PlaceFacts
  <2>3. Moved(calls[c], p) /\ calls'[c] = p /\ \A d \in Calls : d # c => calls'[d] = calls[d]
    BY <1>1, <2>1, CallMoves DEF Ask
  <2>4. SessionTypeOK'
    BY <1>1, <2>1, <2>2, CallMoves DEF SessionTypeOK, Ask, Astray, device, shop
  <2>5. calls[c].at = "idle"
    BY <1>1, PlaceFacts DEF Ask
  <2>6. DeviceAgrees'
    BY <1>1, <1>a, <1>c, <2>2, <2>3, <2>5
       DEF Ask, Astray, DeviceAgrees, Crossing, Moved, device
  <2> QED
    BY <2>4, <2>6
<1>2. CASE Fetch(c)
  <2>1. PICK t \in {keystore, NoToken} :
               /\ calls' = [calls EXCEPT ![c] = At("read", t)]
               /\ UNCHANGED <<device, door, shop, wanted>>
               /\ Astray(t # keystore)
    BY <1>2 DEF Fetch
  <2> DEFINE p == At("read", t)
  <2>2. p \in CallPlaces /\ p.at = "read" /\ p.token = t
    BY <1>a, PlacesMade, PlaceFacts
  <2> HIDE DEF p
  <2>3. Moved(calls[c], p) /\ calls'[c] = p /\ \A d \in Calls : d # c => calls'[d] = calls[d]
    BY <2>1, CallMoves DEF p
  <2>4. SessionTypeOK'
    BY <1>a, <2>1, <2>2, CallMoves DEF SessionTypeOK, Astray, device, shop, p
  <2>5. calls[c].at = "reading"
    BY <1>2 DEF Fetch
  <2>6. DeviceAgrees'
    BY <1>a, <1>c, <2>1, <2>2, <2>3, <2>5 DEF Astray, device, DeviceAgrees, Crossing, Moved
  <2> QED
    BY <2>4, <2>6
<1>3. CASE Load(c)
  <2> DEFINE t == calls[c].token
  <2>1. calls[c].at = "read" /\ t \in Tokens \cup {NoToken}
    BY <1>b, <1>3, PlaceFacts DEF Load
  <2>2. UNCHANGED <<keystore, door, shop>>
    BY <1>3 DEF Load
  <2>3. CASE calls' = [calls EXCEPT ![c] = At("clear", t)] /\ UNCHANGED cached /\ Ends(t)
    <3> DEFINE p == At("clear", t)
    <3>1. p \in CallPlaces /\ p.at = "clear"
      BY <2>1, PlacesMade, PlaceFacts
    <3> HIDE DEF p
    <3>2. Moved(calls[c], p) /\ calls'[c] = p /\ \A d \in Calls : d # c => calls'[d] = calls[d]
      BY <2>2, <2>3, CallMoves DEF p
    <3>3. SessionTypeOK'
      BY <1>a, <2>2, <2>3, <3>1, CallMoves DEF SessionTypeOK, Astray, Ends, shop, p
    <3>4. DeviceAgrees'
      BY <1>a, <1>c, <2>1, <2>2, <2>3, <3>1, <3>2 DEF Astray, Ends, DeviceAgrees, Crossing, Moved
    <3> QED
      BY <3>3, <3>4
  <2>4. CASE calls' = [calls EXCEPT ![c] = At("sent", t)] /\ cached' = t /\ UNCHANGED wanted /\ Astray(FALSE)
    <3> DEFINE p == At("sent", t)
    <3>1. p \in CallPlaces /\ p.at = "sent"
      BY <2>1, PlacesMade, PlaceFacts
    <3> HIDE DEF p
    <3>2. Moved(calls[c], p) /\ calls'[c] = p /\ \A d \in Calls : d # c => calls'[d] = calls[d]
      BY <2>2, <2>4, CallMoves DEF p
    <3>3. SessionTypeOK'
      BY <1>a, <2>1, <2>2, <2>4, <3>1, CallMoves DEF SessionTypeOK, Astray, shop, p
    <3>4. DeviceAgrees'
      BY <1>a, <1>c, <2>1, <2>2, <2>4, <3>1, <3>2 DEF Astray, DeviceAgrees, Crossing, Moved
    <3> QED
      BY <3>3, <3>4
  <2> QED
    BY <1>3, <2>3, <2>4 DEF Load
<1>4. CASE Answer(c)
  <2>1. PICK p : p = Idle /\ calls' = [calls EXCEPT ![c] = p]
    BY <1>4 DEF Answer
  <2>2. p \in CallPlaces /\ p.at = "idle"
    BY <1>a, <1>b, <1>4, <2>1, PlacesMade, PlaceFacts DEF Answer
  <2>3. Moved(calls[c], p) /\ calls'[c] = p /\ \A d \in Calls : d # c => calls'[d] = calls[d]
    BY <1>4, <2>1, CallMoves DEF Answer
  <2>4. SessionTypeOK'
    BY <1>4, <1>a, <1>b, <2>1, <2>2, CallMoves, PlaceFacts DEF SessionTypeOK, Answer, Astray, device, shop
  <2>5. calls[c].at = "sent"
    BY <1>4, PlaceFacts DEF Answer
  <2>6. DeviceAgrees'
    BY <1>4, <1>a, <1>c, <2>2, <2>3, <2>5 DEF Answer, Astray, device, shop, DeviceAgrees, Crossing, Moved
  <2> QED
    BY <2>4, <2>6
<1>5. CASE Refuse(c)
  <2>1. PICK p : p = At("clear", calls[c].token) /\ calls' = [calls EXCEPT ![c] = p]
    BY <1>5 DEF Refuse
  <2>2. p \in CallPlaces /\ p.at = "clear"
    BY <1>a, <1>b, <1>5, <2>1, PlacesMade, PlaceFacts DEF Refuse
  <2>3. Moved(calls[c], p) /\ calls'[c] = p /\ \A d \in Calls : d # c => calls'[d] = calls[d]
    BY <1>5, <2>1, CallMoves DEF Refuse
  <2>4. SessionTypeOK'
    BY <1>5, <1>a, <1>b, <2>1, <2>2, CallMoves, PlaceFacts DEF SessionTypeOK, Refuse, Astray, Ends, device, shop
  <2>5. calls[c].at = "sent"
    BY <1>5, PlaceFacts DEF Refuse
  <2>6. DeviceAgrees'
    BY <1>5, <1>a, <1>c, <2>2, <2>3, <2>5 DEF Refuse, Astray, Ends, device, shop, DeviceAgrees, Crossing, Moved
  <2> QED
    BY <2>4, <2>6
<1>6. CASE DeleteAfter401(c)
  <2>1. PICK p : p = At("cleared", calls[c].token) /\ calls' = [calls EXCEPT ![c] = p]
    BY <1>6 DEF DeleteAfter401
  <2>2. p \in CallPlaces /\ p.at = "cleared"
    BY <1>a, <1>b, <1>6, <2>1, PlacesMade, PlaceFacts DEF DeleteAfter401
  <2>3. Moved(calls[c], p) /\ calls'[c] = p /\ \A d \in Calls : d # c => calls'[d] = calls[d]
    BY <1>6, <2>1, CallMoves DEF DeleteAfter401
  <2>4. SessionTypeOK'
    BY <1>6, <1>a, <1>b, <2>1, <2>2, CallMoves, PlaceFacts DEF SessionTypeOK, DeleteAfter401, Astray, Delete, Deleted, device, shop
  <2>5. calls[c].at = "clear"
    BY <1>6, PlaceFacts DEF DeleteAfter401
  <2>6. DeviceAgrees'
    BY <1>6, <1>a, <1>c, <2>2, <2>3, <2>5 DEF DeleteAfter401, Astray, Delete, Deleted, device, shop, DeviceAgrees, Crossing, Moved
  <2> QED
    BY <2>4, <2>6
<1>7. CASE DropAfter401(c)
  <2>1. PICK p : p = Idle /\ calls' = [calls EXCEPT ![c] = p]
    BY <1>7 DEF DropAfter401
  <2>2. p \in CallPlaces /\ p.at = "idle"
    BY <1>a, <1>b, <1>7, <2>1, PlacesMade, PlaceFacts DEF DropAfter401
  <2>3. Moved(calls[c], p) /\ calls'[c] = p /\ \A d \in Calls : d # c => calls'[d] = calls[d]
    BY <1>7, <2>1, CallMoves DEF DropAfter401
  <2>4. SessionTypeOK'
    BY <1>7, <1>a, <1>b, <2>1, <2>2, CallMoves, PlaceFacts DEF SessionTypeOK, DropAfter401, Astray, device, shop
  <2>5. calls[c].at = "cleared"
    BY <1>7, PlaceFacts DEF DropAfter401
  <2>6. DeviceAgrees'
    BY <1>7, <1>a, <1>c, <2>2, <2>3, <2>5 DEF DropAfter401, Astray, device, shop, DeviceAgrees, Crossing, Moved
  <2> QED
    BY <2>4, <2>6
<1> QED
  BY <1>1, <1>2, <1>3, <1>4, <1>5, <1>6, <1>7

LEMMA DoorStep ==
  ASSUME SessionInv, SignOut \/ DeleteToSignOut \/ DropToSignOut \/ SignIn \/ NotGranted
                       \/ Save \/ NotSaved \/ Publish \/ \E t \in Tokens : Granted(t)
  PROVE  SessionInv'
<1> USE DEF SessionInv
<1>a. /\ keystore \in Tokens \cup {NoToken} /\ cached \in Tokens \cup {NoToken, Unread}
      /\ door \in DoorPlaces /\ wanted \in Tokens \cup {NoToken} /\ astray \in BOOLEAN
  BY DEF SessionTypeOK
<1>b. door = Idle \/ door.token \in Tokens \cup {NoToken}
  BY <1>a, PlacesAre
<1>c. /\ Cleared => Clears
      /\ \A d \in Calls : calls[d].at = "read" => Reads
      /\ door.at = "saved" => Saves
  BY DEF Under, Clears, Cleared, Reads, Saves
<1>1. CASE SignOut
  <2> DEFINE p == At("clear", cached)
  <2>1. p \in DoorPlaces /\ p.at = "clear"
    BY <1>a, <1>b, <1>1, PlacesMade, PlaceFacts DEF SignOut
  <2> HIDE DEF p
  <2>2. Moved(door, p) /\ door' = p /\ calls' = calls
    BY <1>1, DoorMoves DEF SignOut, p
  <2>3. SessionTypeOK'
    BY <1>1, <1>a, <1>b, <2>1, <2>2, PlaceFacts DEF SessionTypeOK, SignOut, Astray, device, shop
  <2>4. DeviceAgrees'
    BY <1>1, <1>a, <1>c, <2>1, <2>2, PlaceFacts DEF SignOut, Astray, device, shop, DeviceAgrees, Crossing, Moved
  <2> QED
    BY <2>3, <2>4
<1>2. CASE DeleteToSignOut
  <2> DEFINE p == At("cleared", door.token)
  <2>1. p \in DoorPlaces /\ p.at = "cleared" /\ door.at = "clear"
    BY <1>a, <1>b, <1>2, PlacesMade, PlaceFacts DEF DeleteToSignOut
  <2> HIDE DEF p
  <2>2. Moved(door, p) /\ door' = p /\ calls' = calls
    BY <1>2, DoorMoves DEF DeleteToSignOut, p
  <2>3. SessionTypeOK'
    BY <1>2, <1>a, <1>b, <2>1, <2>2, PlaceFacts DEF SessionTypeOK, DeleteToSignOut, Astray, device, shop, Delete, Deleted
  <2>4. DeviceAgrees'
    BY <1>2, <1>a, <1>c, <2>1, <2>2, PlaceFacts DEF DeleteToSignOut, Astray, device, shop, Delete, Deleted, DeviceAgrees, Crossing, Moved
  <2> QED
    BY <2>3, <2>4
<1>3. CASE DropToSignOut
  <2> DEFINE p == Idle
  <2>1. p \in DoorPlaces /\ p.at = "idle" /\ door.at = "cleared"
    BY <1>a, <1>b, <1>3, PlacesMade, PlaceFacts DEF DropToSignOut
  <2> HIDE DEF p
  <2>2. Moved(door, p) /\ door' = p /\ calls' = calls
    BY <1>3, DoorMoves DEF DropToSignOut, p
  <2>3. SessionTypeOK'
    BY <1>3, <1>a, <1>b, <2>1, <2>2, PlaceFacts DEF SessionTypeOK, DropToSignOut, Astray, device, shop
  <2>4. DeviceAgrees'
    BY <1>3, <1>a, <1>c, <2>1, <2>2, PlaceFacts DEF DropToSignOut, Astray, device, shop, DeviceAgrees, Crossing, Moved
  <2> QED
    BY <2>3, <2>4
<1>4. CASE SignIn
  <2> DEFINE p == At("asked", NoToken)
  <2>1. p \in DoorPlaces /\ p.at = "asked"
    BY <1>a, <1>b, <1>4, PlacesMade, PlaceFacts DEF SignIn
  <2> HIDE DEF p
  <2>2. Moved(door, p) /\ door' = p /\ calls' = calls
    BY <1>4, DoorMoves DEF SignIn, p
  <2>3. SessionTypeOK'
    BY <1>4, <1>a, <1>b, <2>1, <2>2, PlaceFacts DEF SessionTypeOK, SignIn, Astray, device, shop
  <2>4. DeviceAgrees'
    BY <1>4, <1>a, <1>c, <2>1, <2>2, PlaceFacts DEF SignIn, Astray, device, shop, DeviceAgrees, Crossing, Moved
  <2> QED
    BY <2>3, <2>4
<1>5. CASE NotGranted
  <2> DEFINE p == Idle
  <2>1. p \in DoorPlaces /\ p.at = "idle" /\ door.at = "asked"
    BY <1>a, <1>b, <1>5, PlacesMade, PlaceFacts DEF NotGranted
  <2> HIDE DEF p
  <2>2. Moved(door, p) /\ door' = p /\ calls' = calls
    BY <1>5, DoorMoves DEF NotGranted, p
  <2>3. SessionTypeOK'
    BY <1>5, <1>a, <1>b, <2>1, <2>2, PlaceFacts DEF SessionTypeOK, NotGranted, Astray, device, shop
  <2>4. DeviceAgrees'
    BY <1>5, <1>a, <1>c, <2>1, <2>2, PlaceFacts DEF NotGranted, Astray, device, shop, DeviceAgrees, Crossing, Moved
  <2> QED
    BY <2>3, <2>4
<1>6. CASE Save
  <2> DEFINE p == At("saved", door.token)
  <2>1. p \in DoorPlaces /\ p.at = "saved" /\ p.token = door.token /\ door.at = "save"
    BY <1>a, <1>b, <1>6, PlacesMade, PlaceFacts DEF Save
  <2> HIDE DEF p
  <2>2. Moved(door, p) /\ door' = p /\ calls' = calls
    BY <1>6, DoorMoves DEF Save, p
  <2>3. SessionTypeOK'
    BY <1>6, <1>a, <1>b, <2>1, <2>2, PlaceFacts DEF SessionTypeOK, Save, Astray, device, shop
  <2>4. DeviceAgrees'
    BY <1>6, <1>a, <1>c, <2>1, <2>2, PlaceFacts DEF Save, Astray, device, shop, DeviceAgrees, Crossing, Moved
  <2> QED
    BY <2>3, <2>4
<1>7. CASE NotSaved
  <2> DEFINE p == Idle
  <2>1. p \in DoorPlaces /\ p.at = "idle" /\ door.at = "save"
    BY <1>a, <1>b, <1>7, PlacesMade, PlaceFacts DEF NotSaved
  <2> HIDE DEF p
  <2>2. Moved(door, p) /\ door' = p /\ calls' = calls
    BY <1>7, DoorMoves DEF NotSaved, p
  <2>3. SessionTypeOK'
    BY <1>7, <1>a, <1>b, <2>1, <2>2, PlaceFacts DEF SessionTypeOK, NotSaved, Astray, device, shop
  <2>4. DeviceAgrees'
    BY <1>7, <1>a, <1>c, <2>1, <2>2, PlaceFacts DEF NotSaved, Astray, device, shop, DeviceAgrees, Crossing, Moved
  <2> QED
    BY <2>3, <2>4
<1>8. CASE Publish
  <2> DEFINE p == Idle
  <2>1. p \in DoorPlaces /\ p.at = "idle" /\ door.at = "saved"
    BY <1>a, <1>b, <1>8, PlacesMade, PlaceFacts DEF Publish
  <2> HIDE DEF p
  <2>2. Moved(door, p) /\ door' = p /\ calls' = calls
    BY <1>8, DoorMoves DEF Publish, p
  <2>3. SessionTypeOK'
    BY <1>8, <1>a, <1>b, <2>1, <2>2, PlaceFacts DEF SessionTypeOK, Publish, Astray, device, shop
  <2>4. DeviceAgrees'
    BY <1>8, <1>a, <1>c, <2>1, <2>2, PlaceFacts DEF Publish, Astray, device, shop, DeviceAgrees, Crossing, Moved
  <2> QED
    BY <2>3, <2>4
<1>9. ASSUME NEW t \in Tokens, Granted(t) PROVE SessionInv'
  <2> DEFINE p == At("save", t)
  <2>1. p \in DoorPlaces /\ p.at = "save" /\ door.at = "asked"
    BY <1>a, <1>b, <1>9, PlacesMade, PlaceFacts DEF Granted
  <2> HIDE DEF p
  <2>2. Moved(door, p) /\ door' = p /\ calls' = calls
    BY <1>9, DoorMoves DEF Granted, p
  <2>3. SessionTypeOK'
    BY <1>9, <1>a, <1>b, <2>1, <2>2, PlaceFacts DEF SessionTypeOK, Granted, Astray, device, shop
  <2>4. DeviceAgrees'
    BY <1>9, <1>a, <1>c, <2>1, <2>2, PlaceFacts DEF Granted, Astray, device, shop, DeviceAgrees, Crossing, Moved
  <2> QED
    BY <2>3, <2>4
<1> QED
  BY <1>1, <1>2, <1>3, <1>4, <1>5, <1>6, <1>7, <1>8, <1>9

LEMMA ExpiryStep == ASSUME SessionInv, NEW t \in Tokens, Expire(t) PROVE SessionInv'
<1>1. SessionTypeOK'
  BY DEF SessionInv, SessionTypeOK, Expire, device
<1>2. DeviceAgrees'
  BY DEF SessionInv, DeviceAgrees, Expire, device, Crossing, Reads, Saves, Clears, Cleared, Under
<1> QED
  BY <1>1, <1>2 DEF SessionInv

LEMMA SessionKept == ASSUME SessionInv, SessionStep PROVE SessionInv'
BY CallStep, DoorStep, ExpiryStep, Zenon DEF SessionStep

LEMMA SessionRestartStep == ASSUME SessionInv, SessionRestart PROVE SessionInv'
<1>1. /\ calls' = [c \in Calls |-> Idle] /\ door' = Idle /\ cached' = Unread
      /\ UNCHANGED <<keystore, signed, dead, wanted>>
      /\ astray' = (astray \/ Clears \/ Crossing')
  BY DEF SessionRestart, Astray, shop
<1>2. SessionTypeOK'
  BY <1>1, PlacesMade DEF SessionInv, SessionTypeOK
<1>3. ~Reads' /\ ~Saves' /\ ~Clears' /\ ~Cleared'
  BY <1>1, PlaceFacts DEF Reads, Saves, Clears, Cleared, Under
<1>4. DeviceAgrees'
  BY <1>1, <1>3, PlaceFacts DEF SessionInv, SessionTypeOK, DeviceAgrees, Crossing
<1> QED
  BY <1>2, <1>4 DEF SessionInv

LEMMA SessionStutters == ASSUME SessionInv, UNCHANGED session PROVE SessionInv'
<1>1. SessionTypeOK'
  BY DEF SessionInv, SessionTypeOK, session, device, shop
<1>2. DeviceAgrees'
  BY DEF SessionInv, DeviceAgrees, session, device, Crossing, Reads, Saves, Clears, Cleared, Under
<1> QED
  BY <1>1, <1>2 DEF SessionInv

(***************************************************************************)
(* The checkout of the app.                                                *)
(***************************************************************************)

\* Attempts that may still be answered, or still be acted on.
Attempts == waiting \cup sent

\* An attempt has the number of its tap and a key minted by then; it is answered
\* once, and the screen waits for none but the last.
Numbered ==
  /\ \A r \in Attempts : r.key <= r.n /\ r.n <= taps
  /\ \A r, q \in Attempts : r.n = q.n => r = q
  /\ \A a \in answers : a.n <= taps /\ \A r \in sent : r.n # a.n
  /\ placing \in {0, taps}
  /\ \A k \in placed : k <= taps

\* While the last tap is not decided, or is refused, no order has its key.
LastUndecided ==
  /\ \A r \in sent : r.n = taps => taps \notin placed
  /\ [n |-> taps, says |-> "refused"] \in answers => taps \notin placed

\* The app has shown the order of k, would ask for it by k, or has let go of k.
Followed(k) == k \in known \/ k = key \/ given[k] # "no"

OrdersFollowed ==
  /\ placing # 0 => \A r \in Attempts : r.n = placing => r.key = key
  /\ \A r \in Attempts : Followed(r.key)
  /\ \A w \in waiting : [n |-> w.n, says |-> "ok"] \in answers => w.key \in placed
  /\ OrderIsKnownOrHeld

CheckoutInv == PhoneTypeOK /\ Numbered /\ LastUndecided /\ OrdersFollowed

PhoneInv == CheckoutInv /\ SessionInv

LEMMA PhoneStarts == PhoneInit => PhoneInv
<1> SUFFICES ASSUME PhoneInit PROVE PhoneInv
  OBVIOUS
<1>1. SessionInv
  BY SessionStarts DEF PhoneInit
<1>2. PhoneTypeOK
  BY <1>1, TapsAssumption DEF PhoneInit, PhoneTypeOK, SessionInv, Numbers
<1>3. Numbered /\ LastUndecided /\ OrdersFollowed
  BY DEF PhoneInit, Numbered, LastUndecided, OrdersFollowed, OrderIsKnownOrHeld, Attempts
<1> QED
  BY <1>1, <1>2, <1>3 DEF PhoneInv, CheckoutInv

\* What the types of the checkout say.
LEMMA CheckoutTypes ==
  ASSUME PhoneTypeOK
  PROVE  /\ taps \in 0 .. MaxTaps /\ key \in 0 .. taps /\ placing \in 0 .. taps /\ MaxTaps \in Nat
         /\ Numbers = 1 .. MaxTaps
         /\ \A r \in Attempts : r \in [n : Numbers, key : Numbers] /\ r.n \in Numbers /\ r.key \in Numbers
         /\ answers \subseteq [n : Numbers, says : {"ok", "refused", "unsure"}]
         /\ \A a \in answers : a.n \in Numbers /\ a = [n |-> a.n, says |-> a.says]
         /\ known \subseteq placed /\ placed \subseteq Numbers
         /\ given \in [Numbers -> {"no", "left", "refused"}]
BY TapsAssumption DEF PhoneTypeOK, Attempts, Numbers

\* The session has no part in the checkout.
LEMMA CheckoutStutters ==
  ASSUME CheckoutInv, UNCHANGED checkout, SessionTypeOK' PROVE CheckoutInv'
<1>1. PhoneTypeOK'
  BY DEF CheckoutInv, PhoneTypeOK, checkout, screen, network
<1>2. Numbered' /\ LastUndecided' /\ OrdersFollowed'
  BY DEF CheckoutInv, Numbered, LastUndecided, OrdersFollowed, OrderIsKnownOrHeld, Followed, Attempts, checkout, screen, network
<1> QED
  BY <1>1, <1>2 DEF CheckoutInv

\* Letting go of the key in hand.
LEMMA LetGoFacts ==
  ASSUME PhoneTypeOK, NEW reason \in {"left", "refused"}, LetGo(reason)
  PROVE  /\ given' \in [Numbers -> {"no", "left", "refused"}]
         /\ \A k \in Numbers : (given[k] # "no" => given'[k] # "no") /\ (k = key => given'[k] # "no")
BY DEF PhoneTypeOK, LetGo

LEMMA TapStep == ASSUME CheckoutInv, Tap, SessionTypeOK' PROVE CheckoutInv'
<1> DEFINE r == Attempt(taps + 1, key')
<1>1. /\ taps \in Nat /\ key \in 0 .. taps /\ taps + 1 \in Numbers /\ key' \in Numbers /\ key' <= taps + 1
      /\ r.n = taps + 1 /\ r.key = key' /\ r \in [n : Numbers, key : Numbers]
  BY CheckoutTypes DEF CheckoutInv, Tap, Attempt, Numbers
<1>2. /\ taps' = taps + 1 /\ placing' = taps + 1 /\ waiting' = waiting \cup {r} /\ sent' = sent \cup {r}
      /\ key' = IF key = 0 THEN taps + 1 ELSE key
      /\ UNCHANGED <<answers, placed, known, given>>
  BY DEF Tap
<1> HIDE DEF r
<1>3. PhoneTypeOK'
  BY <1>1, <1>2, CheckoutTypes DEF CheckoutInv, PhoneTypeOK, Tap, Numbers
<1>4. Attempts' = Attempts \cup {r}
  BY <1>2 DEF Attempts
<1>5. \A q \in Attempts : q.n \in Nat /\ q.key \in Numbers /\ q.key <= q.n /\ q.n <= taps
  BY CheckoutTypes DEF CheckoutInv, Numbered, Numbers
<1>6. /\ \A a \in answers : a.n \in Nat /\ a.n <= taps
      /\ \A k \in placed : k \in Numbers /\ k <= taps
  BY CheckoutTypes DEF CheckoutInv, Numbered, Numbers
<1>7. Numbered'
  BY <1>1, <1>2, <1>4, <1>5, <1>6 DEF CheckoutInv, Numbered, Attempts, Numbers
<1>8. LastUndecided'
  BY <1>1, <1>2, <1>6 DEF LastUndecided, Numbers
<1>9. OrdersFollowed'
  BY <1>1, <1>2, <1>4, <1>5, <1>6 DEF CheckoutInv, OrdersFollowed, OrderIsKnownOrHeld, Followed, Numbers
<1> QED
  BY <1>3, <1>7, <1>8, <1>9 DEF CheckoutInv

\* The screen lets go of its key and of the attempt it waits for.
LEMMA ScreenStep == ASSUME CheckoutInv, TapInvalid \/ LeaveScreen, SessionTypeOK' PROVE CheckoutInv'
<1>1. /\ key' = 0 /\ placing' \in {0, placing} /\ (placing # 0 => placing' = 0)
      /\ UNCHANGED <<taps, waiting, sent, answers, placed, known>>
      /\ \E reason \in {"left", "refused"} : LetGo(reason)
  BY DEF TapInvalid, LeaveScreen, network
<1>2. /\ given' \in [Numbers -> {"no", "left", "refused"}]
      /\ \A k \in Numbers : (given[k] # "no" => given'[k] # "no") /\ (k = key => given'[k] # "no")
  BY <1>1, LetGoFacts DEF CheckoutInv
<1>3. PhoneTypeOK'
  BY <1>1, <1>2, CheckoutTypes DEF CheckoutInv, PhoneTypeOK
<1>4. Attempts' = Attempts
  BY <1>1 DEF Attempts
<1>5. Numbered' /\ LastUndecided'
  BY <1>1, <1>4 DEF CheckoutInv, Numbered, LastUndecided
<1>6. OrdersFollowed'
  BY <1>1, <1>2, <1>4, CheckoutTypes DEF CheckoutInv, OrdersFollowed, OrderIsKnownOrHeld, Followed
<1> QED
  BY <1>3, <1>5, <1>6 DEF CheckoutInv

\* The shop answers a request, with or without an order made, or never has it.
LEMMA ShopStep ==
  ASSUME CheckoutInv, NEW r \in sent,
         Accept(r) \/ RefuseOrder(r) \/ Fail(r) \/ LoseRequest(r), SessionTypeOK'
  PROVE  CheckoutInv'
<1>1. /\ sent' = sent \ {r} /\ UNCHANGED <<taps, key, placing, waiting, known, given>>
  BY DEF Accept, RefuseOrder, Fail, LoseRequest, screen
<1>2. /\ r \in Attempts /\ r \in [n : Numbers, key : Numbers] /\ r.key \in Numbers /\ r.n \in Numbers
      /\ r.key <= r.n /\ r.n <= taps /\ taps \in Nat
  BY CheckoutTypes DEF CheckoutInv, Numbered, Attempts
<1>3. /\ placed' = placed \/ placed' = placed \cup {r.key}
      /\ \/ answers' = answers
         \/ \E says \in {"ok", "refused", "unsure"} :
               /\ answers' = answers \cup {[n |-> r.n, says |-> says]}
               /\ says = "ok" => placed' = placed \cup {r.key}
               /\ says = "refused" => placed' = placed
      /\ placed \subseteq placed' /\ answers \subseteq answers'
  BY DEF Accept, RefuseOrder, Fail, LoseRequest, Answered
<1>4. PhoneTypeOK'
  BY <1>1, <1>2, <1>3, CheckoutTypes DEF CheckoutInv, PhoneTypeOK
<1>5. \A q \in Attempts' : q \in Attempts
  BY <1>1 DEF Attempts
<1>6. \A q \in sent' : q \in sent /\ q.n # r.n
  BY <1>1, <1>2 DEF CheckoutInv, Numbered, Attempts
<1>7. \A a \in answers' : a \in answers \/ a.n = r.n
  BY <1>3
<1>8. Numbered'
  BY <1>1, <1>2, <1>3, <1>5, <1>6, <1>7, CheckoutTypes DEF CheckoutInv, Numbered, Numbers
<1>9. r.key = taps => r.n = taps
  BY <1>2 DEF Numbers
<1>10. LastUndecided'
  BY <1>1, <1>2, <1>3, <1>6, <1>9 DEF CheckoutInv, LastUndecided, Numbered
<1>11. \A w \in waiting : w.n = r.n => w = r
  BY <1>2 DEF CheckoutInv, Numbered, Attempts
<1>12. OrdersFollowed'
  BY <1>1, <1>2, <1>3, <1>5, <1>11 DEF CheckoutInv, OrdersFollowed, OrderIsKnownOrHeld, Followed
<1> QED
  BY <1>4, <1>8, <1>10, <1>12 DEF CheckoutInv

LEMMA TimeOutStep ==
  ASSUME CheckoutInv, NEW w \in waiting, TimeOut(w) \/ Stick(w), SessionTypeOK'
  PROVE  CheckoutInv'
<1>1. /\ waiting' = waiting \ {w} /\ placing' \in {0, placing} /\ answers' \subseteq answers
      /\ UNCHANGED <<taps, key, sent, placed, known, given>>
  BY DEF TimeOut, Stick, Taken, network
<1>2. PhoneTypeOK'
  BY <1>1, CheckoutTypes DEF CheckoutInv, PhoneTypeOK, Attempts
<1>3. Attempts' \subseteq Attempts
  BY <1>1 DEF Attempts
<1>4. Numbered' /\ LastUndecided' /\ OrdersFollowed'
  BY <1>1, <1>3 DEF CheckoutInv, Numbered, LastUndecided, OrdersFollowed, OrderIsKnownOrHeld, Followed
<1> QED
  BY <1>2, <1>4 DEF CheckoutInv

\* The order that is shown is one the shop has.
LEMMA ReceiveStep == ASSUME CheckoutInv, NEW w \in waiting, Receive(w), SessionTypeOK' PROVE CheckoutInv'
<1>1. /\ waiting' = waiting \ {w} /\ answers' \subseteq answers
      /\ known' = known \cup {w.key} /\ key' = 0 /\ placing' = 0
      /\ [n |-> w.n, says |-> "ok"] \in answers
      /\ UNCHANGED <<taps, sent, placed>>
  BY DEF Receive, Answers, Taken
<1>2. w.key \in placed
  BY <1>1 DEF CheckoutInv, OrdersFollowed
<1>3. /\ given' \in [Numbers -> {"no", "left", "refused"}]
      /\ \A k \in Numbers : (given[k] # "no" => given'[k] # "no") /\ (k = key => k = w.key \/ given'[k] # "no")
  BY LetGoFacts, CheckoutTypes DEF Receive, CheckoutInv
<1>4. PhoneTypeOK'
  BY <1>1, <1>2, <1>3, CheckoutTypes DEF CheckoutInv, PhoneTypeOK
<1>5. Attempts' \subseteq Attempts
  BY <1>1 DEF Attempts
<1>6. Numbered' /\ LastUndecided'
  BY <1>1, <1>5 DEF CheckoutInv, Numbered, LastUndecided
<1>7. OrdersFollowed'
  BY <1>1, <1>3, <1>5, CheckoutTypes DEF CheckoutInv, OrdersFollowed, OrderIsKnownOrHeld, Followed
<1> QED
  BY <1>4, <1>6, <1>7 DEF CheckoutInv

\* A refusal clears the key; of the key's first attempt, there is then no order, and
\* no other attempt that could still make one.
LEMMA NotPlacedStep ==
  ASSUME CheckoutInv, NEW w \in waiting, NEW says \in {"refused", "unsure"}, NotPlaced(w, says), SessionTypeOK'
  PROVE  CheckoutInv'
<1>1. /\ waiting' = waiting \ {w} /\ answers' \subseteq answers
      /\ placing' = (IF placing = w.n THEN 0 ELSE placing)
      /\ [n |-> w.n, says |-> says] \in answers
      /\ UNCHANGED <<taps, sent, placed, known>>
      /\ key' \in {0, key}
  BY DEF NotPlaced, Answers, Taken
<1>2. /\ w \in Attempts /\ w.n \in Numbers /\ w.key \in Numbers /\ taps \in Nat
  BY CheckoutTypes DEF CheckoutInv, Attempts
<1>3. /\ given' \in [Numbers -> {"no", "left", "refused"}]
      /\ \A k \in Numbers : given[k] # "no" => given'[k] # "no"
      /\ \/ UNCHANGED <<key, given>>
         \/ /\ key' = 0 /\ placing = w.n
            /\ \A k \in Numbers : k = key => given'[k] # "no"
         \/ /\ key' = 0 /\ placing = w.n /\ w.n = w.key /\ says = "refused"
            /\ UNCHANGED given
  BY LetGoFacts, CheckoutTypes DEF NotPlaced, Keeps, CheckoutInv
<1>4. PhoneTypeOK'
  BY <1>1, <1>3, CheckoutTypes DEF CheckoutInv, PhoneTypeOK
<1>5. Attempts' \subseteq Attempts
  BY <1>1 DEF Attempts
<1>6. Numbered' /\ LastUndecided'
  BY <1>1, <1>5 DEF CheckoutInv, Numbered, LastUndecided
<1>7. placing = w.n => placing = taps /\ w.key = key
  BY <1>2 DEF CheckoutInv, Numbered, OrdersFollowed, Numbers
<1>8. CASE placing = w.n /\ w.n = w.key /\ says = "refused" /\ key' = 0 /\ UNCHANGED given
  <2>1. key = taps /\ key \notin placed
    BY <1>1, <1>7, <1>8 DEF CheckoutInv, LastUndecided
  <2>2. \A q \in Attempts' : q.key # taps
    <3> SUFFICES ASSUME NEW q \in Attempts', q.key = taps PROVE FALSE
      OBVIOUS
    <3>1. q \in Attempts /\ q.n = taps
      BY <1>5, CheckoutTypes DEF CheckoutInv, Numbered, Numbers
    <3>2. q = w
      BY <1>2, <1>7, <1>8, <3>1 DEF CheckoutInv, Numbered
    <3>3. w \in sent
      BY <1>1, <3>2 DEF Attempts
    <3> QED
      BY <1>1, <3>3 DEF CheckoutInv, Numbered
  <2>3. OrdersFollowed'
    BY <1>1, <1>5, <1>8, <2>1, <2>2, CheckoutTypes DEF CheckoutInv, OrdersFollowed, OrderIsKnownOrHeld, Followed
  <2> QED
    BY <1>4, <1>6, <2>3 DEF CheckoutInv
<1>9. CASE UNCHANGED <<key, given>> \/ (key' = 0 /\ \A k \in Numbers : k = key => given'[k] # "no")
  <2>1. placing' # 0 => placing' = placing /\ key' = key
    BY <1>1, <1>3, <1>2
  <2>2. OrdersFollowed'
    BY <1>1, <1>3, <1>5, <1>9, <2>1, CheckoutTypes DEF CheckoutInv, OrdersFollowed, OrderIsKnownOrHeld, Followed
  <2> QED
    BY <1>4, <1>6, <2>2 DEF CheckoutInv
<1> QED
  BY <1>3, <1>8, <1>9

LEMMA RestartStep == ASSUME CheckoutInv, Restart, SessionTypeOK' PROVE CheckoutInv'
<1>1. /\ key' = 0 /\ placing' = 0 /\ waiting' = {}
      /\ given' = [k \in Numbers |-> IF k = key \/ (\E w \in waiting : w.key = k) THEN "left" ELSE given[k]]
      /\ UNCHANGED <<taps, sent, answers, placed, known>>
  BY DEF Restart, network
<1>2. /\ given' \in [Numbers -> {"no", "left", "refused"}]
      /\ \A k \in Numbers : (given[k] # "no" => given'[k] # "no") /\ (k = key => given'[k] # "no")
  BY <1>1, CheckoutTypes DEF CheckoutInv
<1>3. PhoneTypeOK'
  BY <1>1, <1>2, CheckoutTypes DEF CheckoutInv, PhoneTypeOK, Attempts
<1>4. Attempts' \subseteq Attempts
  BY <1>1 DEF Attempts
<1>5. Numbered' /\ LastUndecided'
  BY <1>1, <1>4 DEF CheckoutInv, Numbered, LastUndecided
<1>6. OrdersFollowed'
  BY <1>1, <1>2, <1>4, CheckoutTypes DEF CheckoutInv, OrdersFollowed, OrderIsKnownOrHeld, Followed
<1> QED
  BY <1>3, <1>5, <1>6 DEF CheckoutInv

LEMMA PhoneKept == ASSUME PhoneInv, [PhoneNext]_phoneVars PROVE PhoneInv'
<1> USE DEF PhoneInv
<1>1. CASE SessionStep /\ UNCHANGED checkout
  <2>1. SessionInv'
    BY <1>1, SessionKept
  <2> QED
    BY <1>1, <2>1, CheckoutStutters DEF SessionInv
<1>2. CASE Restart
  <2>1. SessionInv'
    BY <1>2, SessionRestartStep DEF Restart
  <2> QED
    BY <1>2, <2>1, RestartStep DEF SessionInv
<1>3. CASE UNCHANGED phoneVars
  <2>1. SessionInv'
    BY <1>3, SessionStutters DEF phoneVars
  <2> QED
    BY <1>3, <2>1, CheckoutStutters DEF phoneVars, SessionInv
<1>4. ASSUME UNCHANGED session PROVE SessionInv' /\ SessionTypeOK'
  BY <1>4, SessionStutters DEF SessionInv
<1>5. CASE Tap
  BY <1>4, <1>5, TapStep DEF Tap
<1>6. CASE TapInvalid \/ LeaveScreen
  BY <1>4, <1>6, ScreenStep DEF TapInvalid, LeaveScreen
<1>7. ASSUME NEW r \in sent, Accept(r) \/ RefuseOrder(r) \/ Fail(r) \/ LoseRequest(r) PROVE PhoneInv'
  BY <1>4, <1>7, ShopStep DEF Accept, RefuseOrder, Fail, LoseRequest
<1>8. ASSUME NEW w \in waiting, TimeOut(w) \/ Stick(w) PROVE PhoneInv'
  BY <1>4, <1>8, TimeOutStep DEF TimeOut, Stick
<1>9. ASSUME NEW w \in waiting, Receive(w) PROVE PhoneInv'
  BY <1>4, <1>9, ReceiveStep DEF Receive
<1>10. ASSUME NEW w \in waiting, NEW says \in {"refused", "unsure"}, NotPlaced(w, says) PROVE PhoneInv'
  BY <1>4, <1>10, NotPlacedStep DEF NotPlaced
<1> QED
  BY <1>1, <1>2, <1>3, <1>5, <1>6, <1>7, <1>8, <1>9, <1>10 DEF PhoneNext

\* The variables of the app always have their types, and an order it shows is one
\* the shop has.
THEOREM PhoneTypeCorrect == PhoneSpec => []PhoneTypeOK
<1>1. PhoneInv => PhoneTypeOK
  BY DEF PhoneInv, CheckoutInv
<1> QED
  BY <1>1, PhoneStarts, PhoneKept, PTL DEF PhoneSpec

\* For any number of requests and sign-ins: whenever nothing is under way, the device
\* holds the session the customer signed in to and has not left, but for the causes
\* that astray names (saveSession, clearSession and the handling of 401).
THEOREM TheRightSession == PhoneSpec => []SignedInAsAsked
<1>1. PhoneInv => SignedInAsAsked
  BY DEF PhoneInv, SessionInv, DeviceAgrees, SignedInAsAsked, Saves, Under
<1> QED
  BY <1>1, PhoneStarts, PhoneKept, PTL DEF PhoneSpec

\* For any number of taps: the app knows of every order it made, or holds the key by
\* which the next tap is answered with it, unless it let go of the key for a cause
\* (idempotencyKey in checkout.tsx).
THEOREM NoOrderIsLost == PhoneSpec => []OrderIsKnownOrHeld
<1>1. PhoneInv => OrderIsKnownOrHeld
  BY DEF PhoneInv, CheckoutInv, OrdersFollowed
<1> QED
  BY <1>1, PhoneStarts, PhoneKept, PTL DEF PhoneSpec
=============================================================================
