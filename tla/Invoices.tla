------------------------------ MODULE Invoices ------------------------------
(***************************************************************************)
(* allocateInvoiceNumber, statement by statement.  Requests for the        *)
(* invoice page run concurrently, each in a transaction of its own on a    *)
(* connection of its own; InnoDB holds the row locks they take until they  *)
(* commit or roll back.  What a transaction has written and not committed  *)
(* is only in its own local state here, because no other can read it.      *)
(***************************************************************************)
EXTENDS Integers

CONSTANTS
  Orders,     \* orders an invoice can be rendered for
  Requests,   \* requests for /orders/[id]/invoice in progress at once
  LastYear,   \* financial years are numbered 1 .. LastYear
  Nobody      \* the owner of a lock that is free

ASSUME LastYearAssumption == LastYear \in Nat \ {0}
ASSUME NobodyAssumption   == Nobody \notin Requests

VARIABLES
  invoice,    \* orders.invoice_number, committed
  lastSeq,    \* invoice_counters.last_seq, committed; 0 without a row
  supplied,   \* the order is neither pending nor cancelled
  today,      \* the financial year the clock is in
  pc,         \* where each request is
  order,      \* the order it is for
  fy,         \* financialYear(now), now being when it was called
  sequence,   \* the number it has read off the counter
  answer,     \* what it answered
  orderLock,  \* owner of the lock on each row of orders
  yearLock    \* owner of the lock on each row of invoice_counters

tables == <<invoice, lastSeq>>
locks  == <<orderLock, yearLock>>
local  == <<order, fy, sequence, answer>>
world  == <<supplied, today>>
vars   == <<tables, world, pc, local, locks>>

Series == INSTANCE InvoiceSeries

Years    == Series!Years
Number   == Series!Number
NoNumber == Series!NoNumber

TypeOK ==
  /\ Series!TypeOK
  /\ supplied \in [Orders -> BOOLEAN]
  /\ today \in Years
  /\ pc \in [Requests -> {"idle", "lockOrder", "lockCounter", "readCounter", "commit"}]
  /\ order \in [Requests -> Orders]
  /\ fy \in [Requests -> Years]
  /\ sequence \in [Requests -> Nat]
  /\ answer \in [Requests -> Number \cup {NoNumber}]
  /\ orderLock \in [Orders -> Requests \cup {Nobody}]
  /\ yearLock \in [Years -> Requests \cup {Nobody}]

Init ==
  /\ Series!Init
  /\ supplied = [o \in Orders |-> FALSE]
  /\ today = 1
  /\ pc = [r \in Requests |-> "idle"]
  /\ order \in [Requests -> Orders]
  /\ fy = [r \in Requests |-> 1]
  /\ sequence = [r \in Requests |-> 0]
  /\ answer = [r \in Requests |-> NoNumber]
  /\ orderLock = [o \in Orders |-> Nobody]
  /\ yearLock = [y \in Years |-> Nobody]

Goto(r, label) == pc' = [pc EXCEPT ![r] = label]

\* Fault: the order's row stays locked.
ReleaseCounter(r) ==
  /\ orderLock' = orderLock
  /\ yearLock' = [y \in Years |-> IF yearLock[y] = r THEN Nobody ELSE yearLock[y]]

\* Commit, rollback and a broken connection all free what the request holds.
Release(r) ==
  /\ orderLock' = [o \in Orders |-> IF orderLock[o] = r THEN Nobody ELSE orderLock[o]]
  /\ yearLock' = [y \in Years |-> IF yearLock[y] = r THEN Nobody ELSE yearLock[y]]

\* The page is asked for; the clock is read before anything is locked.
Begin(r, o) ==
  /\ pc[r] = "idle"
  /\ Goto(r, "lockOrder")
  /\ order' = [order EXCEPT ![r] = o]
  /\ fy' = [fy EXCEPT ![r] = today]
  /\ answer' = [answer EXCEPT ![r] = NoNumber]
  /\ UNCHANGED <<tables, world, sequence, locks>>

\* Fault: the row is read without FOR UPDATE.
ReadOrder(r) == UNCHANGED orderLock

\* SELECT .. FROM orders WHERE id = ? FOR UPDATE: waits for the row.
TakeOrder(r) ==
  /\ orderLock[order[r]] = Nobody
  /\ orderLock' = [orderLock EXCEPT ![order[r]] = r]

\* The order has a number already: roll back and answer it.
AlreadyNumbered(r) ==
  /\ pc[r] = "lockOrder"
  /\ orderLock[order[r]] = Nobody
  /\ invoice[order[r]] # NoNumber
  /\ answer' = [answer EXCEPT ![r] = invoice[order[r]]]
  /\ Goto(r, "idle")
  /\ UNCHANGED <<tables, world, order, fy, sequence, locks>>

\* Nothing was supplied, so nothing is invoiced.
NotSupplied(r) ==
  /\ pc[r] = "lockOrder"
  /\ orderLock[order[r]] = Nobody
  /\ invoice[order[r]] = NoNumber /\ ~supplied[order[r]]
  /\ Goto(r, "idle")
  /\ UNCHANGED <<tables, world, local, locks>>

LockOrder(r) ==
  /\ pc[r] = "lockOrder"
  /\ TakeOrder(r)
  /\ invoice[order[r]] = NoNumber /\ supplied[order[r]]
  /\ Goto(r, "lockCounter")
  /\ UNCHANGED <<tables, world, local, yearLock>>

\* Fault: INSERT IGNORE and a plain SELECT, which lock nothing.
ReadYear(r) == UNCHANGED yearLock

\* INSERT .. ON DUPLICATE KEY UPDATE: creates the year's row or touches it, and
\* either way holds its lock from here on.
TakeYear(r) ==
  /\ yearLock[fy[r]] = Nobody
  /\ yearLock' = [yearLock EXCEPT ![fy[r]] = r]

LockCounter(r) ==
  /\ pc[r] = "lockCounter"
  /\ TakeYear(r)
  /\ Goto(r, "readCounter")
  /\ UNCHANGED <<tables, world, local, orderLock>>

\* Fault: the counter holds the next number, not the last one.
SameNumber(last) == last

NextNumber(last) == last + 1

\* SELECT last_seq .. FOR UPDATE, and the next number.
ReadCounter(r) ==
  /\ pc[r] = "readCounter"
  /\ sequence' = [sequence EXCEPT ![r] = NextNumber(lastSeq[fy[r]])]
  /\ Goto(r, "commit")
  /\ UNCHANGED <<tables, world, order, fy, answer, locks>>

MyNumber(r) == [fy |-> fy[r], seq |-> sequence[r]]

\* The two UPDATEs and the COMMIT that makes them visible, together; the answer
\* leaves afterwards.  uq_orders_invoice is not needed: Unique holds without it.
Commit(r) ==
  /\ pc[r] = "commit"
  /\ lastSeq' = [lastSeq EXCEPT ![fy[r]] = sequence[r]]
  /\ invoice' = [invoice EXCEPT ![order[r]] = MyNumber(r)]
  /\ answer' = [answer EXCEPT ![r] = MyNumber(r)]
  /\ Goto(r, "idle")
  /\ Release(r)
  /\ UNCHANGED <<world, order, fy, sequence>>

\* Fault: the counter is not part of the transaction, and a rollback burns a number.
RollBackOrderOnly(r) ==
  lastSeq' = IF pc[r] = "commit" THEN [lastSeq EXCEPT ![fy[r]] = sequence[r]] ELSE lastSeq

\* A rollback undoes the counter and the order alike.
RollBack(r) == lastSeq' = lastSeq

\* A statement fails, the connection breaks or the server stops.
Fail(r) ==
  /\ pc[r] # "idle"
  /\ RollBack(r)
  /\ Goto(r, "idle")
  /\ Release(r)
  /\ UNCHANGED <<invoice, world, local>>

\* Webhooks, customers and the admin change the order's status, under its lock.
StatusChanges(o) ==
  /\ orderLock[o] = Nobody
  /\ supplied' = [supplied EXCEPT ![o] = ~@]
  /\ UNCHANGED <<tables, today, pc, local, locks>>

\* The first of April.
YearTurns ==
  /\ today < LastYear
  /\ today' = today + 1
  /\ UNCHANGED <<tables, supplied, pc, local, locks>>

Next ==
  \/ \E r \in Requests, o \in Orders : Begin(r, o)
  \/ \E r \in Requests : \/ AlreadyNumbered(r)
                         \/ NotSupplied(r)
                         \/ LockOrder(r)
                         \/ LockCounter(r)
                         \/ ReadCounter(r)
                         \/ Commit(r)
                         \/ Fail(r)
  \/ \E o \in Orders : StatusChanges(o)
  \/ YearTurns

Spec == Init /\ [][Next]_vars

\* A request runs on until it has answered; InnoDB queues for a row lock in order
\* of arrival, so a request that waits for one is not passed over for ever.
Fairness ==
  \A r \in Requests :
    /\ SF_vars(AlreadyNumbered(r) \/ NotSupplied(r) \/ LockOrder(r))
    /\ SF_vars(LockCounter(r))
    /\ WF_vars(ReadCounter(r) \/ Commit(r))

FairSpec == Spec /\ Fairness

\* The statements implement the series: every step is a single allocation or
\* changes neither table.
Refinement == Series!Spec

Consecutive == Series!Consecutive
Unique      == Series!Unique

\* Whatever is printed on an invoice is the number the order has in the database:
\* no number leaves before it is committed, and two renderings agree.
AnswersAreCommitted ==
  \A r \in Requests : answer[r] # NoNumber => answer[r] = invoice[order[r]]

\* An order gets its number while it is neither pending nor cancelled: the status
\* that was read is still the status when the number is committed.
OnlySuppliedIsInvoiced ==
  [][\A o \in Orders : invoice'[o] # invoice[o] => supplied[o]]_vars

\* No request waits for a lock for ever: order row before counter row is a
\* deadlock-free order.
EveryRequestAnswers == \A r \in Requests : pc[r] # "idle" ~> pc[r] = "idle"
=============================================================================
