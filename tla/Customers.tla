------------------------------ MODULE Customers ------------------------------
(***************************************************************************)
(* The saved addresses of one customer, edited from several devices at     *)
(* once and erased meanwhile: createAddress, updateAddress, deleteAddress, *)
(* setDefaultAddress and eraseCustomer, statement by statement.            *)
(*                                                                         *)
(* A statement that scans the customer's addresses takes the lock of every *)
(* row and of the gap in the index: a gap may be held by several           *)
(* transactions, and an INSERT waits until no other one holds it.  Locks   *)
(* last to the end of the transaction; InnoDB rolls a transaction back     *)
(* when it waits in a cycle.  What is written is seen when it commits.     *)
(***************************************************************************)
EXTENDS Naturals, FiniteSets

CONSTANTS
  Devices,       \* requests in progress at once
  LastId,        \* address ids are 1 .. LastId
  MaxAddresses,  \* MAX_ADDRESSES
  MaxRequests,   \* bound on the requests of a behaviour
  Nobody         \* the owner of a lock that is free

ASSUME NobodyAssumption == Nobody \notin Devices

ASSUME BoundsAssumption == LastId \in Nat /\ MaxAddresses \in Nat \ {0} /\ MaxRequests \in Nat

Addresses == 1 .. LastId
Mark      == {"gone", "plain", "default"}

VARIABLES
  rows,     \* customer_addresses: what each id is, as committed
  open,     \* the customers row exists
  nextId,   \* AUTO_INCREMENT
  pc,       \* where each request is
  op,       \* what it does
  view,     \* what it has written of the rows it has locked
  owner,    \* who holds the lock of an address
  gap,      \* who holds the gap lock of the customer's entries in the index
  account,  \* who holds the lock of the customers row
  served    \* requests so far

table == <<rows, open, nextId>>
locks == <<owner, gap, account>>
vars  == <<table, pc, op, view, locks, served>>

Kept == {a \in Addresses : rows[a] # "gone"}

\* isDefault is what the form asks for; createAddress adds its own reason.
Request == [kind : {"create"}, id : {0}, isDefault : BOOLEAN]
             \cup [kind : {"update"}, id : Addresses, isDefault : BOOLEAN]
             \cup [kind : {"delete", "default"}, id : Addresses, isDefault : {FALSE}]
             \cup [kind : {"erase"}, id : {0}, isDefault : {FALSE}]

None == [kind |-> "none", id |-> 0, isDefault |-> FALSE]

NoView == [a \in Addresses |-> "gone"]

Steps == {"idle", "count", "insert", "clear", "edit", "lock", "promote", "set", "others", "erase", "wipe", "commit"}

TypeOK ==
  /\ rows \in [Addresses -> Mark]
  /\ open \in BOOLEAN
  /\ nextId \in Nat
  /\ pc \in [Devices -> Steps]
  /\ op \in [Devices -> Request \cup {None}]
  /\ view \in [Devices -> [Addresses -> Mark]]
  /\ owner \in [Addresses -> Devices \cup {Nobody}]
  /\ gap \in SUBSET Devices
  /\ account \in Devices \cup {Nobody}
  /\ served \in Nat

\* The book earlier requests have left: ids are handed out upwards.
Init ==
  /\ rows \in [Addresses -> Mark]
  /\ nextId \in 1 .. LastId + 1
  /\ \A a \in Kept : a < nextId
  /\ Cardinality(Kept) <= MaxAddresses
  /\ Kept # {} => \E a \in Kept : rows[a] = "default"
  /\ Cardinality({a \in Addresses : rows[a] = "default"}) <= 1
  /\ open = TRUE
  /\ pc = [d \in Devices |-> "idle"]
  /\ op = [d \in Devices |-> None]
  /\ view = [d \in Devices |-> NoView]
  /\ owner = [a \in Addresses |-> Nobody]
  /\ gap = {}
  /\ account = Nobody
  /\ served = 0

Goto(d, label) == pc' = [pc EXCEPT ![d] = label]

Mine(d, a) == owner[a] \in {Nobody, d}

\* A locking read or an UPDATE over customer_id = ?.
Scan(d) ==
  /\ \A a \in Addresses : Mine(d, a)
  /\ owner' = [a \in Addresses |-> IF a \in Kept THEN d ELSE owner[a]]
  /\ gap' = gap \cup {d}
  /\ UNCHANGED account

\* One row by its id.
LockRow(d, a) ==
  /\ Mine(d, a)
  /\ owner' = [owner EXCEPT ![a] = d]
  /\ UNCHANGED <<gap, account>>

Write(d, marks) == view' = [view EXCEPT ![d] = marks]

\* UPDATE .. SET is_default = 0: what is kept, all of it plain.
Plain == [a \in Addresses |-> IF a \in Kept THEN "plain" ELSE "gone"]

\* Commit, rollback and a lost connection all end a transaction's locks.
Release(d) ==
  /\ owner' = [a \in Addresses |-> IF owner[a] = d THEN Nobody ELSE owner[a]]
  /\ gap' = gap \ {d}
  /\ account' = IF account = d THEN Nobody ELSE account

End(d) ==
  /\ Goto(d, "idle")
  /\ Release(d)
  /\ op' = [op EXCEPT ![d] = None]
  /\ view' = [view EXCEPT ![d] = NoView]

First(q) ==
  CASE q.kind = "create"  -> "count"
    [] q.kind = "update"  -> IF q.isDefault THEN "clear" ELSE "edit"
    [] q.kind = "delete"  -> "lock"
    [] q.kind = "default" -> "set"
    [] q.kind = "erase"   -> "erase"

\* The session resolves to a customer; the transaction begins, perhaps much later.
Begin(d, q) ==
  /\ pc[d] = "idle" /\ served < MaxRequests
  /\ open
  /\ served' = served + 1
  /\ op' = [op EXCEPT ![d] = q]
  /\ Goto(d, First(q))
  /\ UNCHANGED <<table, view, locks>>

(***************************************************************************)
(* createAddress.                                                          *)
(***************************************************************************)

\* Fault: SELECT COUNT(*) without FOR UPDATE.
CountUnlocked(d) == UNCHANGED locks

\* SELECT COUNT(*) .. FOR UPDATE.
CountLocked(d) == Scan(d)

\* The count, the cap, and the UPDATE that clears the rows just locked.
Count(d) ==
  /\ pc[d] = "count"
  /\ UNCHANGED <<table, served>>
  /\ \/ /\ Cardinality(Kept) >= MaxAddresses
        /\ \A a \in Addresses : Mine(d, a)
        /\ End(d)
     \/ /\ Cardinality(Kept) < MaxAddresses
        /\ CountLocked(d)
        /\ op' = [op EXCEPT ![d].isDefault = @ \/ Kept = {}]
        /\ Write(d, IF op'[d].isDefault THEN Plain ELSE rows)
        /\ Goto(d, "insert")

\* Fault: no foreign key to customers.
ParentExists == TRUE

\* fk_customer_addresses_customer.
CustomerExists == open

\* The INSERT waits for the gap and, by its foreign key, for the customers row; it
\* is refused when the customer is gone.
Insert(d) ==
  /\ pc[d] = "insert"
  /\ gap \subseteq {d} /\ account = Nobody
  /\ nextId <= LastId
  /\ UNCHANGED <<rows, open, served>>
  /\ \/ /\ CustomerExists
        /\ nextId' = nextId + 1
        /\ Write(d, [view[d] EXCEPT ![nextId] = IF op[d].isDefault THEN "default" ELSE "plain"])
        /\ owner' = [owner EXCEPT ![nextId] = d]
        /\ account' = d
        /\ Goto(d, "commit")
        /\ UNCHANGED <<op, gap>>
     \/ /\ ~CustomerExists
        /\ End(d)
        /\ UNCHANGED nextId

(***************************************************************************)
(* updateAddress.                                                          *)
(***************************************************************************)

\* Every default is cleared first, whether or not the address is still there.
Clear(d) ==
  /\ pc[d] = "clear"
  /\ Scan(d)
  /\ Write(d, Plain)
  /\ Goto(d, "edit")
  /\ UNCHANGED <<table, op, served>>

\* UPDATE .. WHERE id = ?: no row, nothing written; the transaction commits anyway.
Edit(d) ==
  /\ pc[d] = "edit"
  /\ LET a == op[d].id
     IN  IF a \in Kept
         THEN /\ LockRow(d, a)
              /\ Write(d, [view[d] EXCEPT ![a] = IF op[d].isDefault THEN "default" ELSE rows[a]])
         ELSE Mine(d, a) /\ UNCHANGED <<view, locks>>
  /\ Goto(d, "commit")
  /\ UNCHANGED <<table, op, served>>

(***************************************************************************)
(* deleteAddress.                                                          *)
(***************************************************************************)

\* SELECT .. FOR UPDATE and the DELETE of the row it has locked.
LockAndDelete(d) ==
  /\ pc[d] = "lock"
  /\ Mine(d, op[d].id)
  /\ UNCHANGED <<table, served>>
  /\ \/ /\ op[d].id \notin Kept
        /\ End(d)
     \/ /\ op[d].id \in Kept
        /\ UNCHANGED op
        /\ LockRow(d, op[d].id)
        /\ Write(d, [view[d] EXCEPT ![op[d].id] = "gone"])
        /\ Goto(d, IF rows[op[d].id] = "default" THEN "promote" ELSE "commit")

\* Fault: the one that is deleted is promoted, and nobody is.
HeirsOfNone(a) == {}

\* ORDER BY id LIMIT 1 over what is left.
Heirs(a) == {b \in Kept \ {a} : \A c \in Kept \ {a} : b <= c}

Promote(d) ==
  /\ pc[d] = "promote"
  /\ \/ /\ Heirs(op[d].id) = {}
        /\ UNCHANGED <<view, locks>>
     \/ \E b \in Heirs(op[d].id) :
          /\ LockRow(d, b)
          /\ Write(d, [view[d] EXCEPT ![b] = "default"])
  /\ Goto(d, "commit")
  /\ UNCHANGED <<table, op, served>>

(***************************************************************************)
(* setDefaultAddress.                                                      *)
(***************************************************************************)

\* UPDATE .. SET is_default = 1 WHERE id = ?; no such row, and nothing is done.
SetDefault(d) ==
  /\ pc[d] = "set"
  /\ Mine(d, op[d].id)
  /\ UNCHANGED <<table, served>>
  /\ \/ /\ op[d].id \notin Kept
        /\ End(d)
     \/ /\ op[d].id \in Kept
        /\ UNCHANGED op
        /\ LockRow(d, op[d].id)
        /\ Write(d, [view[d] EXCEPT ![op[d].id] = "default"])
        /\ Goto(d, "others")

\* Fault: the others keep their mark.
OthersAsTheyWere(a) == [rows EXCEPT ![a] = "default"]

\* UPDATE .. SET is_default = 0 WHERE id <> ?.
OthersPlain(a) == [Plain EXCEPT ![a] = "default"]

ClearOthers(d) ==
  /\ pc[d] = "others"
  /\ Scan(d)
  /\ Write(d, OthersPlain(op[d].id))
  /\ Goto(d, "commit")
  /\ UNCHANGED <<table, op, served>>

(***************************************************************************)
(* eraseCustomer, as far as the customer and the addresses go.             *)
(***************************************************************************)

\* SELECT id FROM customers .. FOR UPDATE.
LockCustomer(d) ==
  /\ pc[d] = "erase" /\ account = Nobody
  /\ UNCHANGED <<table, served>>
  /\ \/ /\ open
        /\ account' = d
        /\ Goto(d, "wipe")
        /\ UNCHANGED <<op, view, owner, gap>>
     \/ /\ ~open
        /\ End(d)

\* DELETE FROM customer_addresses, and later the customers row.
Wipe(d) ==
  /\ pc[d] = "wipe"
  /\ Scan(d)
  /\ Write(d, [a \in Addresses |-> "gone"])
  /\ Goto(d, "commit")
  /\ UNCHANGED <<table, op, served>>

(***************************************************************************)
(* The end of a transaction.                                               *)
(***************************************************************************)

Commit(d) ==
  /\ pc[d] = "commit"
  /\ rows' = [a \in Addresses |-> IF owner[a] = d THEN view[d][a] ELSE rows[a]]
  /\ open' = (open /\ op[d].kind # "erase")
  /\ End(d)
  /\ UNCHANGED <<nextId, served>>

\* A statement fails, the connection is lost, or InnoDB picks a deadlock's victim.
Fail(d) ==
  /\ pc[d] # "idle"
  /\ End(d)
  /\ UNCHANGED <<table, served>>

Next ==
  \E d \in Devices :
    \/ \E q \in Request : Begin(d, q)
    \/ Count(d)
    \/ Insert(d)
    \/ Clear(d)
    \/ Edit(d)
    \/ LockAndDelete(d)
    \/ Promote(d)
    \/ SetDefault(d)
    \/ ClearOthers(d)
    \/ LockCustomer(d)
    \/ Wipe(d)
    \/ Commit(d)
    \/ Fail(d)

Spec == Init /\ [][Next]_vars

(***************************************************************************)
(* What must hold.                                                         *)
(***************************************************************************)

Book == INSTANCE AddressBook WITH Addresses <- Addresses, MaxAddresses <- MaxAddresses, book <- rows, open <- open

\* However the statements of saves, edits, removals and an erasure interleave, they
\* amount to a book edited one step at a time within its cap: the locks of
\* SELECT COUNT(*) .. FOR UPDATE and of the UPDATEs leave no other outcome.
ImplementsBook == Book!Spec

\* No two addresses are the default, though three of the five writers set the flag.
OneDefault == Book!OneDefault

\* A save or an edit whose session was resolved before an erasure leaves nothing
\* behind after it.
ErasedKeepsNothing == Book!ErasedKeepsNothing

HasDefault == \E a \in Kept : rows[a] = "default"

\* A customer whose addresses include a default keeps one as long as any are kept,
\* whatever is removed and moved at once - unless an edit marks as the default an
\* address that was removed before it: updateAddress clears the others first.
DefaultLostOnlyByLateEdit ==
  [][HasDefault /\ ~HasDefault' /\ Kept' # {} =>
       \E d \in Devices :
         /\ pc[d] = "commit" /\ pc'[d] = "idle"
         /\ op[d].kind = "update" /\ op[d].isDefault /\ op[d].id \notin Kept]_vars
=============================================================================
