-------------------------- MODULE CustomersProofs --------------------------
(***************************************************************************)
(* The locks of the address book are enough.  Who has scanned the          *)
(* customer's addresses is alone with them: it owns every row and holds    *)
(* the gap, so nobody else inserts or changes one before it commits.  Who  *)
(* has locked one row knows that row, and keeps every scan waiting.  So at *)
(* a commit what a request has written is a step of the book.              *)
(***************************************************************************)
EXTENDS Customers, FiniteSetTheorems, WellFoundedInduction, TLAPS

Owned(d) == {a \in Addresses : owner[a] = d}

\* What a scan takes, to the end of the transaction.
Alone(d) ==
  /\ d \in gap
  /\ \A a \in Addresses : owner[a] \in {Nobody, d}
  /\ Kept \subseteq Owned(d)

OnlyDefault(a) == [Plain EXCEPT ![a] = "default"]

\* What each kind of request has written when it is about to commit.
Creates(d) ==
  /\ Alone(d) /\ open /\ account = d
  /\ Cardinality(Kept) < MaxAddresses
  /\ \E n \in Addresses \ Kept :
       /\ n < nextId /\ Owned(d) \subseteq Kept \cup {n} /\ owner[n] = d
       /\ \/ view[d] = OnlyDefault(n)
          \/ Kept # {} /\ view[d] = [rows EXCEPT ![n] = "plain"]

Updates(d) ==
  \/ /\ op[d].isDefault /\ Alone(d) /\ Owned(d) \subseteq Kept
     /\ \/ op[d].id \notin Kept /\ view[d] = Plain
        \/ op[d].id \in Kept /\ view[d] = OnlyDefault(op[d].id)
  \/ \A a \in Owned(d) : view[d][a] = rows[a]

Deletes(d) ==
  /\ op[d].id \in Kept /\ owner[op[d].id] = d
  /\ view[d][op[d].id] = "gone"
  /\ \/ Owned(d) = {op[d].id} /\ (rows[op[d].id] = "default" => Kept = {op[d].id})
     \/ /\ rows[op[d].id] = "default"
        /\ \E b \in Kept \ {op[d].id} : Owned(d) = {op[d].id, b} /\ view[d][b] = "default"

SetsDefault(d) ==
  /\ Alone(d) /\ Owned(d) \subseteq Kept
  /\ op[d].id \in Kept /\ view[d] = OnlyDefault(op[d].id)

Erases(d) ==
  /\ Alone(d) /\ Owned(d) \subseteq Kept
  /\ account = d
  /\ view[d] = NoView

\* What a request holds and has written at each statement.
Progress(d) ==
  /\ pc[d] \in {"idle", "count", "clear", "lock", "set", "erase", "wipe"} => Owned(d) = {}
  /\ pc[d] = "count"   => op[d].kind = "create"
  /\ pc[d] = "clear"   => op[d].kind = "update" /\ op[d].isDefault
  /\ pc[d] = "lock"    => op[d].kind = "delete"
  /\ pc[d] = "set"     => op[d].kind = "default"
  /\ pc[d] = "erase"   => op[d].kind = "erase"
  /\ pc[d] = "wipe"    => op[d].kind = "erase" /\ account = d
  /\ pc[d] = "edit"    => op[d].kind = "update"
  /\ pc[d] = "edit" /\ ~op[d].isDefault => Owned(d) = {}
  /\ pc[d] = "edit" /\ op[d].isDefault => Alone(d) /\ Owned(d) \subseteq Kept /\ view[d] = Plain
  /\ pc[d] = "promote" =>
       /\ op[d].kind = "delete" /\ op[d].id \in Kept /\ Owned(d) = {op[d].id}
       /\ rows[op[d].id] = "default" /\ view[d][op[d].id] = "gone"
  /\ pc[d] = "others"  => op[d].kind = "default" /\ op[d].id \in Kept /\ Owned(d) = {op[d].id}
  /\ pc[d] = "insert"  =>
       /\ op[d].kind = "create" /\ Alone(d) /\ Owned(d) \subseteq Kept
       /\ Cardinality(Kept) < MaxAddresses
       /\ \/ op[d].isDefault /\ view[d] = Plain
          \/ ~op[d].isDefault /\ Kept # {} /\ view[d] = rows
  /\ pc[d] = "commit" =>
       \/ op[d].kind = "create"  /\ Creates(d)
       \/ op[d].kind = "update"  /\ Updates(d)
       \/ op[d].kind = "delete"  /\ Deletes(d)
       \/ op[d].kind = "default" /\ SetsDefault(d)
       \/ op[d].kind = "erase"   /\ Erases(d)

FreshInv == Kept \subseteq 1 .. (nextId - 1) /\ nextId \in Nat \ {0}

IInv == TypeOK /\ FreshInv /\ \A d \in Devices : Progress(d)

\* What a step of e other than a commit leaves to the others.
Quiet(e) ==
  /\ rows' = rows /\ open' = open
  /\ nextId' \in Nat /\ nextId' >= nextId
  /\ \A d \in Devices \ {e} :
       /\ pc'[d] = pc[d] /\ op'[d] = op[d] /\ view'[d] = view[d]
       /\ d \in gap => d \in gap'
       /\ account = d => account' = d
  /\ \A a \in Addresses :
       \/ owner'[a] = owner[a]
       \/ owner[a] = e /\ owner'[a] = Nobody
       \/ owner[a] = Nobody /\ owner'[a] = e /\ (a \in Kept \/ gap \subseteq {e})

LEMMA QuietKeeps ==
  ASSUME IInv, NEW e \in Devices, Quiet(e), NEW d \in Devices, d # e
  PROVE  Progress(d)'
<1>1. /\ rows' = rows /\ open' = open
      /\ pc'[d] = pc[d] /\ op'[d] = op[d] /\ view'[d] = view[d]
      /\ account = d => account' = d
      /\ nextId \in Nat /\ nextId' \in Nat /\ nextId' >= nextId
  BY DEF Quiet, IInv, TypeOK
<1>2. Kept' = Kept /\ Plain' = Plain /\ \A a \in Addresses : OnlyDefault(a)' = OnlyDefault(a)
  BY <1>1 DEF Kept, Plain, OnlyDefault
<1>3. Nobody # d /\ Nobody # e
  BY NobodyAssumption
<1>4. \A a \in Addresses : owner'[a] = d <=> owner[a] = d
  BY <1>3 DEF Quiet
<1>5. Owned(d)' = Owned(d)
  BY <1>4 DEF Owned
<1>6. Alone(d) => Alone(d)'
  <2> SUFFICES ASSUME Alone(d) PROVE Alone(d)'
    OBVIOUS
  <2>1. d \in gap /\ d \in gap' /\ ~(gap \subseteq {e})
    BY DEF Alone, Quiet
  <2>2. \A a \in Addresses : owner[a] \in {Nobody, d} /\ (a \in Kept => owner[a] = d)
    BY DEF Alone, Owned
  <2>3. \A a \in Addresses : owner'[a] \in {Nobody, d}
    BY <2>1, <2>2, <1>3 DEF Quiet
  <2> QED
    BY <2>1, <2>3, <1>2, <1>5 DEF Alone
<1>7. \A n \in Addresses : n < nextId => n < nextId'
  BY <1>1 DEF Addresses
<1> HIDE DEF Alone, Owned, Kept, Plain, OnlyDefault
<1>8. Creates(d) => Creates(d)'
  BY <1>1, <1>2, <1>4, <1>5, <1>6, <1>7 DEF Creates
<1>9. Updates(d) => Updates(d)'
  <2>1. Owned(d) \subseteq Addresses
    BY DEF Owned
  <2> QED
    BY <2>1, <1>1, <1>2, <1>5, <1>6 DEF Updates, Kept
<1>10. Deletes(d) => Deletes(d)'
  BY <1>1, <1>2, <1>4, <1>5 DEF Deletes, Kept
<1>11. SetsDefault(d) => SetsDefault(d)'
  BY <1>1, <1>2, <1>5, <1>6 DEF SetsDefault, Kept
<1>12. Erases(d) => Erases(d)'
  BY <1>1, <1>2, <1>5, <1>6 DEF Erases, NoView
<1>13. Progress(d)
  BY DEF IInv
<1> HIDE DEF Creates, Updates, Deletes, SetsDefault, Erases
<1> QED
  BY <1>1, <1>2, <1>5, <1>6, <1>8, <1>9, <1>10, <1>11, <1>12, <1>13 DEF Progress

\* The end of a transaction that has not committed.
LEMMA EndIsQuiet ==
  ASSUME IInv, NEW e \in Devices, End(e), UNCHANGED table, UNCHANGED served
  PROVE  Quiet(e) /\ Progress(e)' /\ TypeOK' /\ FreshInv'
<1>1. /\ pc' = [pc EXCEPT ![e] = "idle"] /\ op' = [op EXCEPT ![e] = None]
      /\ view' = [view EXCEPT ![e] = NoView]
      /\ owner' = [a \in Addresses |-> IF owner[a] = e THEN Nobody ELSE owner[a]]
      /\ gap' = gap \ {e} /\ account' = IF account = e THEN Nobody ELSE account
      /\ rows' = rows /\ open' = open /\ nextId' = nextId
  BY DEF End, Goto, Release, table
<1>2. NoView \in [Addresses -> Mark] /\ None \in Request \cup {None} /\ "idle" \in Steps
  BY DEF NoView, Mark, Steps
<1>3. TypeOK /\ nextId \in Nat
  BY DEF IInv, TypeOK
<1>4. Quiet(e)
  BY <1>1, <1>3 DEF Quiet, TypeOK
<1>5. pc'[e] = "idle" /\ \A a \in Addresses : owner'[a] # e
  BY <1>1, <1>3, NobodyAssumption DEF TypeOK
<1>6. Owned(e)' = {}
  BY <1>5 DEF Owned
<1>7. Progress(e)'
  BY <1>5, <1>6 DEF Progress
<1>8. TypeOK'
  <2>1. pc' \in [Devices -> Steps] /\ view' \in [Devices -> [Addresses -> Mark]]
    BY <1>1, <1>2, <1>3 DEF TypeOK
  <2>2. op' \in [Devices -> Request \cup {None}]
    BY <1>1, <1>2, <1>3 DEF TypeOK
  <2>3. owner' \in [Addresses -> Devices \cup {Nobody}] /\ gap' \in SUBSET Devices /\ account' \in Devices \cup {Nobody}
    BY <1>1, <1>3 DEF TypeOK
  <2> QED
    BY <1>1, <1>3, <2>1, <2>2, <2>3 DEF TypeOK
<1>9. FreshInv'
  BY <1>1 DEF FreshInv, IInv, Kept
<1> QED
  BY <1>4, <1>7, <1>8, <1>9

\* What a step of e that is not a commit has to show.
Sound(e) == Quiet(e) /\ Progress(e)' /\ TypeOK' /\ FreshInv'

\* Where every row is e's or free, a scan leaves e alone with the addresses.
LEMMA ScanFacts ==
  ASSUME IInv, NEW e \in Devices, Scan(e), rows' = rows
  PROVE  /\ Alone(e)' /\ Owned(e)' = Owned(e) \cup Kept /\ Kept' = Kept
         /\ \A a \in Addresses :
              owner'[a] = owner[a] \/ (owner[a] = Nobody /\ owner'[a] = e /\ a \in Kept)
         /\ gap \subseteq gap' /\ account' = account
         /\ owner' \in [Addresses -> Devices \cup {Nobody}] /\ gap' \in SUBSET Devices
<1>1. /\ \A a \in Addresses : owner[a] \in {Nobody, e}
      /\ owner' = [a \in Addresses |-> IF a \in Kept THEN e ELSE owner[a]]
      /\ gap' = gap \cup {e} /\ account' = account
  BY DEF Scan, Mine
<1>2. Kept' = Kept
  BY DEF Kept
<1>3. \A a \in Addresses : owner'[a] = IF a \in Kept THEN e ELSE owner[a]
  BY <1>1
<1>4. Owned(e)' = Owned(e) \cup Kept
  BY <1>3 DEF Owned, Kept
<1>5. Alone(e)'
  <2>1. e \in gap' /\ \A a \in Addresses : owner'[a] \in {Nobody, e}
    BY <1>1, <1>3
  <2> QED
    BY <2>1, <1>2, <1>4 DEF Alone
<1>6. owner' \in [Addresses -> Devices \cup {Nobody}] /\ gap' \in SUBSET Devices
  BY <1>1 DEF IInv, TypeOK
<1> QED
  BY <1>1, <1>2, <1>3, <1>4, <1>5, <1>6

LEMMA LockRowFacts ==
  ASSUME IInv, NEW e \in Devices, NEW b \in Kept, LockRow(e, b)
  PROVE  /\ Owned(e)' = Owned(e) \cup {b} /\ owner'[b] = e
         /\ \A a \in Addresses :
              owner'[a] = owner[a] \/ (owner[a] = Nobody /\ owner'[a] = e /\ a \in Kept)
         /\ gap' = gap /\ account' = account
         /\ owner' \in [Addresses -> Devices \cup {Nobody}]
<1>1. /\ owner[b] \in {Nobody, e} /\ owner' = [owner EXCEPT ![b] = e]
      /\ gap' = gap /\ account' = account
  BY DEF LockRow, Mine
<1>2. owner \in [Addresses -> Devices \cup {Nobody}] /\ b \in Addresses
  BY DEF IInv, TypeOK, Kept
<1>3. \A a \in Addresses : owner'[a] = IF a = b THEN e ELSE owner[a]
  BY <1>1, <1>2
<1>4. Owned(e)' = Owned(e) \cup {b}
  BY <1>2, <1>3 DEF Owned
<1>5. owner' \in [Addresses -> Devices \cup {Nobody}]
  BY <1>1, <1>2
<1> QED
  BY <1>1, <1>2, <1>3, <1>4, <1>5

\* Rows and id counter as they were, one request moved: what is left to show of it.
LEMMA SoundStep ==
  ASSUME IInv, NEW e \in Devices, UNCHANGED <<rows, open, nextId>>,
         NEW label \in Steps, Goto(e, label),
         op' = [op EXCEPT ![e] = op'[e]], op'[e] \in Request \cup {None},
         view' = [view EXCEPT ![e] = view'[e]], view'[e] \in [Addresses -> Mark],
         gap \subseteq gap', gap' \in SUBSET Devices,
         account' = account \/ (account = Nobody /\ account' = e),
         owner' \in [Addresses -> Devices \cup {Nobody}],
         \A a \in Addresses :
           owner'[a] = owner[a] \/ (owner[a] = Nobody /\ owner'[a] = e /\ a \in Kept),
         served' \in Nat
  PROVE  Quiet(e) /\ TypeOK' /\ FreshInv' /\ pc'[e] = label /\ Kept' = Kept
<1>1. /\ rows' = rows /\ open' = open /\ nextId' = nextId
      /\ pc' = [pc EXCEPT ![e] = label]
  BY DEF Goto
<1>2. TypeOK
  BY DEF IInv
<1>3. pc'[e] = label /\ Kept' = Kept
  BY <1>1, <1>2 DEF TypeOK, Kept
<1>4. Quiet(e)
  BY <1>1, <1>2, NobodyAssumption DEF Quiet, TypeOK
<1>5. /\ pc' \in [Devices -> Steps] /\ op' \in [Devices -> Request \cup {None}]
      /\ view' \in [Devices -> [Addresses -> Mark]]
  BY <1>1, <1>2 DEF TypeOK
<1>6. TypeOK'
  BY <1>1, <1>2, <1>5 DEF TypeOK
<1>7. FreshInv'
  BY <1>1, <1>3 DEF FreshInv, IInv
<1> QED
  BY <1>3, <1>4, <1>6, <1>7

LEMMA Marks ==
  /\ IInv => rows \in [Addresses -> Mark] /\ Plain \in [Addresses -> Mark]
  /\ NoView \in [Addresses -> Mark]
  /\ \A a \in Addresses : OnlyDefault(a) \in [Addresses -> Mark]
  BY DEF IInv, TypeOK, Plain, NoView, OnlyDefault, Mark

LEMMA BeginSound ==
  ASSUME IInv, NEW e \in Devices, NEW q \in Request, Begin(e, q)
  PROVE  Sound(e)
<1>1. /\ pc[e] = "idle" /\ served' = served + 1
      /\ op' = [op EXCEPT ![e] = q] /\ Goto(e, First(q))
      /\ UNCHANGED <<rows, open, nextId>> /\ view' = view /\ owner' = owner /\ gap' = gap /\ account' = account
  BY DEF Begin, table, locks
<1>2. TypeOK /\ Owned(e) = {}
  BY <1>1 DEF IInv, Progress
<1>3. op'[e] = q /\ op' = [op EXCEPT ![e] = op'[e]]
  BY <1>1, <1>2 DEF TypeOK
<1>4. /\ q.kind \in {"create", "update", "delete", "default", "erase"} /\ q.isDefault \in BOOLEAN
      /\ q.kind \in {"update", "delete", "default"} => q.id \in Addresses
  BY DEF Request
<1>5. First(q) \in Steps
  BY <1>4 DEF First, Steps
<1>6. /\ view' = [view EXCEPT ![e] = view'[e]] /\ view'[e] \in [Addresses -> Mark]
      /\ owner' \in [Addresses -> Devices \cup {Nobody}] /\ gap' \in SUBSET Devices /\ served' \in Nat
  BY <1>1, <1>2 DEF TypeOK
<1>7. Quiet(e) /\ TypeOK' /\ FreshInv' /\ pc'[e] = First(q)
  BY <1>1, <1>3, <1>5, <1>6, SoundStep
<1>8. Owned(e)' = {}
  BY <1>1, <1>2 DEF Owned
<1>9. Progress(e)'
  BY <1>3, <1>4, <1>7, <1>8 DEF First, Progress
<1> QED
  BY <1>7, <1>9 DEF Sound

LEMMA CountSound ==
  ASSUME IInv, NEW e \in Devices, Count(e)
  PROVE  Sound(e)
<1>1. pc[e] = "count" /\ UNCHANGED table /\ served' = served
  BY DEF Count
<1>2. TypeOK /\ Progress(e)
  BY DEF IInv
<1>3. op[e].kind = "create" /\ Owned(e) = {} /\ op[e] \in Request
  BY <1>1, <1>2 DEF Progress, TypeOK, None
<1>4. CASE End(e)
  BY <1>1, <1>4, EndIsQuiet DEF Sound
<1>5. CASE /\ Cardinality(Kept) < MaxAddresses /\ Scan(e)
           /\ op' = [op EXCEPT ![e].isDefault = @ \/ Kept = {}]
           /\ Write(e, IF op'[e].isDefault THEN Plain ELSE rows)
           /\ Goto(e, "insert")
  <2>1. rows' = rows /\ open' = open /\ nextId' = nextId
    BY <1>1 DEF table
  <2>2. /\ op'[e] = [op[e] EXCEPT !.isDefault = op[e].isDefault \/ Kept = {}]
        /\ op' = [op EXCEPT ![e] = op'[e]]
    BY <1>2, <1>5 DEF TypeOK
  <2>3. op[e].isDefault \in BOOLEAN /\ op[e].id = 0
    BY <1>3 DEF Request
  <2>4. op[e] \in [kind : {"create"}, id : {0}, isDefault : BOOLEAN]
    BY <1>3 DEF Request
  <2>5. /\ op'[e] \in Request /\ op'[e].kind = "create" /\ op'[e].isDefault \in BOOLEAN
        /\ op'[e].isDefault <=> (op[e].isDefault \/ Kept = {})
    BY <2>2, <2>3, <2>4 DEF Request
  <2>6. view' = [view EXCEPT ![e] = view'[e]] /\ view'[e] = IF op'[e].isDefault THEN Plain ELSE rows
    BY <1>2, <1>5 DEF Write, TypeOK
  <2>7. view'[e] \in [Addresses -> Mark]
    BY <2>6, Marks
  <2>8. /\ Alone(e)' /\ Owned(e)' = Kept
        /\ \A a \in Addresses :
              owner'[a] = owner[a] \/ (owner[a] = Nobody /\ owner'[a] = e /\ a \in Kept)
        /\ gap \subseteq gap' /\ account' = account
        /\ owner' \in [Addresses -> Devices \cup {Nobody}] /\ gap' \in SUBSET Devices
    BY <1>3, <1>5, <2>1, ScanFacts
  <2>9. Quiet(e) /\ TypeOK' /\ FreshInv' /\ pc'[e] = "insert" /\ Kept' = Kept
    <3>1. "insert" \in Steps /\ served' \in Nat
      BY <1>1, <1>2 DEF Steps, TypeOK
    <3> QED
      BY <3>1, <1>5, <2>1, <2>2, <2>5, <2>6, <2>7, <2>8, SoundStep
  <2>10. Plain' = Plain
    BY <2>9 DEF Plain
  <2>11. Progress(e)'
    BY <1>5, <2>1, <2>5, <2>6, <2>8, <2>9, <2>10 DEF Progress
  <2> QED
    BY <2>9, <2>11 DEF Sound
<1> QED
  BY <1>4, <1>5 DEF Count, CountLocked

LEMMA InsertSound ==
  ASSUME IInv, NEW e \in Devices, Insert(e)
  PROVE  Sound(e)
<1>1. /\ pc[e] = "insert" /\ gap \subseteq {e} /\ account = Nobody /\ nextId <= LastId
      /\ rows' = rows /\ open' = open /\ served' = served
  BY DEF Insert
<1>2. TypeOK /\ Progress(e) /\ FreshInv
  BY DEF IInv
<1>3. CASE /\ ~CustomerExists /\ End(e) /\ UNCHANGED nextId
  <2>1. UNCHANGED table /\ UNCHANGED served
    BY <1>1, <1>3 DEF table
  <2> QED
    BY <1>3, <2>1, EndIsQuiet DEF Sound
<1>4. CASE /\ CustomerExists
           /\ nextId' = nextId + 1
           /\ Write(e, [view[e] EXCEPT ![nextId] = IF op[e].isDefault THEN "default" ELSE "plain"])
           /\ owner' = [owner EXCEPT ![nextId] = e]
           /\ account' = e
           /\ Goto(e, "commit")
           /\ UNCHANGED <<op, gap>>
  <2> PICK n \in Nat : n = nextId
    BY <1>2 DEF TypeOK
  <2>1. n \in Addresses /\ n \notin Kept /\ n < nextId' /\ nextId \in Nat \ {0}
    BY <1>1, <1>2, <1>4, BoundsAssumption DEF FreshInv, Addresses
  <2>2. /\ op[e].kind = "create" /\ Alone(e) /\ Owned(e) \subseteq Kept
        /\ Cardinality(Kept) < MaxAddresses
        /\ \/ op[e].isDefault /\ view[e] = Plain
           \/ ~op[e].isDefault /\ Kept # {} /\ view[e] = rows
    BY <1>1, <1>2 DEF Progress
  <2>3. owner[n] = Nobody
    BY <2>1, <2>2 DEF Alone, Owned
  <2>4. \A a \in Addresses : owner'[a] = IF a = n THEN e ELSE owner[a]
    BY <1>2, <1>4 DEF TypeOK
  <2>5. Kept' = Kept /\ Plain' = Plain
    BY <1>1 DEF Kept, Plain
  <2>6. OnlyDefault(n)' = OnlyDefault(n)
    BY <1>1 DEF OnlyDefault, Plain, Kept
  <2>7. pc'[e] = "commit" /\ op'[e] = op[e]
    BY <1>2, <1>4 DEF Goto, TypeOK
  <2>8. view'[e] = [view[e] EXCEPT ![n] = IF op[e].isDefault THEN "default" ELSE "plain"]
    BY <1>2, <1>4 DEF Write, TypeOK
  <2>9. Owned(e)' = Owned(e) \cup {n}
    BY <2>1, <2>4 DEF Owned
  <2>10. Alone(e)'
    <3>1. e \in gap' /\ \A a \in Addresses : owner'[a] \in {Nobody, e}
      BY <1>4, <2>2, <2>4 DEF Alone
    <3>2. Kept' \subseteq Owned(e)'
      BY <2>2, <2>5, <2>9 DEF Alone
    <3> QED
      BY <3>1, <3>2 DEF Alone
  <2>11. \/ view'[e] = OnlyDefault(n)
         \/ Kept # {} /\ view'[e] = [rows EXCEPT ![n] = "plain"]
    <3>1. CASE op[e].isDefault /\ view[e] = Plain
      BY <3>1, <2>8 DEF OnlyDefault
    <3>2. CASE ~op[e].isDefault /\ Kept # {} /\ view[e] = rows
      BY <3>2, <2>8
    <3> QED
      BY <2>2, <3>1, <3>2
  <2>12. Creates(e)'
    <3>1. open' /\ account' = e /\ Cardinality(Kept') < MaxAddresses
      BY <1>1, <1>4, <2>2, <2>5 DEF CustomerExists
    <3>2. /\ n \in Addresses \ Kept' /\ n < nextId' /\ Owned(e)' \subseteq Kept' \cup {n} /\ owner'[n] = e
          /\ \/ view'[e] = OnlyDefault(n)'
             \/ Kept' # {} /\ view'[e] = [rows' EXCEPT ![n] = "plain"]
      BY <1>1, <2>1, <2>2, <2>4, <2>5, <2>6, <2>9, <2>11
    <3> QED
      BY <3>1, <3>2, <2>10 DEF Creates
  <2>13. Progress(e)'
    BY <2>2, <2>7, <2>12 DEF Progress
  <2>14. Quiet(e)
    <3>1. \A d \in Devices \ {e} : pc'[d] = pc[d] /\ op'[d] = op[d] /\ view'[d] = view[d]
      BY <1>2, <1>4 DEF Goto, Write, TypeOK
    <3>2. \A d \in Devices \ {e} : account # d
      BY <1>1, NobodyAssumption
    <3> QED
      BY <1>1, <1>4, <2>1, <2>3, <2>4, <3>1, <3>2 DEF Quiet
  <2>15. TypeOK'
    <3>1. view'[e] \in [Addresses -> Mark]
      BY <1>2, <2>1, <2>8 DEF TypeOK, Mark
    <3>2. view' \in [Devices -> [Addresses -> Mark]]
      BY <1>2, <1>4, <3>1 DEF Write, TypeOK
    <3>3. pc' \in [Devices -> Steps] /\ owner' \in [Addresses -> Devices \cup {Nobody}]
      BY <1>2, <1>4 DEF Goto, TypeOK, Steps
    <3>4. nextId' \in Nat
      BY <1>4, <2>1
    <3> QED
      BY <1>1, <1>2, <1>4, <3>2, <3>3, <3>4 DEF TypeOK
  <2>16. FreshInv'
    BY <1>2, <1>4, <2>1, <2>5 DEF FreshInv
  <2> QED
    BY <2>13, <2>14, <2>15, <2>16 DEF Sound
<1> QED
  BY <1>3, <1>4 DEF Insert

LEMMA ClearSound ==
  ASSUME IInv, NEW e \in Devices, Clear(e)
  PROVE  Sound(e)
<1>1. /\ pc[e] = "clear" /\ Scan(e) /\ Goto(e, "edit")
      /\ view' = [view EXCEPT ![e] = Plain]
      /\ op' = op /\ served' = served /\ rows' = rows /\ open' = open /\ nextId' = nextId
  BY DEF Clear, Write, table
<1>2. TypeOK /\ Progress(e)
  BY DEF IInv
<1>3. op[e].kind = "update" /\ op[e].isDefault /\ Owned(e) = {}
  BY <1>1, <1>2 DEF Progress
<1>4. view' = [view EXCEPT ![e] = view'[e]] /\ view'[e] = Plain
  BY <1>1, <1>2 DEF TypeOK
<1>5. view'[e] \in [Addresses -> Mark]
  BY <1>3, <1>4, Marks
<1>6. /\ op' = [op EXCEPT ![e] = op'[e]] /\ op'[e] \in Request \cup {None} /\ op'[e] = op[e]
      /\ "edit" \in Steps /\ served' \in Nat
  BY <1>1, <1>2 DEF TypeOK, Steps
<1>7. /\ Alone(e)' /\ Owned(e)' = Owned(e) \cup Kept
      /\ \A a \in Addresses :
            owner'[a] = owner[a] \/ (owner[a] = Nobody /\ owner'[a] = e /\ a \in Kept)
      /\ gap \subseteq gap' /\ account' = account
      /\ owner' \in [Addresses -> Devices \cup {Nobody}] /\ gap' \in SUBSET Devices
  BY <1>1, ScanFacts
<1>8. Quiet(e) /\ TypeOK' /\ FreshInv' /\ pc'[e] = "edit" /\ Kept' = Kept
  BY <1>1, <1>4, <1>5, <1>6, <1>7, SoundStep
<1>9. Plain' = Plain /\ \A a \in Addresses : OnlyDefault(a)' = OnlyDefault(a)
  BY <1>8 DEF Plain, OnlyDefault
<1>10. Progress(e)'
  BY <1>3, <1>4, <1>6, <1>7, <1>8, <1>9 DEF Progress
<1> QED
  BY <1>8, <1>10 DEF Sound

LEMMA ClearOthersSound ==
  ASSUME IInv, NEW e \in Devices, ClearOthers(e)
  PROVE  Sound(e)
<1>1. /\ pc[e] = "others" /\ Scan(e) /\ Goto(e, "commit")
      /\ view' = [view EXCEPT ![e] = OthersPlain(op[e].id)]
      /\ op' = op /\ served' = served /\ rows' = rows /\ open' = open /\ nextId' = nextId
  BY DEF ClearOthers, Write, table
<1>2. TypeOK /\ Progress(e)
  BY DEF IInv
<1>3. op[e].kind = "default" /\ op[e].id \in Kept /\ Owned(e) = {op[e].id}
  BY <1>1, <1>2 DEF Progress
<1>4. view' = [view EXCEPT ![e] = view'[e]] /\ view'[e] = OthersPlain(op[e].id)
  BY <1>1, <1>2 DEF TypeOK
<1>5. view'[e] \in [Addresses -> Mark]
  BY <1>3, <1>4, Marks DEF OthersPlain, OnlyDefault, Kept
<1>6. /\ op' = [op EXCEPT ![e] = op'[e]] /\ op'[e] \in Request \cup {None} /\ op'[e] = op[e]
      /\ "commit" \in Steps /\ served' \in Nat
  BY <1>1, <1>2 DEF TypeOK, Steps
<1>7. /\ Alone(e)' /\ Owned(e)' = Owned(e) \cup Kept
      /\ \A a \in Addresses :
            owner'[a] = owner[a] \/ (owner[a] = Nobody /\ owner'[a] = e /\ a \in Kept)
      /\ gap \subseteq gap' /\ account' = account
      /\ owner' \in [Addresses -> Devices \cup {Nobody}] /\ gap' \in SUBSET Devices
  BY <1>1, ScanFacts
<1>8. Quiet(e) /\ TypeOK' /\ FreshInv' /\ pc'[e] = "commit" /\ Kept' = Kept
  BY <1>1, <1>4, <1>5, <1>6, <1>7, SoundStep
<1>9. Plain' = Plain /\ \A a \in Addresses : OnlyDefault(a)' = OnlyDefault(a)
  BY <1>8 DEF Plain, OnlyDefault
<1>10. Progress(e)'
  <2> PICK b \in Kept : b = op[e].id
    BY <1>3
  <2>1. b \in Addresses /\ OthersPlain(b) = OnlyDefault(b)
    BY DEF OthersPlain, OnlyDefault, Kept
  <2>2. SetsDefault(e)'
    <3>1. op'[e].id = b /\ b \in Kept' /\ Owned(e)' \subseteq Kept' /\ view'[e] = OnlyDefault(b)'
      BY <1>3, <1>4, <1>6, <1>7, <1>8, <1>9, <2>1
    <3> QED
      BY <1>7, <3>1 DEF SetsDefault
  <2> QED
    BY <1>3, <1>6, <1>8, <2>2 DEF Progress
<1> QED
  BY <1>8, <1>10 DEF Sound

LEMMA WipeSound ==
  ASSUME IInv, NEW e \in Devices, Wipe(e)
  PROVE  Sound(e)
<1>1. /\ pc[e] = "wipe" /\ Scan(e) /\ Goto(e, "commit")
      /\ view' = [view EXCEPT ![e] = NoView]
      /\ op' = op /\ served' = served /\ rows' = rows /\ open' = open /\ nextId' = nextId
  BY DEF Wipe, Write, table, NoView
<1>2. TypeOK /\ Progress(e)
  BY DEF IInv
<1>3. op[e].kind = "erase" /\ account = e /\ Owned(e) = {}
  BY <1>1, <1>2 DEF Progress
<1>4. view' = [view EXCEPT ![e] = view'[e]] /\ view'[e] = NoView
  BY <1>1, <1>2 DEF TypeOK
<1>5. view'[e] \in [Addresses -> Mark]
  BY <1>3, <1>4, Marks
<1>6. /\ op' = [op EXCEPT ![e] = op'[e]] /\ op'[e] \in Request \cup {None} /\ op'[e] = op[e]
      /\ "commit" \in Steps /\ served' \in Nat
  BY <1>1, <1>2 DEF TypeOK, Steps
<1>7. /\ Alone(e)' /\ Owned(e)' = Owned(e) \cup Kept
      /\ \A a \in Addresses :
            owner'[a] = owner[a] \/ (owner[a] = Nobody /\ owner'[a] = e /\ a \in Kept)
      /\ gap \subseteq gap' /\ account' = account
      /\ owner' \in [Addresses -> Devices \cup {Nobody}] /\ gap' \in SUBSET Devices
  BY <1>1, ScanFacts
<1>8. Quiet(e) /\ TypeOK' /\ FreshInv' /\ pc'[e] = "commit" /\ Kept' = Kept
  BY <1>1, <1>4, <1>5, <1>6, <1>7, SoundStep
<1>9. Plain' = Plain /\ \A a \in Addresses : OnlyDefault(a)' = OnlyDefault(a)
  BY <1>8 DEF Plain, OnlyDefault
<1>10. Progress(e)'
  <2>1. Erases(e)'
    <3>1. account' = e /\ view'[e] = NoView' /\ Owned(e)' \subseteq Kept'
      BY <1>3, <1>4, <1>7, <1>8 DEF NoView
    <3> QED
      BY <1>7, <3>1 DEF Erases
  <2> QED
    BY <1>3, <1>6, <1>8, <2>1 DEF Progress
<1> QED
  BY <1>8, <1>10 DEF Sound

\* One row locked and written, or none: the step of Edit, LockAndDelete, SetDefault and Promote.
LEMMA RowSound ==
  ASSUME IInv, NEW e \in Devices, UNCHANGED <<rows, open, nextId, op, served>>,
         NEW label \in Steps, Goto(e, label),
         NEW b \in Kept, LockRow(e, b), NEW mark \in Mark, Write(e, [view[e] EXCEPT ![b] = mark])
  PROVE  /\ Quiet(e) /\ TypeOK' /\ FreshInv' /\ pc'[e] = label /\ Kept' = Kept /\ op'[e] = op[e]
         /\ Owned(e)' = Owned(e) \cup {b} /\ owner'[b] = e /\ gap' = gap
         /\ view'[e] = [view[e] EXCEPT ![b] = mark] /\ view'[e][b] = mark
         /\ Alone(e) => Alone(e)'
<1>1. TypeOK /\ b \in Addresses
  BY DEF IInv, Kept
<1>2. /\ Owned(e)' = Owned(e) \cup {b} /\ owner'[b] = e
      /\ \A a \in Addresses :
           owner'[a] = owner[a] \/ (owner[a] = Nobody /\ owner'[a] = e /\ a \in Kept)
      /\ gap' = gap /\ account' = account
      /\ owner' \in [Addresses -> Devices \cup {Nobody}]
  BY LockRowFacts
<1>3. /\ view' = [view EXCEPT ![e] = view'[e]] /\ view'[e] = [view[e] EXCEPT ![b] = mark]
      /\ view'[e] \in [Addresses -> Mark] /\ view'[e][b] = mark
  BY <1>1 DEF Write, TypeOK
<1>4. /\ op' = [op EXCEPT ![e] = op'[e]] /\ op'[e] \in Request \cup {None} /\ op'[e] = op[e]
      /\ served' \in Nat /\ gap' \in SUBSET Devices /\ gap \subseteq gap'
  BY <1>1, <1>2 DEF TypeOK
<1>5. Quiet(e) /\ TypeOK' /\ FreshInv' /\ pc'[e] = label /\ Kept' = Kept
  BY <1>2, <1>3, <1>4, SoundStep
<1>6. Alone(e) => Alone(e)'
  BY <1>2, <1>5 DEF Alone
<1> QED
  BY <1>2, <1>3, <1>4, <1>5, <1>6

\* A statement that found nothing to write.
LEMMA NothingSound ==
  ASSUME IInv, NEW e \in Devices, UNCHANGED <<rows, open, nextId, op, view, owner, gap, account, served>>,
         NEW label \in Steps, Goto(e, label)
  PROVE  /\ Quiet(e) /\ TypeOK' /\ FreshInv' /\ pc'[e] = label /\ Kept' = Kept /\ Plain' = Plain
         /\ Owned(e)' = Owned(e)
         /\ Alone(e) => Alone(e)'
<1>1. TypeOK
  BY DEF IInv
<1>2. /\ op' = [op EXCEPT ![e] = op'[e]] /\ op'[e] \in Request \cup {None}
      /\ view' = [view EXCEPT ![e] = view'[e]] /\ view'[e] \in [Addresses -> Mark]
      /\ owner' \in [Addresses -> Devices \cup {Nobody}] /\ gap' \in SUBSET Devices /\ served' \in Nat
  BY <1>1 DEF TypeOK
<1>3. Quiet(e) /\ TypeOK' /\ FreshInv' /\ pc'[e] = label /\ Kept' = Kept
  BY <1>2, SoundStep
<1>4. Owned(e)' = Owned(e)
  BY DEF Owned
<1>5. Alone(e) => Alone(e)'
  BY <1>3, <1>4 DEF Alone
<1>6. Plain' = Plain
  BY <1>3 DEF Plain
<1> QED
  BY <1>3, <1>4, <1>5, <1>6

LEMMA EditSound ==
  ASSUME IInv, NEW e \in Devices, Edit(e)
  PROVE  Sound(e)
<1>1. pc[e] = "edit" /\ rows' = rows /\ open' = open /\ nextId' = nextId /\ served' = served
  BY DEF Edit, table
<1>2. TypeOK /\ Progress(e)
  BY DEF IInv
<1> PICK a \in Addresses : a = op[e].id
  <2>1. op[e].kind = "update" /\ op[e] \in Request
    BY <1>1, <1>2 DEF Progress, TypeOK, None
  <2> QED
    BY <2>1 DEF Request
<1>3. /\ op[e].kind = "update"
      /\ ~op[e].isDefault => Owned(e) = {}
      /\ op[e].isDefault => Alone(e) /\ Owned(e) \subseteq Kept /\ view[e] = Plain
  BY <1>1, <1>2 DEF Progress
<1>4. Goto(e, "commit") /\ op' = op /\ "commit" \in Steps
  BY DEF Edit, Steps
<1>5. CASE a \in Kept
  <2>1. LockRow(e, a) /\ Write(e, [view[e] EXCEPT ![a] = IF op[e].isDefault THEN "default" ELSE rows[a]])
    BY <1>5 DEF Edit
  <2>2. (IF op[e].isDefault THEN "default" ELSE rows[a]) \in Mark
    BY <1>2 DEF TypeOK, Mark
  <2>3. /\ Quiet(e) /\ TypeOK' /\ FreshInv' /\ pc'[e] = "commit" /\ Kept' = Kept /\ op'[e] = op[e]
        /\ Owned(e)' = Owned(e) \cup {a}
        /\ view'[e] = [view[e] EXCEPT ![a] = IF op[e].isDefault THEN "default" ELSE rows[a]]
        /\ view'[e][a] = IF op[e].isDefault THEN "default" ELSE rows[a]
        /\ Alone(e) => Alone(e)'
    BY <1>1, <1>4, <1>5, <2>1, <2>2, RowSound
  <2>4. Updates(e)'
    <3>1. CASE op[e].isDefault
      <4>1. view'[e] = OnlyDefault(a) /\ OnlyDefault(a)' = OnlyDefault(a)
        BY <1>1, <1>3, <2>3, <3>1 DEF OnlyDefault, Plain
      <4>2. op'[e].isDefault /\ Alone(e)' /\ Owned(e)' \subseteq Kept' /\ op'[e].id \in Kept' /\ op'[e].id = a
        BY <1>3, <1>5, <2>3, <3>1
      <4> QED
        BY <4>1, <4>2 DEF Updates
    <3>2. CASE ~op[e].isDefault
      <4>1. \A x \in Owned(e)' : view'[e][x] = rows'[x]
        BY <1>1, <1>3, <2>3, <3>2
      <4> QED
        BY <4>1 DEF Updates
    <3> QED
      BY <3>1, <3>2
  <2>5. Progress(e)'
    BY <1>3, <2>3, <2>4 DEF Progress
  <2> QED
    BY <2>3, <2>5 DEF Sound
<1>6. CASE a \notin Kept
  <2>1. UNCHANGED <<view, owner, gap, account>>
    BY <1>6 DEF Edit, locks
  <2>2. /\ Quiet(e) /\ TypeOK' /\ FreshInv' /\ pc'[e] = "commit" /\ Kept' = Kept /\ Plain' = Plain
        /\ Owned(e)' = Owned(e)
        /\ Alone(e) => Alone(e)'
    BY <1>1, <1>4, <2>1, NothingSound
  <2>3. Updates(e)'
    <3>1. CASE op[e].isDefault
      <4>1. op'[e].isDefault /\ Alone(e)' /\ Owned(e)' \subseteq Kept' /\ op'[e].id \notin Kept' /\ view'[e] = Plain'
        BY <1>3, <1>4, <1>6, <2>1, <2>2, <3>1
      <4> QED
        BY <4>1 DEF Updates
    <3>2. CASE ~op[e].isDefault
      <4>1. \A x \in Owned(e)' : view'[e][x] = rows'[x]
        BY <1>3, <2>2, <3>2
      <4> QED
        BY <4>1 DEF Updates
    <3> QED
      BY <3>1, <3>2
  <2>4. Progress(e)'
    BY <1>3, <1>4, <2>2, <2>3 DEF Progress
  <2> QED
    BY <2>2, <2>4 DEF Sound
<1> QED
  BY <1>5, <1>6

LEMMA LockAndDeleteSound ==
  ASSUME IInv, NEW e \in Devices, LockAndDelete(e)
  PROVE  Sound(e)
<1>1. pc[e] = "lock" /\ rows' = rows /\ open' = open /\ nextId' = nextId /\ served' = served
  BY DEF LockAndDelete, table
<1>2. TypeOK /\ Progress(e)
  BY DEF IInv
<1>3. op[e].kind = "delete" /\ Owned(e) = {}
  BY <1>1, <1>2 DEF Progress
<1>4. CASE End(e)
  <2>1. UNCHANGED table /\ UNCHANGED served
    BY <1>1 DEF table
  <2> QED
    BY <1>4, <2>1, EndIsQuiet DEF Sound
<1>5. CASE /\ op[e].id \in Kept /\ op' = op
           /\ LockRow(e, op[e].id)
           /\ Write(e, [view[e] EXCEPT ![op[e].id] = "gone"])
           /\ Goto(e, IF rows[op[e].id] = "default" THEN "promote" ELSE "commit")
  <2> PICK a \in Kept : a = op[e].id
    BY <1>5
  <2> DEFINE label == IF rows[a] = "default" THEN "promote" ELSE "commit"
  <2>1. label \in Steps /\ "gone" \in Mark /\ LockRow(e, a) /\ Write(e, [view[e] EXCEPT ![a] = "gone"]) /\ Goto(e, label)
    BY <1>5 DEF Steps, Mark
  <2>2. /\ Quiet(e) /\ TypeOK' /\ FreshInv' /\ pc'[e] = label /\ Kept' = Kept /\ op'[e] = op[e]
        /\ Owned(e)' = Owned(e) \cup {a} /\ owner'[a] = e
        /\ view'[e][a] = "gone"
    BY <1>1, <1>5, <2>1, RowSound
  <2>3. op'[e].id = a /\ op'[e].kind = "delete" /\ Owned(e)' = {a} /\ rows'[a] = rows[a] /\ a \in Kept'
    BY <1>1, <1>3, <2>2
  <2>4. rows[a] # "default" => Deletes(e)'
    BY <2>2, <2>3 DEF Deletes
  <2>5. Progress(e)'
    BY <2>2, <2>3, <2>4 DEF Progress
  <2> QED
    BY <2>2, <2>5 DEF Sound
<1> QED
  BY <1>4, <1>5 DEF LockAndDelete

LEMMA SetDefaultSound ==
  ASSUME IInv, NEW e \in Devices, SetDefault(e)
  PROVE  Sound(e)
<1>1. pc[e] = "set" /\ rows' = rows /\ open' = open /\ nextId' = nextId /\ served' = served
  BY DEF SetDefault, table
<1>2. TypeOK /\ Progress(e)
  BY DEF IInv
<1>3. op[e].kind = "default" /\ Owned(e) = {}
  BY <1>1, <1>2 DEF Progress
<1>4. CASE End(e)
  <2>1. UNCHANGED table /\ UNCHANGED served
    BY <1>1 DEF table
  <2> QED
    BY <1>4, <2>1, EndIsQuiet DEF Sound
<1>5. CASE /\ op[e].id \in Kept /\ op' = op
           /\ LockRow(e, op[e].id)
           /\ Write(e, [view[e] EXCEPT ![op[e].id] = "default"])
           /\ Goto(e, "others")
  <2> PICK a \in Kept : a = op[e].id
    BY <1>5
  <2>1. "others" \in Steps /\ "default" \in Mark
    BY DEF Steps, Mark
  <2>2. /\ Quiet(e) /\ TypeOK' /\ FreshInv' /\ pc'[e] = "others" /\ Kept' = Kept /\ op'[e] = op[e]
        /\ Owned(e)' = Owned(e) \cup {a}
    BY <1>1, <1>5, <2>1, RowSound
  <2>3. Progress(e)'
    BY <1>3, <2>2 DEF Progress
  <2> QED
    BY <2>2, <2>3 DEF Sound
<1> QED
  BY <1>4, <1>5 DEF SetDefault

\* ORDER BY id LIMIT 1 finds a row where there is one.
LEMMA Least ==
  ASSUME NEW T \in SUBSET Nat, T # {}
  PROVE  \E x \in T : \A y \in T : x <= y
<1>1. PICK x \in T : \A y \in T : ~(<<y, x>> \in OpToRel(<, Nat))
  BY NatLessThanWellFounded, WFMin
<1>2. ASSUME NEW y \in T, y < x PROVE FALSE
  <2>1. <<y, x>> \in OpToRel(<, Nat)
    BY <1>2, Zenon DEF OpToRel
  <2> QED
    BY <1>1, <2>1, Zenon
<1> QED
  BY <1>2

LEMMA NoHeirs ==
  ASSUME NEW a \in Kept, Heirs(a) = {}
  PROVE  Kept = {a}
<1>1. Kept \ {a} \in SUBSET Nat
  BY BoundsAssumption DEF Kept, Addresses
<1>2. ASSUME Kept \ {a} # {} PROVE FALSE
  <2>1. PICK b \in Kept \ {a} : \A c \in Kept \ {a} : b <= c
    BY <1>1, <1>2, Least
  <2> QED
    BY <2>1 DEF Heirs
<1> QED
  BY <1>2

LEMMA PromoteSound ==
  ASSUME IInv, NEW e \in Devices, Promote(e)
  PROVE  Sound(e)
<1>1. pc[e] = "promote" /\ rows' = rows /\ open' = open /\ nextId' = nextId /\ served' = served
  BY DEF Promote, table
<1>2. TypeOK /\ Progress(e)
  BY DEF IInv
<1>3. /\ op[e].kind = "delete" /\ op[e].id \in Kept /\ Owned(e) = {op[e].id}
      /\ rows[op[e].id] = "default" /\ view[e][op[e].id] = "gone"
  BY <1>1, <1>2 DEF Progress
<1> PICK a \in Kept : a = op[e].id
  BY <1>3
<1>4. Goto(e, "commit") /\ op' = op /\ "commit" \in Steps /\ owner[a] = e /\ a \in Addresses
  BY <1>3 DEF Promote, Steps, Owned, Kept
<1>5. CASE Heirs(a) = {} /\ UNCHANGED <<view, locks>>
  <2>1. Kept = {a}
    BY <1>5, NoHeirs
  <2>2. UNCHANGED <<rows, open, nextId, op, view, owner, gap, account, served>>
    BY <1>1, <1>4, <1>5 DEF locks
  <2>3. /\ Quiet(e) /\ TypeOK' /\ FreshInv' /\ pc'[e] = "commit" /\ Kept' = Kept
        /\ Owned(e)' = Owned(e)
    BY <1>4, <2>2, NothingSound
  <2>4. Deletes(e)'
    <3>1. op'[e].id = a /\ a \in Kept' /\ owner'[a] = e /\ view'[e][a] = "gone" /\ Owned(e)' = {a} /\ Kept' = {a}
      BY <1>3, <1>4, <2>1, <2>2, <2>3
    <3> QED
      BY <3>1 DEF Deletes
  <2>5. Progress(e)'
    BY <1>3, <2>2, <2>3, <2>4 DEF Progress
  <2> QED
    BY <2>3, <2>5 DEF Sound
<1>6. CASE \E b \in Heirs(a) : LockRow(e, b) /\ Write(e, [view[e] EXCEPT ![b] = "default"])
  <2> PICK b \in Heirs(a) : LockRow(e, b) /\ Write(e, [view[e] EXCEPT ![b] = "default"])
    BY <1>6
  <2>1. b \in Kept /\ b # a /\ "default" \in Mark
    BY DEF Heirs, Mark
  <2>2. /\ Quiet(e) /\ TypeOK' /\ FreshInv' /\ pc'[e] = "commit" /\ Kept' = Kept /\ op'[e] = op[e]
        /\ Owned(e)' = Owned(e) \cup {b}
        /\ view'[e] = [view[e] EXCEPT ![b] = "default"] /\ view'[e][b] = "default"
    BY <1>1, <1>4, <2>1, RowSound
  <2>3. Deletes(e)'
    <3>1. /\ op'[e].id = a /\ a \in Kept' /\ Owned(e)' = {a, b} /\ b \in Kept' \ {a} /\ rows'[a] = "default"
          /\ view'[e][b] = "default"
      BY <1>1, <1>3, <2>1, <2>2
    <3>2. view'[e][a] = "gone"
      BY <1>3, <2>1, <2>2
    <3>3. owner'[a] = e
      BY <1>4, <3>1 DEF Owned
    <3> QED
      BY <3>1, <3>2, <3>3 DEF Deletes
  <2>4. Progress(e)'
    BY <1>3, <2>2, <2>3 DEF Progress
  <2> QED
    BY <2>2, <2>4 DEF Sound
<1> QED
  BY <1>5, <1>6 DEF Promote

LEMMA LockCustomerSound ==
  ASSUME IInv, NEW e \in Devices, LockCustomer(e)
  PROVE  Sound(e)
<1>1. pc[e] = "erase" /\ account = Nobody /\ rows' = rows /\ open' = open /\ nextId' = nextId /\ served' = served
  BY DEF LockCustomer, table
<1>2. TypeOK /\ Progress(e)
  BY DEF IInv
<1>3. op[e].kind = "erase" /\ Owned(e) = {}
  BY <1>1, <1>2 DEF Progress
<1>4. CASE End(e)
  <2>1. UNCHANGED table /\ UNCHANGED served
    BY <1>1 DEF table
  <2> QED
    BY <1>4, <2>1, EndIsQuiet DEF Sound
<1>5. CASE /\ account' = e /\ Goto(e, "wipe") /\ UNCHANGED <<op, view, owner, gap>>
  <2>1. /\ op' = [op EXCEPT ![e] = op'[e]] /\ op'[e] \in Request \cup {None} /\ op'[e] = op[e]
        /\ view' = [view EXCEPT ![e] = view'[e]] /\ view'[e] \in [Addresses -> Mark]
        /\ "wipe" \in Steps /\ served' \in Nat /\ gap' \in SUBSET Devices /\ gap \subseteq gap'
        /\ owner' \in [Addresses -> Devices \cup {Nobody}]
    BY <1>1, <1>2, <1>5 DEF TypeOK, Steps
  <2>2. \A a \in Addresses :
           owner'[a] = owner[a] \/ (owner[a] = Nobody /\ owner'[a] = e /\ a \in Kept)
    BY <1>5
  <2>3. Quiet(e) /\ TypeOK' /\ FreshInv' /\ pc'[e] = "wipe" /\ Kept' = Kept
    BY <1>1, <1>5, <2>1, <2>2, SoundStep
  <2>4. Owned(e)' = {} /\ op'[e].kind = "erase" /\ account' = e
    BY <1>3, <1>5, <2>1 DEF Owned
  <2>5. Progress(e)'
    BY <2>3, <2>4 DEF Progress
  <2> QED
    BY <2>3, <2>5 DEF Sound
<1> QED
  BY <1>4, <1>5 DEF LockCustomer

\* Fail ends a transaction that has written nothing.
LEMMA FailSound ==
  ASSUME IInv, NEW e \in Devices, Fail(e)
  PROVE  Sound(e)
<1>1. End(e) /\ UNCHANGED table /\ UNCHANGED served
  BY DEF Fail
<1> QED
  BY <1>1, EndIsQuiet DEF Sound

\* What a commit does to the table, by what the request has written.
Saved(e) ==
  /\ open /\ account = e /\ Alone(e) /\ Cardinality(Kept) < MaxAddresses
  /\ \E n \in Addresses \ Kept :
       /\ n < nextId
       /\ \/ rows' = OnlyDefault(n)
          \/ Kept # {} /\ rows' = [rows EXCEPT ![n] = "plain"]

Edited(e) ==
  \/ rows' = rows
  \/ op[e].isDefault /\ Alone(e) /\ op[e].id \notin Kept /\ rows' = Plain
  \/ Alone(e) /\ op[e].id \in Kept /\ rows' = OnlyDefault(op[e].id)

Removed(e) ==
  /\ op[e].id \in Kept
  /\ \/ /\ rows[op[e].id] = "default" => Kept = {op[e].id}
        /\ rows' = [rows EXCEPT ![op[e].id] = "gone"]
     \/ /\ rows[op[e].id] = "default"
        /\ \E b \in Kept \ {op[e].id} : rows' = [rows EXCEPT ![op[e].id] = "gone", ![b] = "default"]

Erased(e) ==
  Alone(e) /\ account = e /\ rows' = NoView

LEMMA CommitWrites ==
  ASSUME IInv, NEW e \in Devices, Commit(e)
  PROVE  /\ \A a \in Addresses : rows'[a] = IF owner[a] = e THEN view[e][a] ELSE rows[a]
         /\ rows' \in [Addresses -> Mark] /\ rows \in [Addresses -> Mark] /\ view[e] \in [Addresses -> Mark]
         /\ Alone(e) => \A a \in Addresses : owner[a] # e => rows[a] = "gone"
<1>1. rows' = [a \in Addresses |-> IF owner[a] = e THEN view[e][a] ELSE rows[a]]
  BY DEF Commit
<1>2. rows \in [Addresses -> Mark] /\ view[e] \in [Addresses -> Mark]
  BY DEF IInv, TypeOK
<1>3. rows' \in [Addresses -> Mark]
  BY <1>1, <1>2
<1>4. ASSUME Alone(e), NEW a \in Addresses, owner[a] # e PROVE rows[a] = "gone"
  BY <1>4 DEF Alone, Owned, Kept
<1> QED
  BY <1>1, <1>2, <1>3, <1>4

\* Alone with the addresses, what was written is what is committed.
LEMMA AloneWrites ==
  ASSUME IInv, NEW e \in Devices, Commit(e), Alone(e),
         NEW v, view[e] = v, v \in [Addresses -> Mark],
         \A a \in Addresses : owner[a] # e => v[a] = "gone"
  PROVE  rows' = v
<1>1. \A a \in Addresses : rows'[a] = v[a]
  BY CommitWrites
<1>2. rows' \in [Addresses -> Mark]
  BY CommitWrites
<1> QED
  BY <1>1, <1>2

LEMMA CommitEffect ==
  ASSUME IInv, NEW e \in Devices, Commit(e)
  PROVE  \/ op[e].kind = "create" /\ Saved(e)
         \/ op[e].kind = "update" /\ Edited(e)
         \/ op[e].kind = "delete" /\ Removed(e)
         \/ op[e].kind = "default" /\ Edited(e)
         \/ op[e].kind = "erase" /\ Erased(e)
<1>1. pc[e] = "commit" /\ Progress(e)
  BY DEF Commit, IInv
<1>2. /\ \A a \in Addresses : rows'[a] = IF owner[a] = e THEN view[e][a] ELSE rows[a]
      /\ rows' \in [Addresses -> Mark] /\ rows \in [Addresses -> Mark] /\ view[e] \in [Addresses -> Mark]
      /\ Alone(e) => \A a \in Addresses : owner[a] # e => rows[a] = "gone"
  BY CommitWrites
<1>3. \A a \in Addresses : (a \in Kept <=> rows[a] # "gone") /\ (a \in Owned(e) <=> owner[a] = e)
  BY DEF Kept, Owned
<1>4. ASSUME Creates(e) PROVE Saved(e)
  <2> PICK n \in Addresses \ Kept :
         /\ n < nextId /\ Owned(e) \subseteq Kept \cup {n} /\ owner[n] = e
         /\ \/ view[e] = OnlyDefault(n)
            \/ Kept # {} /\ view[e] = [rows EXCEPT ![n] = "plain"]
    BY <1>4 DEF Creates
  <2>1. Alone(e) /\ open /\ account = e /\ Cardinality(Kept) < MaxAddresses
    BY <1>4 DEF Creates
  <2>2. CASE view[e] = OnlyDefault(n)
    <3>1. \A a \in Addresses : owner[a] # e => OnlyDefault(n)[a] = "gone"
      BY <1>2, <1>3, <2>1 DEF OnlyDefault, Plain
    <3>2. rows' = OnlyDefault(n)
      BY <2>1, <2>2, <3>1, AloneWrites, Marks
    <3> QED
      BY <2>1, <3>2 DEF Saved
  <2>3. CASE Kept # {} /\ view[e] = [rows EXCEPT ![n] = "plain"]
    <3>1. \A a \in Addresses : owner[a] # e => view[e][a] = "gone"
      BY <1>2, <1>3, <2>1, <2>3
    <3>2. rows' = [rows EXCEPT ![n] = "plain"]
      BY <1>2, <2>1, <2>3, <3>1, AloneWrites
    <3> QED
      BY <2>1, <2>3, <3>2 DEF Saved
  <2> QED
    BY <2>2, <2>3
<1>5. ASSUME Updates(e) PROVE Edited(e)
  <2>1. CASE \A a \in Owned(e) : view[e][a] = rows[a]
    <3>1. \A a \in Addresses : rows'[a] = rows[a]
      BY <1>2, <1>3, <2>1
    <3>2. rows' = rows
      BY <1>2, <3>1
    <3> QED
      BY <3>2 DEF Edited
  <2>2. CASE op[e].isDefault /\ Alone(e) /\ op[e].id \notin Kept /\ view[e] = Plain
    <3>1. \A a \in Addresses : owner[a] # e => Plain[a] = "gone"
      BY <1>2, <1>3, <2>2 DEF Plain
    <3>2. rows' = Plain
      BY <2>2, <3>1, AloneWrites, Marks
    <3> QED
      BY <2>2, <3>2 DEF Edited
  <2>3. CASE Alone(e) /\ op[e].id \in Kept /\ view[e] = OnlyDefault(op[e].id)
    <3> PICK b \in Kept : b = op[e].id
      BY <2>3
    <3>1. b \in Addresses /\ \A a \in Addresses : owner[a] # e => OnlyDefault(b)[a] = "gone"
      BY <1>2, <1>3, <2>3 DEF OnlyDefault, Plain, Kept
    <3>2. rows' = OnlyDefault(b)
      BY <2>3, <3>1, AloneWrites, Marks
    <3> QED
      BY <2>3, <3>2 DEF Edited
  <2> QED
    BY <1>5, <2>1, <2>2, <2>3 DEF Updates
<1>6. ASSUME Deletes(e) PROVE Removed(e)
  <2> PICK a \in Kept : a = op[e].id
    BY <1>6 DEF Deletes
  <2>1. a \in Addresses /\ owner[a] = e /\ view[e][a] = "gone"
    BY <1>6 DEF Deletes, Kept
  <2>2. CASE Owned(e) = {a} /\ (rows[a] = "default" => Kept = {a})
    <3>1. \A x \in Addresses : rows'[x] = [rows EXCEPT ![a] = "gone"][x]
      BY <1>2, <1>3, <2>1, <2>2
    <3>2. rows' = [rows EXCEPT ![a] = "gone"]
      BY <1>2, <3>1
    <3> QED
      BY <2>2, <3>2 DEF Removed
  <2>3. CASE rows[a] = "default" /\ \E b \in Kept \ {a} : Owned(e) = {a, b} /\ view[e][b] = "default"
    <3> PICK b \in Kept \ {a} : Owned(e) = {a, b} /\ view[e][b] = "default"
      BY <2>3
    <3>1. \A x \in Addresses : rows'[x] = [rows EXCEPT ![a] = "gone", ![b] = "default"][x]
      BY <1>2, <1>3, <2>1
    <3>2. rows' = [rows EXCEPT ![a] = "gone", ![b] = "default"]
      BY <1>2, <3>1
    <3> QED
      BY <2>3, <3>2 DEF Removed
  <2> QED
    BY <1>6, <2>2, <2>3 DEF Deletes
<1>7. ASSUME SetsDefault(e) PROVE Edited(e)
  <2> PICK b \in Kept : b = op[e].id
    BY <1>7 DEF SetsDefault
  <2>1. Alone(e) /\ view[e] = OnlyDefault(b) /\ b \in Addresses
    BY <1>7 DEF SetsDefault, Kept
  <2>2. \A a \in Addresses : owner[a] # e => OnlyDefault(b)[a] = "gone"
    BY <1>2, <1>3, <2>1 DEF OnlyDefault, Plain, Kept
  <2>3. rows' = OnlyDefault(b)
    BY <2>1, <2>2, AloneWrites, Marks
  <2> QED
    BY <2>1, <2>3 DEF Edited
<1>8. ASSUME Erases(e) PROVE Erased(e)
  <2>1. Alone(e) /\ account = e /\ view[e] = NoView
    BY <1>8 DEF Erases
  <2>2. \A a \in Addresses : NoView[a] = "gone"
    BY DEF NoView
  <2>3. rows' = NoView
    BY <2>1, <2>2, AloneWrites, Marks
  <2> QED
    BY <2>1, <2>3 DEF Erased
<1> HIDE DEF Creates, Updates, Deletes, SetsDefault, Erases, Saved, Edited, Removed, Erased
<1> QED
  BY <1>1, <1>4, <1>5, <1>6, <1>7, <1>8 DEF Progress

\* What the others hold keeps a commit from touching it.
LEMMA CommitLeaves ==
  ASSUME IInv, NEW e \in Devices, Commit(e), NEW d \in Devices, d # e
  PROVE  /\ pc'[d] = pc[d] /\ op'[d] = op[d] /\ view'[d] = view[d] /\ Owned(d)' = Owned(d)
         /\ d \in gap => d \in gap'
         /\ account = d => account' = d /\ open' = open
         /\ nextId' = nextId
         /\ \A a \in Owned(d) : rows'[a] = rows[a] /\ (a \in Kept' <=> a \in Kept)
         /\ Alone(d) => rows' = rows /\ Alone(d)'
         /\ Owned(d) \cap Kept # {} => Kept' \subseteq Kept
<1>1. /\ pc' = [pc EXCEPT ![e] = "idle"] /\ op' = [op EXCEPT ![e] = None] /\ view' = [view EXCEPT ![e] = NoView]
      /\ owner' = [a \in Addresses |-> IF owner[a] = e THEN Nobody ELSE owner[a]]
      /\ gap' = gap \ {e} /\ account' = (IF account = e THEN Nobody ELSE account)
      /\ open' = (open /\ op[e].kind # "erase") /\ nextId' = nextId
  BY DEF Commit, End, Goto, Release
<1>2. TypeOK /\ Nobody # d /\ Nobody # e
  BY NobodyAssumption DEF IInv
<1>3. pc'[d] = pc[d] /\ op'[d] = op[d] /\ view'[d] = view[d] /\ (d \in gap => d \in gap') /\ nextId' = nextId
  BY <1>1, <1>2 DEF TypeOK
<1>4. \A a \in Addresses : (owner'[a] = d <=> owner[a] = d) /\ (owner[a] \in {Nobody, d} => owner'[a] \in {Nobody, d})
  BY <1>1, <1>2
<1>5. Owned(d)' = Owned(d)
  BY <1>4 DEF Owned
<1>6. \A a \in Addresses : rows'[a] = IF owner[a] = e THEN view[e][a] ELSE rows[a]
  BY CommitWrites
<1>7. \A a \in Owned(d) : rows'[a] = rows[a] /\ (a \in Kept' <=> a \in Kept)
  BY <1>6 DEF Owned, Kept
<1>8. Alone(d) => rows' = rows /\ Alone(d)'
  <2> SUFFICES ASSUME Alone(d) PROVE rows' = rows /\ Alone(d)'
    OBVIOUS
  <2>1. \A a \in Addresses : owner[a] # e
    BY <1>2 DEF Alone
  <2>2. rows' = rows
    <3>1. \A a \in Addresses : rows'[a] = rows[a]
      BY <1>6, <2>1
    <3> QED
      BY <3>1, CommitWrites
  <2>3. Kept' = Kept
    BY <2>2 DEF Kept
  <2>4. Alone(d)'
    BY <1>3, <1>4, <1>5, <2>3 DEF Alone
  <2> QED
    BY <2>2, <2>4
<1>9. \/ op[e].kind = "create" /\ Saved(e)
      \/ op[e].kind = "update" /\ Edited(e)
      \/ op[e].kind = "delete" /\ Removed(e)
      \/ op[e].kind = "default" /\ Edited(e)
      \/ op[e].kind = "erase" /\ Erased(e)
  BY CommitEffect
<1>10. account = d => account' = d /\ open' = open
  <2>1. account = d => op[e].kind # "erase"
    BY <1>9, <1>2 DEF Erased
  <2>2. open' = open \/ op[e].kind = "erase"
    BY <1>1, <1>2 DEF TypeOK
  <2> QED
    BY <1>1, <2>1, <2>2
<1>11. Owned(d) \cap Kept # {} => Kept' \subseteq Kept
  <2> SUFFICES ASSUME Owned(d) \cap Kept # {} PROVE Kept' \subseteq Kept
    OBVIOUS
  <2>1. ~Alone(e)
    BY <1>2 DEF Alone, Owned, Kept
  <2>2. Edited(e) \/ Removed(e)
    BY <1>9, <2>1 DEF Saved, Erased
  <2>3. CASE Edited(e)
    BY <2>1, <2>3 DEF Edited, Kept
  <2>4. CASE Removed(e)
    <3> PICK a \in Kept : a = op[e].id
      BY <2>4 DEF Removed
    <3>1. CASE rows' = [rows EXCEPT ![a] = "gone"]
      BY <1>2, <3>1 DEF TypeOK, Kept
    <3>2. CASE \E b \in Kept \ {a} : rows' = [rows EXCEPT ![a] = "gone", ![b] = "default"]
      BY <1>2, <3>2 DEF TypeOK, Kept
    <3> QED
      BY <2>4, <3>1, <3>2 DEF Removed
  <2> QED
    BY <2>2, <2>3, <2>4
<1> QED
  BY <1>3, <1>5, <1>7, <1>8, <1>10, <1>11

LEMMA CommitKeeps ==
  ASSUME IInv, NEW e \in Devices, Commit(e), NEW d \in Devices, d # e
  PROVE  Progress(d)'
<1>1. /\ pc'[d] = pc[d] /\ op'[d] = op[d] /\ view'[d] = view[d] /\ Owned(d)' = Owned(d)
      /\ account = d => account' = d /\ open' = open
      /\ nextId' = nextId
      /\ \A a \in Owned(d) : rows'[a] = rows[a] /\ (a \in Kept' <=> a \in Kept)
      /\ Alone(d) => rows' = rows /\ Alone(d)'
      /\ Owned(d) \cap Kept # {} => Kept' \subseteq Kept
  BY CommitLeaves
<1>2. Alone(d) => Kept' = Kept /\ Plain' = Plain /\ \A a \in Addresses : OnlyDefault(a)' = OnlyDefault(a)
  BY <1>1 DEF Kept, Plain, OnlyDefault
<1>3. Owned(d) \subseteq Addresses /\ Kept \subseteq Addresses /\ \A a \in Addresses : a \in Owned(d) <=> owner[a] = d
  BY DEF Owned, Kept
<1>4. \A a \in Addresses : owner'[a] = d <=> owner[a] = d
  BY <1>1, <1>3 DEF Owned
<1> HIDE DEF Alone, Owned, Kept, Plain, OnlyDefault
<1>5. Creates(d) => Creates(d)'
  BY <1>1, <1>2, <1>4 DEF Creates
<1>6. Updates(d) => Updates(d)'
  <2> SUFFICES ASSUME Updates(d) PROVE Updates(d)'
    OBVIOUS
  <2>1. CASE \A a \in Owned(d) : view[d][a] = rows[a]
    BY <1>1, <2>1 DEF Updates
  <2>2. CASE /\ op[d].isDefault /\ Alone(d) /\ Owned(d) \subseteq Kept
             /\ op[d].id \notin Kept /\ view[d] = Plain
    BY <1>1, <1>2, <2>2 DEF Updates
  <2>3. CASE /\ op[d].isDefault /\ Alone(d) /\ Owned(d) \subseteq Kept
             /\ op[d].id \in Kept /\ view[d] = OnlyDefault(op[d].id)
    <3> PICK b \in Kept : b = op[d].id
      BY <2>3
    <3> QED
      BY <1>1, <1>2, <1>3, <2>3 DEF Updates
  <2> QED
    BY <2>1, <2>2, <2>3 DEF Updates
<1>7. Deletes(d) => Deletes(d)'
  <2> SUFFICES ASSUME Deletes(d) PROVE Deletes(d)'
    OBVIOUS
  <2> PICK a \in Kept : a = op[d].id
    BY DEF Deletes
  <2>1. owner[a] = d /\ view[d][a] = "gone" /\ a \in Owned(d) /\ Kept' \subseteq Kept
    BY <1>1, <1>3 DEF Deletes
  <2>2. a \in Kept' /\ op'[d].id = a /\ owner'[a] = d /\ view'[d][a] = "gone" /\ rows'[a] = rows[a]
    BY <1>1, <1>3, <1>4, <2>1
  <2>3. CASE Owned(d) = {a} /\ (rows[a] = "default" => Kept = {a})
    <3>1. Owned(d)' = {a} /\ (rows'[a] = "default" => Kept' = {a})
      BY <1>1, <2>1, <2>2, <2>3
    <3> QED
      BY <2>2, <3>1 DEF Deletes
  <2>4. CASE rows[a] = "default" /\ \E b \in Kept \ {a} : Owned(d) = {a, b} /\ view[d][b] = "default"
    <3> PICK b \in Kept \ {a} : Owned(d) = {a, b} /\ view[d][b] = "default"
      BY <2>4
    <3>1. b \in Kept' \ {a} /\ Owned(d)' = {a, b} /\ view'[d][b] = "default" /\ rows'[a] = "default"
      BY <1>1, <2>2, <2>4
    <3> QED
      BY <2>2, <3>1 DEF Deletes
  <2> QED
    BY <2>3, <2>4 DEF Deletes
<1>8. SetsDefault(d) => SetsDefault(d)'
  BY <1>1, <1>2, <1>3 DEF SetsDefault
<1>9. Erases(d) => Erases(d)'
  BY <1>1, <1>2 DEF Erases, NoView
<1>10. Progress(d)
  BY DEF IInv
<1> HIDE DEF Creates, Updates, Deletes, SetsDefault, Erases
<1> QED
  BY <1>1, <1>2, <1>5, <1>6, <1>7, <1>8, <1>9, <1>10 DEF Progress

LEMMA CommitInv ==
  ASSUME IInv, NEW e \in Devices, Commit(e)
  PROVE  IInv'
<1>1. /\ pc' = [pc EXCEPT ![e] = "idle"] /\ op' = [op EXCEPT ![e] = None] /\ view' = [view EXCEPT ![e] = NoView]
      /\ owner' = [a \in Addresses |-> IF owner[a] = e THEN Nobody ELSE owner[a]]
      /\ gap' = gap \ {e} /\ account' = (IF account = e THEN Nobody ELSE account)
      /\ open' = (open /\ op[e].kind # "erase") /\ nextId' = nextId /\ served' = served
  BY DEF Commit, End, Goto, Release
<1>2. TypeOK /\ FreshInv
  BY DEF IInv
<1>3. rows' \in [Addresses -> Mark] /\ rows \in [Addresses -> Mark]
  BY CommitWrites
<1>4. TypeOK'
  <2>1. /\ pc' \in [Devices -> Steps] /\ op' \in [Devices -> Request \cup {None}]
        /\ view' \in [Devices -> [Addresses -> Mark]]
    BY <1>1, <1>2, Marks DEF TypeOK, Steps
  <2>2. owner' \in [Addresses -> Devices \cup {Nobody}] /\ gap' \in SUBSET Devices /\ account' \in Devices \cup {Nobody}
    BY <1>1, <1>2 DEF TypeOK
  <2>3. open' \in BOOLEAN
    BY <1>1, <1>2 DEF TypeOK
  <2> QED
    BY <1>1, <1>2, <1>3, <2>1, <2>2, <2>3 DEF TypeOK
<1>5. Kept' \subseteq {a \in Addresses : a < nextId}
  <2>1. \A a \in Kept : a \in Addresses /\ a < nextId
    BY <1>2 DEF FreshInv, Kept, Addresses
  <2>2. CASE Saved(e)
    <3> PICK n \in Addresses \ Kept : n < nextId /\ (rows' = OnlyDefault(n) \/ rows' = [rows EXCEPT ![n] = "plain"])
      BY <2>2 DEF Saved
    <3>1. Kept' \subseteq Kept \cup {n}
      BY <1>3 DEF Kept, OnlyDefault, Plain
    <3> QED
      BY <2>1, <3>1
  <2>3. CASE Edited(e)
    <3>1. Kept' \subseteq Kept
      BY <1>3, <2>3 DEF Kept, OnlyDefault, Plain, Edited
    <3> QED
      BY <2>1, <3>1
  <2>4. CASE Removed(e)
    <3>1. Kept' \subseteq Kept
      BY <1>3, <2>4 DEF Kept, Removed
    <3> QED
      BY <2>1, <3>1
  <2>5. CASE Erased(e)
    BY <1>3, <2>5 DEF Kept, Erased, NoView
  <2> QED
    BY <2>2, <2>3, <2>4, <2>5, CommitEffect
<1>6. FreshInv'
  <2>1. nextId \in Nat \ {0} /\ nextId' = nextId
    BY <1>1, <1>2 DEF FreshInv
  <2>2. \A a \in Kept' : a \in 1 .. (nextId - 1)
    BY <1>5, <2>1, BoundsAssumption DEF Addresses
  <2> QED
    BY <2>1, <2>2 DEF FreshInv
<1>7. Progress(e)'
  <2>1. pc'[e] = "idle" /\ \A a \in Addresses : owner'[a] # e
    BY <1>1, <1>2, NobodyAssumption DEF TypeOK
  <2>2. Owned(e)' = {}
    BY <2>1 DEF Owned
  <2> QED
    BY <2>1, <2>2 DEF Progress
<1>8. \A d \in Devices : Progress(d)'
  BY <1>7, CommitKeeps
<1> QED
  BY <1>4, <1>6, <1>8 DEF IInv

LEMMA SoundInv ==
  ASSUME IInv, NEW e \in Devices, Sound(e)
  PROVE  IInv' /\ rows' = rows /\ open' = open
<1>1. Quiet(e) /\ Progress(e)' /\ TypeOK' /\ FreshInv'
  BY DEF Sound
<1>2. \A d \in Devices : Progress(d)'
  BY <1>1, QuietKeeps
<1> QED
  BY <1>1, <1>2 DEF IInv, Quiet

\* Every step but a commit leaves the table alone.
LEMMA StepInv ==
  ASSUME IInv, [Next]_vars
  PROVE  /\ IInv'
         /\ (rows' = rows /\ open' = open) \/ (\E e \in Devices : Commit(e))
<1>1. CASE UNCHANGED vars
  <2>1. UNCHANGED <<rows, open, nextId, pc, op, view, owner, gap, account, served>>
    BY <1>1 DEF vars, table, locks
  <2>2. Kept' = Kept /\ Plain' = Plain /\ \A a \in Addresses : OnlyDefault(a)' = OnlyDefault(a)
    BY <2>1 DEF Kept, Plain, OnlyDefault
  <2>3. \A d \in Devices : Owned(d)' = Owned(d) /\ (Alone(d)' <=> Alone(d))
    BY <2>1 DEF Owned, Alone, Kept
  <2>4. TypeOK' /\ FreshInv'
    BY <2>1, <2>2 DEF IInv, TypeOK, FreshInv
  <2>5. ASSUME NEW d \in Devices PROVE Progress(d)'
    <3>1. Progress(d)
      BY DEF IInv
    <3>2. (Creates(d)' <=> Creates(d)) /\ (Updates(d)' <=> Updates(d)) /\ (Deletes(d)' <=> Deletes(d))
      BY <2>1 DEF Creates, Updates, Deletes, Alone, Owned, Kept, Plain, OnlyDefault
    <3>3. (SetsDefault(d)' <=> SetsDefault(d)) /\ (Erases(d)' <=> Erases(d))
      BY <2>1 DEF SetsDefault, Erases, Alone, Owned, Kept, Plain, OnlyDefault, NoView
    <3> HIDE DEF Creates, Updates, Deletes, SetsDefault, Erases, Alone, Owned, Kept, Plain
    <3> QED
      BY <2>1, <2>2, <2>3, <3>1, <3>2, <3>3 DEF Progress
  <2> QED
    BY <2>1, <2>4, <2>5 DEF IInv
<1>2. CASE Next
  <2> PICK e \in Devices :
         \/ \E q \in Request : Begin(e, q)
         \/ Count(e) \/ Insert(e) \/ Clear(e) \/ Edit(e) \/ LockAndDelete(e) \/ Promote(e)
         \/ SetDefault(e) \/ ClearOthers(e) \/ LockCustomer(e) \/ Wipe(e) \/ Commit(e) \/ Fail(e)
    BY <1>2, Zenon DEF Next
  <2>1. Commit(e) \/ Sound(e)
    BY BeginSound, CountSound, InsertSound, ClearSound, EditSound, LockAndDeleteSound, PromoteSound,
       SetDefaultSound, ClearOthersSound, LockCustomerSound, WipeSound, FailSound
  <2> QED
    BY <2>1, CommitInv, SoundInv
<1> QED
  BY <1>1, <1>2

LEMMA InitInv ==
  ASSUME Init
  PROVE  IInv
<1>1. /\ rows \in [Addresses -> Mark] /\ nextId \in 1 .. LastId + 1 /\ \A a \in Kept : a < nextId
      /\ open = TRUE /\ pc = [d \in Devices |-> "idle"] /\ op = [d \in Devices |-> None]
      /\ view = [d \in Devices |-> NoView] /\ owner = [a \in Addresses |-> Nobody]
      /\ gap = {} /\ account = Nobody /\ served = 0
  BY DEF Init
<1>2. TypeOK
  <2>1. nextId \in Nat
    BY <1>1, BoundsAssumption
  <2>2. "idle" \in Steps
    BY DEF Steps
  <2> QED
    BY <1>1, <2>1, <2>2, Marks DEF TypeOK
<1>3. FreshInv
  <2>1. nextId \in Nat \ {0}
    BY <1>1, BoundsAssumption
  <2>2. \A a \in Kept : a \in Nat \ {0}
    BY BoundsAssumption DEF Kept, Addresses
  <2> QED
    BY <1>1, <2>1, <2>2 DEF FreshInv
<1>4. \A d \in Devices : Owned(d) = {} /\ pc[d] = "idle"
  BY <1>1, NobodyAssumption DEF Owned
<1>5. \A d \in Devices : Progress(d)
  BY <1>4 DEF Progress
<1> QED
  BY <1>2, <1>3, <1>5 DEF IInv

\* What a request has locked and written at every statement, for any number of
\* devices and addresses.
THEOREM Inductive == Spec => []IInv
<1>1. Init => IInv
  BY InitInv
<1>2. IInv /\ [Next]_vars => IInv'
  BY StepInv
<1> QED
  BY <1>1, <1>2, PTL DEF Spec

LEMMA SameCount == \A S : Book!Cardinality(S) = Cardinality(S)
  BY DEF Book!Cardinality, Cardinality, Book!IsFiniteSet, IsFiniteSet

LEMMA Settles ==
  ASSUME Init
  PROVE  Book!Init
<1>1. Book!Kept = Kept /\ Book!Defaults = {a \in Addresses : rows[a] = "default"} /\ Book!Mark = Mark
  BY DEF Book!Kept, Kept, Book!Defaults, Book!Mark, Mark
<1> QED
  BY <1>1, SameCount DEF Init, Book!Init

\* A commit is one step of the book, by the kind of the request.
LEMMA CommitRefines ==
  ASSUME IInv, NEW e \in Devices, Commit(e)
  PROVE  [Book!Next]_Book!vars
<1>1. open \in BOOLEAN /\ open' = (open /\ op[e].kind # "erase")
  BY DEF Commit, IInv, TypeOK
<1>2. /\ Book!Kept = Kept /\ Book!AllPlain = Plain
      /\ \A a \in Addresses : Book!OnlyDefault(a) = OnlyDefault(a) /\ (a \in Book!Defaults <=> rows[a] = "default")
  BY DEF Book!Kept, Kept, Book!AllPlain, Plain, Book!OnlyDefault, OnlyDefault, Book!Defaults
<1>3. CASE op[e].kind = "create" /\ Saved(e)
  <2>1. open' = open /\ open
    BY <1>1, <1>3 DEF Saved
  <2> PICK n \in Addresses \ Kept :
         \/ rows' = OnlyDefault(n)
         \/ Kept # {} /\ rows' = [rows EXCEPT ![n] = "plain"]
    BY <1>3 DEF Saved
  <2>2. Cardinality(Kept) < MaxAddresses
    BY <1>3 DEF Saved
  <2>3. Book!Save(n)
    BY <1>2, <2>1, <2>2, SameCount DEF Book!Save
  <2> QED
    BY <2>3 DEF Book!Next
<1>4. CASE op[e].kind \in {"update", "default"} /\ Edited(e)
  <2>1. open' = open
    BY <1>1, <1>4
  <2>2. CASE rows' = rows
    BY <2>1, <2>2 DEF Book!vars
  <2>3. CASE rows' = Plain
    <3>1. Book!LoseDefault
      BY <1>2, <2>1, <2>3 DEF Book!LoseDefault
    <3> QED
      BY <3>1 DEF Book!Next
  <2>4. CASE op[e].id \in Kept /\ rows' = OnlyDefault(op[e].id)
    <3> PICK a \in Kept : a = op[e].id
      BY <2>4
    <3>1. a \in Addresses /\ Book!MakeDefault(a)
      BY <1>2, <2>1, <2>4 DEF Book!MakeDefault, Kept
    <3> QED
      BY <3>1 DEF Book!Next
  <2> QED
    BY <1>4, <2>2, <2>3, <2>4 DEF Edited
<1>5. CASE op[e].kind = "delete" /\ Removed(e)
  <2>1. open' = open
    BY <1>1, <1>5
  <2> PICK a \in Kept : a = op[e].id
    BY <1>5 DEF Removed
  <2>2. a \in Addresses
    BY DEF Kept
  <2>3. Book!Remove(a)
    <3>1. CASE (rows[a] = "default" => Kept = {a}) /\ rows' = [rows EXCEPT ![a] = "gone"]
      BY <1>2, <2>1, <2>2, <3>1 DEF Book!Remove
    <3>2. CASE /\ rows[a] = "default"
               /\ \E b \in Kept \ {a} : rows' = [rows EXCEPT ![a] = "gone", ![b] = "default"]
      BY <1>2, <2>1, <2>2, <3>2 DEF Book!Remove
    <3> QED
      BY <1>5, <3>1, <3>2 DEF Removed
  <2> QED
    BY <2>2, <2>3 DEF Book!Next
<1>6. CASE op[e].kind = "erase" /\ Erased(e)
  <2>1. Book!Erase
    BY <1>1, <1>6 DEF Book!Erase, Erased, NoView
  <2> QED
    BY <2>1 DEF Book!Next
<1> QED
  BY <1>3, <1>4, <1>5, <1>6, CommitEffect

\* The statements of any number of devices, however interleaved, are steps of the
\* address book of AddressBook.tla.
THEOREM Implements == Spec => ImplementsBook
<1>1. Init => Book!Init
  BY Settles
<1>2. IInv /\ [Next]_vars => [Book!Next]_Book!vars
  <2> SUFFICES ASSUME IInv, [Next]_vars PROVE [Book!Next]_Book!vars
    OBVIOUS
  <2>1. CASE rows' = rows /\ open' = open
    BY <2>1 DEF Book!vars
  <2>2. CASE \E e \in Devices : Commit(e)
    BY <2>2, CommitRefines
  <2> QED
    BY <2>1, <2>2, StepInv
<1> QED
  BY <1>1, <1>2, Inductive, PTL DEF Spec, ImplementsBook, Book!Spec

(***************************************************************************)
(* What the book promises, and so what the code keeps.                     *)
(***************************************************************************)

BookInv == rows \in [Addresses -> Mark] /\ open \in BOOLEAN /\ OneDefault /\ ErasedKeepsNothing

LEMMA BookStarts ==
  ASSUME Init
  PROVE  BookInv
<1> DEFINE D == {a \in Addresses : rows[a] = "default"}
<1>1. rows \in [Addresses -> Mark] /\ open = TRUE /\ Cardinality(D) <= 1
  BY DEF Init
<1>2. IsFiniteSet(D)
  <2>1. IsFiniteSet(Addresses)
    BY FS_Interval, BoundsAssumption DEF Addresses
  <2> QED
    BY <2>1, FS_Subset
<1>3. \A a, b \in D : a = b
  <2> SUFFICES ASSUME NEW a \in D, NEW b \in D, a # b PROVE FALSE
    OBVIOUS
  <2> HIDE DEF D
  <2>1. Cardinality(D \ {a}) = Cardinality(D) - 1 /\ IsFiniteSet(D \ {a}) /\ Cardinality(D) \in Nat
    BY <1>2, FS_RemoveElement, FS_CardinalityType
  <2>2. Cardinality(D \ {a}) = 0
    BY <1>1, <2>1, FS_CardinalityType
  <2>3. D \ {a} = {}
    BY <2>1, <2>2, FS_EmptySet
  <2> QED
    BY <2>3
<1> QED
  BY <1>1, <1>3 DEF BookInv, OneDefault, Book!OneDefault, Book!Defaults, ErasedKeepsNothing, Book!ErasedKeepsNothing

LEMMA BookStays ==
  ASSUME BookInv, [Book!Next]_Book!vars
  PROVE  BookInv'
<1>1. /\ rows \in [Addresses -> Mark] /\ open \in BOOLEAN
      /\ \A a, b \in Addresses : rows[a] = "default" /\ rows[b] = "default" => a = b
      /\ ~open => Kept = {}
  BY DEF BookInv, OneDefault, Book!OneDefault, Book!Defaults, ErasedKeepsNothing, Book!ErasedKeepsNothing, Book!Kept, Kept
<1>2. /\ Book!Kept = Kept /\ Book!AllPlain = Plain
      /\ \A a \in Addresses : Book!OnlyDefault(a) = OnlyDefault(a) /\ (a \in Book!Defaults <=> rows[a] = "default")
  BY DEF Book!Kept, Kept, Book!AllPlain, Plain, Book!OnlyDefault, OnlyDefault, Book!Defaults
<1>3. SUFFICES /\ rows' \in [Addresses -> Mark] /\ open' \in BOOLEAN
               /\ \A a, b \in Addresses : rows'[a] = "default" /\ rows'[b] = "default" => a = b
               /\ ~open' => \A a \in Addresses : rows'[a] = "gone"
  BY DEF BookInv, OneDefault, Book!OneDefault, Book!Defaults, ErasedKeepsNothing, Book!ErasedKeepsNothing, Book!Kept
<1>4. \A a \in Addresses : OnlyDefault(a) \in [Addresses -> Mark]
  BY Marks
<1>5. ASSUME NEW a \in Addresses, rows' = OnlyDefault(a), open' = open, open
      PROVE  <1>3!1
  BY <1>1, <1>4, <1>5 DEF OnlyDefault, Plain
<1>6. CASE UNCHANGED Book!vars
  BY <1>1, <1>6 DEF Book!vars, Kept
<1>7. ASSUME NEW a \in Addresses, Book!Save(a) PROVE <1>3!1
  <2>1. open /\ open' = open /\ (rows' = OnlyDefault(a) \/ rows' = [rows EXCEPT ![a] = "plain"])
    BY <1>2, <1>7 DEF Book!Save
  <2>2. CASE rows' = [rows EXCEPT ![a] = "plain"]
    BY <1>1, <2>1, <2>2 DEF Mark
  <2> QED
    BY <1>5, <2>1, <2>2
<1>8. ASSUME NEW a \in Addresses, Book!MakeDefault(a) PROVE <1>3!1
  BY <1>1, <1>2, <1>5, <1>8 DEF Book!MakeDefault
<1>9. ASSUME NEW a \in Addresses, Book!Remove(a) PROVE <1>3!1
  <2>1. a \in Kept /\ open /\ open' = open
    BY <1>1, <1>2, <1>9 DEF Book!Remove
  <2>2. CASE rows' = [rows EXCEPT ![a] = "gone"]
    BY <1>1, <2>1, <2>2 DEF Mark
  <2>3. CASE rows[a] = "default" /\ \E b \in Kept \ {a} : rows' = [rows EXCEPT ![a] = "gone", ![b] = "default"]
    <3> PICK b \in Kept \ {a} : rows' = [rows EXCEPT ![a] = "gone", ![b] = "default"]
      BY <2>3
    <3>1. b \in Addresses
      BY DEF Kept
    <3> QED
      BY <1>1, <2>1, <2>3, <3>1 DEF Mark
  <2> QED
    BY <1>2, <1>9, <2>2, <2>3 DEF Book!Remove
<1>10. CASE Book!LoseDefault
  <2>1. rows' = Plain /\ open' = open
    BY <1>2, <1>10 DEF Book!LoseDefault
  <2> QED
    BY <1>1, <2>1 DEF Plain, Mark, Kept
<1>11. CASE Book!Erase
  <2>1. rows' = NoView /\ open' = FALSE
    BY <1>11 DEF Book!Erase, NoView
  <2> QED
    BY <2>1, Marks DEF NoView
<1> QED
  BY <1>6, <1>7, <1>8, <1>9, <1>10, <1>11 DEF Book!Next

\* BookInv along every behaviour of the code.
LEMMA BookHolds == Spec => []BookInv
<1>1. Init => BookInv
  BY BookStarts
<1>2. BookInv /\ [Book!Next]_Book!vars => BookInv'
  BY BookStays
<1>3. Book!Spec => [][Book!Next]_Book!vars
  BY PTL DEF Book!Spec
<1>4. Spec => Init
  BY PTL DEF Spec
<1> QED
  BY <1>1, <1>2, <1>3, <1>4, Implements, PTL DEF ImplementsBook

\* No two addresses are ever the default: OneDefault for every number of devices,
\* addresses and requests.
THEOREM AtMostOne == Spec => []OneDefault
<1>1. BookInv => OneDefault
  BY DEF BookInv
<1> QED
  BY <1>1, BookHolds, PTL

\* Nothing is filed under a customer who has been erased.
THEOREM Erasure == Spec => []ErasedKeepsNothing
<1>1. BookInv => ErasedKeepsNothing
  BY DEF BookInv
<1> QED
  BY <1>1, BookHolds, PTL

\* A default is lost only to an edit of an address removed before it.
THEOREM LateEdit == Spec => DefaultLostOnlyByLateEdit
<1> DEFINE Late == HasDefault /\ ~HasDefault' /\ Kept' # {} =>
                     \E d \in Devices :
                       /\ pc[d] = "commit" /\ pc'[d] = "idle"
                       /\ op[d].kind = "update" /\ op[d].isDefault /\ op[d].id \notin Kept
<1>1. ASSUME IInv, [Next]_vars PROVE Late
  <2> SUFFICES ASSUME HasDefault, ~HasDefault', Kept' # {}
               PROVE \E d \in Devices :
                       /\ pc[d] = "commit" /\ pc'[d] = "idle"
                       /\ op[d].kind = "update" /\ op[d].isDefault /\ op[d].id \notin Kept
    OBVIOUS
  <2>1. rows' # rows
    BY DEF HasDefault, Kept
  <2> PICK e \in Devices : Commit(e)
    BY <1>1, <2>1, StepInv
  <2>2. pc[e] = "commit" /\ pc'[e] = "idle" /\ rows \in [Addresses -> Mark]
    BY <1>1 DEF Commit, End, Goto, IInv, TypeOK
  <2>3. \A a \in Kept' : rows'[a] # "default"
    BY DEF HasDefault
  <2>4. \A a \in Addresses : rows' # OnlyDefault(a)
    BY <2>3 DEF OnlyDefault, Plain, Kept
  <2>5. ~Saved(e)
    <3> SUFFICES ASSUME Saved(e) PROVE FALSE
      OBVIOUS
    <3> PICK n \in Addresses \ Kept : rows' = [rows EXCEPT ![n] = "plain"]
      BY <2>4 DEF Saved
    <3> PICK a \in Kept : rows[a] = "default"
      BY DEF HasDefault
    <3>1. a \in Addresses /\ rows'[a] = "default"
      BY <2>2 DEF Kept
    <3> QED
      BY <2>3, <3>1 DEF Kept
  <2>6. ~Removed(e)
    <3> SUFFICES ASSUME Removed(e) PROVE FALSE
      OBVIOUS
    <3> PICK a \in Kept : a = op[e].id
      BY DEF Removed
    <3>1. a \in Addresses
      BY DEF Kept
    <3>2. CASE (rows[a] = "default" => Kept = {a}) /\ rows' = [rows EXCEPT ![a] = "gone"]
      <4> PICK b \in Kept : rows[b] = "default"
        BY DEF HasDefault
      <4>1. CASE b = a
        BY <2>2, <3>2, <4>1 DEF Kept
      <4>2. CASE b # a
        <5>1. b \in Addresses /\ rows'[b] = "default"
          BY <2>2, <3>2, <4>2 DEF Kept
        <5> QED
          BY <2>3, <5>1 DEF Kept
      <4> QED
        BY <4>1, <4>2
    <3>3. CASE \E b \in Kept \ {a} : rows' = [rows EXCEPT ![a] = "gone", ![b] = "default"]
      <4> PICK b \in Kept \ {a} : rows' = [rows EXCEPT ![a] = "gone", ![b] = "default"]
        BY <3>3
      <4>1. b \in Addresses /\ rows'[b] = "default"
        BY <2>2 DEF Kept
      <4> QED
        BY <2>3, <4>1 DEF Kept
    <3> QED
      BY <3>2, <3>3 DEF Removed
  <2>7. ~Erased(e)
    BY DEF Erased, NoView, Kept
  <2>8. Edited(e) => op[e].isDefault /\ op[e].id \notin Kept /\ rows' = Plain
    <3> SUFFICES ASSUME op[e].id \in Kept PROVE rows' # OnlyDefault(op[e].id)
      BY <2>1 DEF Edited
    <3> QED
      BY <2>4 DEF Kept
  <2>9. ~Edited(e) \/ (op[e].kind = "update" /\ op[e].isDefault /\ op[e].id \notin Kept)
    <3>1. CASE op[e].kind = "default"
      <4>1. Progress(e)
        BY <1>1 DEF IInv
      <4>2. SetsDefault(e)
        BY <2>2, <3>1, <4>1 DEF Progress
      <4> QED
        BY <2>8, <4>2 DEF SetsDefault
    <3>2. CASE op[e].kind # "default"
      BY <1>1, <2>5, <2>6, <2>7, <2>8, <3>2, CommitEffect
    <3> QED
      BY <3>1, <3>2, <2>8
  <2> QED
    BY <1>1, <2>2, <2>5, <2>6, <2>7, <2>9, CommitEffect
<1>2. IInv /\ [Next]_vars => [Late]_vars
  BY <1>1
<1> QED
  BY <1>2, Inductive, PTL DEF Spec, DefaultLostOnlyByLateEdit
=============================================================================
