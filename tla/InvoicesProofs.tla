--------------------------- MODULE InvoicesProofs ---------------------------
(***************************************************************************)
(* The invoice numbering is proved in two halves.  The abstract series,    *)
(* whose one step allocates the next number, keeps the numbers of a year   *)
(* exactly 1 .. last_seq.  The transactions implement the series: their    *)
(* commit is its step, because the order's lock keeps the number unset and *)
(* the counter's lock keeps last_seq what it was when it was read.         *)
(***************************************************************************)
EXTENDS Invoices, TLAPS

(***************************************************************************)
(* The abstract series.                                                    *)
(***************************************************************************)

\* A number lies inside its year's series.
Bounded ==
  \A o \in Orders :
    invoice[o] # NoNumber => invoice[o].seq <= lastSeq[invoice[o].fy]

\* Every place of the series has been given to an order.
Covered ==
  \A y \in Years : \A n \in 1 .. lastSeq[y] :
    \E o \in Orders : invoice[o] = [fy |-> y, seq |-> n]

SeriesInv == Series!TypeOK /\ Bounded /\ Covered /\ Unique

LEMMA NumberShape ==
  ASSUME NEW x \in Number \cup {NoNumber}
  PROVE  /\ x # NoNumber => x \in Number /\ x.fy \in Years /\ x.seq \in Nat \ {0}
         /\ x = [fy |-> x.fy, seq |-> x.seq]
         /\ x = NoNumber <=> x.fy \notin Years
  BY LastYearAssumption DEF Number, NoNumber, Years, Series!Number, Series!NoNumber, Series!Years

LEMMA SeriesInit == Series!Init => SeriesInv
  BY LastYearAssumption
     DEF Series!Init, SeriesInv, Series!TypeOK, Bounded, Covered, Unique, Series!Unique,
         NoNumber, Years, Series!Number, Series!NoNumber, Series!Years

LEMMA AllocateKeeps ==
  ASSUME SeriesInv, NEW o \in Orders, NEW y \in Years, Series!Allocate(o, y)
  PROVE  SeriesInv'
<1> DEFINE n == lastSeq[y] + 1
           new == [fy |-> y, seq |-> n]
<1>1. /\ invoice[o] = NoNumber
      /\ lastSeq' = [lastSeq EXCEPT ![y] = n]
      /\ invoice' = [invoice EXCEPT ![o] = new]
  BY DEF Series!Allocate, NoNumber
<1>2. /\ invoice \in [Orders -> Number \cup {NoNumber}]
      /\ lastSeq \in [Years -> Nat]
  BY DEF SeriesInv, Series!TypeOK, Number, NoNumber, Years
<1>3. n \in Nat \ {0} /\ lastSeq[y] \in Nat /\ n = lastSeq[y] + 1
  BY <1>2
<1>4. new \in Number /\ new # NoNumber /\ new.fy = y /\ new.seq = n
  BY <1>3, NumberShape DEF Number, Series!Number, NoNumber, Series!NoNumber, Years
<1> HIDE DEF n, new
<1>5. /\ invoice'[o] = new /\ lastSeq'[y] = n
      /\ \A p \in Orders : p # o => invoice'[p] = invoice[p]
      /\ \A z \in Years : z # y => lastSeq'[z] = lastSeq[z]
  BY <1>1, <1>2
<1>6. /\ invoice' \in [Orders -> Number \cup {NoNumber}]
      /\ lastSeq' \in [Years -> Nat]
  BY <1>1, <1>2, <1>3, <1>4
<1>7. Series!TypeOK'
  BY <1>6 DEF Series!TypeOK, Number, NoNumber, Years
<1>8. Bounded'
  <2> SUFFICES ASSUME NEW p \in Orders, invoice'[p] # NoNumber
               PROVE  invoice'[p].seq <= lastSeq'[invoice'[p].fy]
    BY DEF Bounded, NoNumber, Series!NoNumber
  <2>1. CASE p = o
    BY <2>1, <1>3, <1>4, <1>5
  <2>2. CASE p # o
    <3>1. invoice'[p] = invoice[p] /\ invoice[p] # NoNumber
      BY <2>2, <1>5
    <3>2. invoice[p].fy \in Years /\ invoice[p].seq \in Nat
      BY <3>1, <1>2, NumberShape
    <3>3. invoice[p].seq <= lastSeq[invoice[p].fy]
      BY <3>1 DEF SeriesInv, Bounded
    <3>4. lastSeq[invoice[p].fy] <= lastSeq'[invoice[p].fy]
      BY <3>2, <1>2, <1>3, <1>5
    <3>5. lastSeq[invoice[p].fy] \in Nat /\ lastSeq'[invoice[p].fy] \in Nat
      BY <3>2, <1>2, <1>6
    <3> QED
      BY <3>1, <3>2, <3>3, <3>4, <3>5
  <2> QED
    BY <2>1, <2>2
<1>9. Covered'
  <2> SUFFICES ASSUME NEW z \in Years, NEW k \in 1 .. lastSeq'[z]
               PROVE  \E p \in Orders : invoice'[p] = [fy |-> z, seq |-> k]
    BY DEF Covered, Years, Series!Years
  <2>1. CASE z = y /\ k = n
    BY <2>1, <1>5, <1>3 DEF new
  <2>2. CASE ~(z = y /\ k = n)
    <3>1. k \in 1 .. lastSeq[z]
      BY <2>2, <1>2, <1>3, <1>5
    <3>2. PICK p \in Orders : invoice[p] = [fy |-> z, seq |-> k]
      BY <3>1 DEF SeriesInv, Covered
    <3>3. p # o
      BY <3>2, <1>1, <3>1, NumberShape DEF NoNumber, Series!NoNumber
    <3> QED
      BY <3>2, <3>3, <1>5
  <2> QED
    BY <2>1, <2>2
<1>10. Unique'
  <2>1. \A p \in Orders : p # o => invoice[p] # new
    <3> SUFFICES ASSUME NEW p \in Orders, invoice[p] = new
                 PROVE  FALSE
      OBVIOUS
    <3>1. invoice[p].seq <= lastSeq[invoice[p].fy]
      BY <1>4 DEF SeriesInv, Bounded
    <3> QED
      BY <3>1, <1>3, <1>4
  <2>2. \A p, q \in Orders : invoice[p] = invoice[q] /\ invoice[p] # NoNumber => p = q
    BY DEF SeriesInv, Unique, Series!Unique, NoNumber
  <2>3. \A p, q \in Orders : invoice'[p] = invoice'[q] /\ invoice'[p] # NoNumber => p = q
    BY <2>1, <2>2, <1>5
  <2> QED
    BY <2>3 DEF Unique, Series!Unique, NoNumber, Series!NoNumber
<1> QED
  BY <1>7, <1>8, <1>9, <1>10 DEF SeriesInv

LEMMA SeriesStep == SeriesInv /\ [Series!Next]_<<invoice, lastSeq>> => SeriesInv'
<1> SUFFICES ASSUME SeriesInv, [Series!Next]_<<invoice, lastSeq>>
             PROVE  SeriesInv'
  OBVIOUS
<1>1. CASE UNCHANGED <<invoice, lastSeq>>
  BY <1>1 DEF SeriesInv, Series!TypeOK, Bounded, Covered, Unique, Series!Unique,
              Number, NoNumber, Years, Series!Number, Series!NoNumber, Series!Years
<1>2. CASE Series!Next
  BY <1>2, AllocateKeeps DEF Series!Next, Years
<1> QED
  BY <1>1, <1>2

LEMMA ConsecutiveFromInv == SeriesInv => Consecutive
<1> SUFFICES ASSUME SeriesInv, NEW y \in Years
             PROVE  {invoice[o].seq : o \in {p \in Orders : invoice[p].fy = y}} = 1 .. lastSeq[y]
  BY DEF Consecutive, Series!Consecutive, Years
<1>1. /\ invoice \in [Orders -> Number \cup {NoNumber}]
      /\ lastSeq[y] \in Nat
  BY DEF SeriesInv, Series!TypeOK, Number, NoNumber, Years
<1>2. ASSUME NEW o \in Orders, invoice[o].fy = y
      PROVE  invoice[o].seq \in 1 .. lastSeq[y]
  <2>1. invoice[o] # NoNumber
    BY <1>1, <1>2, NumberShape
  <2>2. invoice[o].seq \in Nat \ {0}
    BY <1>1, <2>1, NumberShape
  <2>3. invoice[o].seq <= lastSeq[y]
    BY <1>2, <2>1 DEF SeriesInv, Bounded
  <2> QED
    BY <1>1, <2>2, <2>3
<1>3. ASSUME NEW n \in 1 .. lastSeq[y]
      PROVE  \E o \in Orders : invoice[o].fy = y /\ invoice[o].seq = n
  <2>1. PICK o \in Orders : invoice[o] = [fy |-> y, seq |-> n]
    BY DEF SeriesInv, Covered
  <2> QED
    BY <2>1
<1> QED
  BY <1>2, <1>3

(***************************************************************************)
(* The transactions.                                                       *)
(***************************************************************************)

HoldsOrder(r) == pc[r] \in {"lockCounter", "readCounter", "commit"}
HoldsYear(r)  == pc[r] \in {"readCounter", "commit"}

\* What a transaction has read is still so while it holds the row's lock.
LockInv ==
  \A r \in Requests :
    /\ HoldsOrder(r) => /\ orderLock[order[r]] = r
                        /\ invoice[order[r]] = NoNumber
                        /\ supplied[order[r]]
    /\ HoldsYear(r) => yearLock[fy[r]] = r
    /\ pc[r] = "commit" => sequence[r] = lastSeq[fy[r]] + 1

IInv == TypeOK /\ LockInv

LEMMA TypeInit == Init => TypeOK
  BY LastYearAssumption DEF Init, Series!Init, TypeOK, Series!TypeOK, Years, Number, NoNumber, Series!Years

LEMMA LockInit == Init => LockInv
  BY DEF Init, LockInv, HoldsOrder, HoldsYear

\* Types are kept by every step.
LEMMA TypeStep == IInv /\ [Next]_vars => TypeOK'
<1> SUFFICES ASSUME IInv, [Next]_vars
             PROVE  TypeOK'
  OBVIOUS
<1> USE DEF IInv, tables, locks, local, world, TypeOK, Series!TypeOK, Number, NoNumber, Years,
            Series!Number, Series!NoNumber, Series!Years, Goto
<1>1. CASE UNCHANGED vars
  BY <1>1 DEF vars
<1>2. ASSUME NEW r \in Requests, NEW o \in Orders, Begin(r, o)
      PROVE  TypeOK'
  BY <1>2 DEF Begin
<1>3. ASSUME NEW r \in Requests, AlreadyNumbered(r)
      PROVE  TypeOK'
  BY <1>3 DEF AlreadyNumbered
<1>4. ASSUME NEW r \in Requests, NotSupplied(r)
      PROVE  TypeOK'
  BY <1>4 DEF NotSupplied
<1>5. ASSUME NEW r \in Requests, LockOrder(r)
      PROVE  TypeOK'
  BY <1>5 DEF LockOrder, TakeOrder
<1>6. ASSUME NEW r \in Requests, LockCounter(r)
      PROVE  TypeOK'
  BY <1>6 DEF LockCounter, TakeYear
<1>7. ASSUME NEW r \in Requests, ReadCounter(r)
      PROVE  TypeOK'
  BY <1>7 DEF ReadCounter, NextNumber
<1>8. ASSUME NEW r \in Requests, Commit(r)
      PROVE  TypeOK'
  <2>1. sequence[r] \in Nat \ {0}
    BY <1>8 DEF Commit, LockInv
  <2>2. MyNumber(r) \in Number
    BY <2>1 DEF MyNumber
  <2> QED
    BY <1>8, <2>1, <2>2 DEF Commit, Release
<1>9. ASSUME NEW r \in Requests, Fail(r)
      PROVE  TypeOK'
  BY <1>9 DEF Fail, RollBack, Release
<1>10. ASSUME NEW o \in Orders, StatusChanges(o)
       PROVE  TypeOK'
  BY <1>10 DEF StatusChanges
<1>11. CASE YearTurns
  BY <1>11, LastYearAssumption DEF YearTurns
<1> HIDE DEF TypeOK, IInv
<1> QED
  BY <1>1, <1>2, <1>3, <1>4, <1>5, <1>6, <1>7, <1>8, <1>9, <1>10, <1>11 DEF Next

\* A request that is not the one stepping keeps what it has locked: nobody else
\* writes the order's or the year's row.
LEMMA LockStep == IInv /\ [Next]_vars => LockInv'
<1> SUFFICES ASSUME IInv, [Next]_vars
             PROVE  LockInv'
  OBVIOUS
<1>0. /\ pc \in [Requests -> {"idle", "lockOrder", "lockCounter", "readCounter", "commit"}]
      /\ order \in [Requests -> Orders] /\ fy \in [Requests -> Years]
      /\ sequence \in [Requests -> Nat]
      /\ orderLock \in [Orders -> Requests \cup {Nobody}]
      /\ yearLock \in [Years -> Requests \cup {Nobody}]
      /\ invoice \in [Orders -> Number \cup {NoNumber}]
      /\ lastSeq \in [Years -> Nat]
      /\ supplied \in [Orders -> BOOLEAN]
      /\ LockInv
  BY DEF IInv, TypeOK, Series!TypeOK, Number, NoNumber, Years
<1> USE <1>0, NobodyAssumption DEF tables, locks, local, world, LockInv, HoldsOrder, HoldsYear, Goto
<1>1. CASE UNCHANGED vars
  BY <1>1 DEF vars, NoNumber, Series!NoNumber
<1> USE DEF NoNumber, Series!NoNumber
<1>2. ASSUME NEW r \in Requests, NEW o \in Orders, Begin(r, o)
      PROVE  LockInv'
  BY <1>2 DEF Begin
<1>3. ASSUME NEW r \in Requests, AlreadyNumbered(r)
      PROVE  LockInv'
  BY <1>3 DEF AlreadyNumbered
<1>4. ASSUME NEW r \in Requests, NotSupplied(r)
      PROVE  LockInv'
  BY <1>4 DEF NotSupplied
<1>5. ASSUME NEW r \in Requests, LockOrder(r)
      PROVE  LockInv'
  BY <1>5 DEF LockOrder, TakeOrder
<1>6. ASSUME NEW r \in Requests, LockCounter(r)
      PROVE  LockInv'
  BY <1>6 DEF LockCounter, TakeYear
<1>7. ASSUME NEW r \in Requests, ReadCounter(r)
      PROVE  LockInv'
  BY <1>7 DEF ReadCounter, NextNumber
<1>8. ASSUME NEW r \in Requests, Commit(r)
      PROVE  LockInv'
  <2> SUFFICES ASSUME NEW q \in Requests
               PROVE  /\ HoldsOrder(q)' => /\ orderLock'[order'[q]] = q
                                           /\ invoice'[order'[q]] = NoNumber
                                           /\ supplied'[order'[q]]
                      /\ HoldsYear(q)' => yearLock'[fy'[q]] = q
                      /\ pc'[q] = "commit" => sequence'[q] = lastSeq'[fy'[q]] + 1
    OBVIOUS
  <2>1. CASE q = r
    BY <2>1, <1>8 DEF Commit
  <2>2. CASE q # r
    <3>1. /\ pc'[q] = pc[q]
          /\ UNCHANGED <<order, fy, sequence, supplied>>
          /\ orderLock' = [o \in Orders |-> IF orderLock[o] = r THEN Nobody ELSE orderLock[o]]
          /\ yearLock' = [y \in Years |-> IF yearLock[y] = r THEN Nobody ELSE yearLock[y]]
          /\ invoice' = [invoice EXCEPT ![order[r]] = MyNumber(r)]
          /\ lastSeq' = [lastSeq EXCEPT ![fy[r]] = sequence[r]]
          /\ orderLock[order[r]] = r /\ yearLock[fy[r]] = r
      BY <2>2, <1>8 DEF Commit, Release
    <3>2. ASSUME HoldsOrder(q)
          PROVE  order[q] # order[r]
      BY <3>1, <3>2, <2>2
    <3>3. ASSUME HoldsYear(q)
          PROVE  fy[q] # fy[r]
      BY <3>1, <3>3, <2>2
    <3> QED
      BY <2>2, <3>1, <3>2, <3>3
  <2> QED
    BY <2>1, <2>2
<1>9. ASSUME NEW r \in Requests, Fail(r)
      PROVE  LockInv'
  BY <1>9 DEF Fail, RollBack, Release
<1>10. ASSUME NEW o \in Orders, StatusChanges(o)
       PROVE  LockInv'
  BY <1>10 DEF StatusChanges
<1>11. CASE YearTurns
  BY <1>11 DEF YearTurns
<1> HIDE <1>0 DEF LockInv, HoldsOrder, HoldsYear, NoNumber, Series!NoNumber
<1> QED
  BY <1>1, <1>2, <1>3, <1>4, <1>5, <1>6, <1>7, <1>8, <1>9, <1>10, <1>11 DEF Next

THEOREM LocksHold == Spec => []IInv
<1>1. Init => IInv
  BY TypeInit, LockInit DEF IInv
<1>2. IInv /\ [Next]_vars => IInv'
  BY TypeStep, LockStep DEF IInv
<1> QED
  BY <1>1, <1>2, PTL DEF Spec

(***************************************************************************)
(* The refinement, and what follows from it.                               *)
(***************************************************************************)

LEMMA StepRefines == IInv /\ [Next]_vars => [Series!Next]_<<invoice, lastSeq>>
<1> SUFFICES ASSUME IInv, [Next]_vars, ~ UNCHANGED <<invoice, lastSeq>>
             PROVE  Series!Next
  OBVIOUS
<1>1. PICK r \in Requests : Commit(r)
  BY DEF Next, vars, tables, world, locks, local, Begin, AlreadyNumbered, NotSupplied, LockOrder,
         LockCounter, ReadCounter, Fail, RollBack, StatusChanges, YearTurns
<1>2. /\ order[r] \in Orders /\ fy[r] \in Years
      /\ invoice[order[r]] = NoNumber
      /\ sequence[r] = lastSeq[fy[r]] + 1
  BY <1>1 DEF IInv, TypeOK, LockInv, HoldsOrder, Commit
<1>3. Series!Allocate(order[r], fy[r])
  BY <1>1, <1>2 DEF Commit, MyNumber, Series!Allocate, NoNumber
<1> QED
  BY <1>2, <1>3 DEF Series!Next, Years

\* The transactions of any number of concurrent requests implement the series.
THEOREM ImplementsSeries == Spec => Refinement
<1>1. Init => Series!Init
  BY DEF Init
<1> QED
  BY <1>1, StepRefines, LocksHold, PTL DEF Spec, Refinement, Series!Spec, Series!vars

LEMMA SeriesInvariant == Spec => []SeriesInv
  BY ImplementsSeries, SeriesInit, SeriesStep, PTL DEF Refinement, Series!Spec, Series!vars

\* The numbers of a year are 1 .. last_seq with no hole, through any interleaving
\* and any failure of the requests.
THEOREM NoHoles == Spec => []Consecutive
  BY SeriesInvariant, ConsecutiveFromInv, PTL

\* No two orders ever share an invoice number.
THEOREM NumbersAreUnique == Spec => []Unique
  BY SeriesInvariant, PTL DEF SeriesInv

\* A number is given to an order only while it is neither pending nor cancelled.
THEOREM InvoicedWhenSupplied == Spec => OnlySuppliedIsInvoiced
<1> DEFINE Safe == \A o \in Orders : invoice'[o] # invoice[o] => supplied[o]
<1>1. IInv /\ [Next]_vars => [Safe]_vars
  <2> SUFFICES ASSUME IInv, [Next]_vars, NEW o \in Orders, invoice'[o] # invoice[o]
               PROVE  supplied[o]
    OBVIOUS
  <2>1. PICK r \in Requests : Commit(r)
    BY DEF Next, vars, tables, world, locks, local, Begin, AlreadyNumbered, NotSupplied, LockOrder,
           LockCounter, ReadCounter, Fail, RollBack, StatusChanges, YearTurns
  <2>2. /\ invoice' = [invoice EXCEPT ![order[r]] = MyNumber(r)]
        /\ supplied[order[r]]
    BY <2>1 DEF Commit, IInv, LockInv, HoldsOrder
  <2> QED
    BY <2>2 DEF IInv, TypeOK, Series!TypeOK
<1> QED
  BY <1>1, LocksHold, PTL DEF Spec, OnlySuppliedIsInvoiced

LEMMA AnswerStep == IInv /\ AnswersAreCommitted /\ [Next]_vars => AnswersAreCommitted'
<1> SUFFICES ASSUME IInv, AnswersAreCommitted, [Next]_vars
             PROVE  AnswersAreCommitted'
  OBVIOUS
<1> HIDE DEF NoNumber
<1>1. /\ invoice \in [Orders -> Number \cup {NoNumber}]
      /\ order \in [Requests -> Orders] /\ answer \in [Requests -> Number \cup {NoNumber}]
  BY DEF IInv, TypeOK, Series!TypeOK, Number, NoNumber
<1>2. ASSUME NEW r \in Requests, NEW o \in Orders, Begin(r, o)
      PROVE  AnswersAreCommitted'
  BY <1>1, <1>2 DEF Begin, tables, AnswersAreCommitted
<1>3. ASSUME NEW r \in Requests, AlreadyNumbered(r)
      PROVE  AnswersAreCommitted'
  BY <1>1, <1>3 DEF AlreadyNumbered, tables, AnswersAreCommitted
<1>4. ASSUME NEW r \in Requests, Commit(r)
      PROVE  AnswersAreCommitted'
  <2>1. invoice[order[r]] = NoNumber
    BY <1>4 DEF Commit, IInv, LockInv, HoldsOrder
  <2> QED
    BY <1>1, <1>4, <2>1 DEF Commit, AnswersAreCommitted
<1>5. CASE UNCHANGED <<invoice, order, answer>>
  BY <1>5 DEF AnswersAreCommitted
<1>6. \/ UNCHANGED <<invoice, order, answer>>
      \/ \E r \in Requests, o \in Orders : Begin(r, o)
      \/ \E r \in Requests : AlreadyNumbered(r) \/ Commit(r)
  BY DEF Next, vars, tables, world, local, NotSupplied, LockOrder, LockCounter, ReadCounter, Fail,
         StatusChanges, YearTurns
<1> QED
  BY <1>2, <1>3, <1>4, <1>5, <1>6

\* What a request has answered is the number its order has in the database, whatever
\* other requests do afterwards: a number never changes once it is set.
THEOREM AnswersHold == Spec => []AnswersAreCommitted
<1>1. Init => AnswersAreCommitted
  BY DEF Init, AnswersAreCommitted
<1> QED
  BY <1>1, AnswerStep, LocksHold, PTL DEF Spec
=============================================================================
