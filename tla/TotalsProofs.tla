---------------------------- MODULE TotalsProofs ----------------------------
(***************************************************************************)
(* What a ledger needs to know of a total: it is zero when every entry is, *)
(* and a change of one entry changes it by as much.                        *)
(***************************************************************************)
EXTENDS Totals, FiniteSetTheorems, TLAPS

Positive(n) == IF n > 0 THEN n ELSE 0

LEMMA UnitsFinite ==
  ASSUME NEW S, IsFiniteSet(S), NEW f \in [S -> Int]
  PROVE  IsFiniteSet(Units(f))
<1> DEFINE column == [x \in S |-> {x} \X (1 .. f[x])]
           columns == {{x} \X (1 .. f[x]) : x \in S}
<1>1. column \in Surjection(S, columns)
  BY DEF Surjection
<1>2. IsFiniteSet(columns)
  BY <1>1, FS_Surjection
<1>3. ASSUME NEW x \in S
      PROVE  IsFiniteSet({x} \X (1 .. f[x]))
  <2>1. IsFiniteSet({x})
    BY FS_Singleton
  <2>2. IsFiniteSet(1 .. f[x])
    BY FS_Interval
  <2> QED
    BY <2>1, <2>2, FS_Product, Zenon
<1>4. \A c \in columns : IsFiniteSet(c)
  BY <1>3
<1>5. DOMAIN f = S
  OBVIOUS
<1>6. IsFiniteSet(UNION columns)
  BY <1>2, <1>4, FS_UNION
<1> QED
  BY <1>5, <1>6 DEF Units

\* The units of x are as many as its entry says, or none, beside those of the others.
LEMMA UnitsOfOne ==
  ASSUME NEW S, IsFiniteSet(S), NEW f \in [S -> Int], NEW x \in S
  PROVE  LET others == {u \in Units(f) : u[1] # x} IN
           IsFiniteSet(others) /\ Cardinality(Units(f)) = Cardinality(others) + Positive(f[x])
<1> DEFINE others == {u \in Units(f) : u[1] # x}
           own    == {x} \X (1 .. f[x])
<1>1. IsFiniteSet(others)
  BY UnitsFinite, FS_Subset
<1>2. IsFiniteSet(own) /\ Cardinality(own) = Positive(f[x])
  <2>1. /\ IsFiniteSet(1 .. f[x]) 
        /\ Cardinality(1 .. f[x]) = IF 1 > f[x] THEN 0 ELSE f[x] - 1 + 1
    BY FS_Interval
  <2>2. Cardinality(1 .. f[x]) = Positive(f[x])
    BY <2>1 DEF Positive
  <2>3. IsFiniteSet({x}) /\ Cardinality({x}) = 1
    BY FS_Singleton
  <2>4. IsFiniteSet(own) /\ Cardinality(own) = Cardinality({x}) * Cardinality(1 .. f[x])
    BY <2>1, <2>3, FS_Product, Zenon
  <2>5. 1 * Positive(f[x]) = Positive(f[x])
    BY DEF Positive
  <2> QED
    BY <2>2, <2>3, <2>4, <2>5
<1>3. Units(f) = others \cup own
  BY DEF Units
<1>4. others \cap own = {}
  OBVIOUS
<1>5. Cardinality(others \cup own) = Cardinality(others) + Cardinality(own) - Cardinality(others \cap own)
  BY <1>1, <1>2, FS_Union
<1>6. Cardinality(others) \in Nat /\ Cardinality(own) \in Nat
  BY <1>1, <1>2, FS_CardinalityType
<1>7. Cardinality(Units(f)) = Cardinality(others) + Cardinality(own)
  <2>1. Cardinality(others \cap own) = 0
    BY <1>4, FS_EmptySet
  <2> HIDE DEF others, own
  <2>2. Cardinality(others \cup own) = Cardinality(others) + Cardinality(own)
    BY <1>5, <1>6, <2>1
  <2> QED
    BY <1>3, <2>2
<1> HIDE DEF others, own
<1>8. Cardinality(Units(f)) = Cardinality(others) + Positive(f[x])
  BY <1>2, <1>7
<1> QED
  BY <1>1, <1>8 DEF others

\* One entry changes, and the units are more or fewer by as much.
LEMMA UnitsChange ==
  ASSUME NEW S, IsFiniteSet(S), NEW f \in [S -> Int], NEW g \in [S -> Int], NEW x \in S,
         \A y \in S \ {x} : g[y] = f[y]
  PROVE  /\ Cardinality(Units(f)) \in Nat /\ Cardinality(Units(g)) \in Nat
         /\ Cardinality(Units(g)) = Cardinality(Units(f)) - Positive(f[x]) + Positive(g[x])
<1> DEFINE others(h) == {u \in Units(h) : u[1] # x}
<1>1. others(f) = others(g)
  <2>1. ASSUME NEW u
        PROVE  u \in others(f) <=> u \in others(g)
    BY DEF Units
  <2> QED
    BY <2>1
<1>2. /\ IsFiniteSet(others(f)) /\ Cardinality(Units(f)) = Cardinality(others(f)) + Positive(f[x])
      /\ Cardinality(Units(g)) = Cardinality(others(g)) + Positive(g[x])
  BY UnitsOfOne
<1>3. Cardinality(others(f)) \in Nat
  BY <1>2, FS_CardinalityType
<1>4. Positive(f[x]) \in Nat /\ Positive(g[x]) \in Nat
  BY DEF Positive
<1> HIDE DEF others
<1> QED
  BY <1>1, <1>2, <1>3, <1>4

\* A change of one entry is a change of the total by as much.
LEMMA TotalChange ==
  ASSUME NEW S, IsFiniteSet(S), NEW f \in [S -> Int], NEW g \in [S -> Int], NEW x \in S,
         \A y \in S \ {x} : g[y] = f[y]
  PROVE  Total(f) \in Int /\ Total(g) = Total(f) - f[x] + g[x]
<1>1. /\ Cardinality(Units(f)) \in Nat
      /\ Cardinality(Units(g)) = Cardinality(Units(f)) - Positive(f[x]) + Positive(g[x])
  BY UnitsChange
<1>2. /\ Negated(f) \in [S -> Int] /\ Negated(g) \in [S -> Int]
      /\ \A y \in S \ {x} : Negated(g)[y] = Negated(f)[y]
      /\ Negated(f)[x] = -f[x] /\ Negated(g)[x] = -g[x]
  BY DEF Negated
<1>3. /\ Cardinality(Units(Negated(f))) \in Nat
      /\ Cardinality(Units(Negated(g)))
           = Cardinality(Units(Negated(f))) - Positive(-f[x]) + Positive(-g[x])
  BY <1>2, UnitsChange
<1> QED
  BY <1>1, <1>3 DEF Total, Positive

LEMMA TotalIsInt ==
  ASSUME NEW S, IsFiniteSet(S), NEW f \in [S -> Int]
  PROVE  Total(f) \in Int
<1>1. Negated(f) \in [S -> Int]
  BY DEF Negated
<1>2. Cardinality(Units(f)) \in Nat /\ Cardinality(Units(Negated(f))) \in Nat
  BY <1>1, UnitsFinite, FS_CardinalityType
<1> QED
  BY <1>2 DEF Total

LEMMA TotalOfNothing ==
  ASSUME NEW S, NEW f \in [S -> Int], \A x \in S : f[x] = 0
  PROVE  Total(f) = 0
<1>1. Units(f) = {} /\ Units(Negated(f)) = {}
  BY DEF Units, Negated
<1> QED
  BY <1>1, FS_EmptySet DEF Total
=============================================================================
