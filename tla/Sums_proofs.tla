----------------------------- MODULE Sums_proofs ------------------------------
(* What the proofs about ledgers need of a sum: it is a natural number, no *)
(* smaller than any of its terms, zero for zeroes, and changes by what a   *)
(* single term changes.                                                    *)
EXTENDS Sums, FiniteSetTheorems, TLAPS

(* A term's own units.                                                     *)
Row(x, n) == {x} \X (1 .. n)

(* A row has as many units as its value says.                              *)
LEMMA RowCardinality ==
  ASSUME NEW x, NEW n \in Nat
  PROVE  IsFiniteSet(Row(x, n)) /\ Cardinality(Row(x, n)) = n
<1>1. IsFiniteSet({x}) /\ Cardinality({x}) = 1  BY FS_Singleton
<1>2. IsFiniteSet(1 .. n) /\ Cardinality(1 .. n) = n  BY FS_Interval
<1>3. /\ IsFiniteSet({x} \X (1 .. n))
      /\ Cardinality({x} \X (1 .. n)) = Cardinality({x}) * Cardinality(1 .. n)
  BY <1>1, <1>2, FS_Product, Zenon
<1>4. 1 * n = n  OBVIOUS
<1> QED  BY <1>1, <1>2, <1>3, <1>4 DEF Row

(* A unit of a sum, written out.                                           *)
LEMMA UnitOf ==
  ASSUME NEW S, NEW f \in [S -> Nat], NEW u
  PROVE  u \in Units(f) <=> \E x \in S : u \in Row(x, f[x])
BY DEF Units, Row

(* The units of a function are finitely many when its domain is finite.    *)
LEMMA UnitsFinite ==
  ASSUME NEW S, IsFiniteSet(S), NEW f \in [S -> Nat]
  PROVE  IsFiniteSet(Units(f))
<1> DEFINE T == {Row(x, f[x]) : x \in S}
           g == [x \in S |-> Row(x, f[x])]
<1>1. g \in Surjection(S, T)  BY DEF Surjection
<1>2. IsFiniteSet(T)
  <2> HIDE DEF g, T
  <2> QED  BY <1>1, FS_Surjection
<1>3. \A t \in T : IsFiniteSet(t)  BY RowCardinality
<1>4. IsFiniteSet(UNION T)
  <2> HIDE DEF T
  <2> QED  BY <1>2, <1>3, FS_UNION
<1>5. Units(f) = UNION T  BY DEF Units, Row
<1> QED  BY <1>4, <1>5

(* The sum is a natural number and at least each of its terms.             *)
THEOREM SumBounds ==
  ASSUME NEW S, IsFiniteSet(S), NEW f \in [S -> Nat]
  PROVE  SumOf(f) \in Nat /\ \A x \in S : f[x] <= SumOf(f)
<1>1. IsFiniteSet(Units(f))  BY UnitsFinite
<1>2. SumOf(f) \in Nat  BY <1>1, FS_CardinalityType DEF SumOf
<1>3. ASSUME NEW x \in S  PROVE f[x] <= SumOf(f)
  <2>1. Row(x, f[x]) \subseteq Units(f)  BY UnitOf
  <2>2. Cardinality(Row(x, f[x])) = f[x]  BY RowCardinality
  <2> QED  BY <1>1, <2>1, <2>2, FS_Subset DEF SumOf
<1> QED  BY <1>2, <1>3

(* The sum of zeroes is zero.                                              *)
THEOREM SumOfZeroes ==
  ASSUME NEW S
  PROVE  SumOf([x \in S |-> 0]) = 0
<1>1. Units([x \in S |-> 0]) = {}
  BY DEF Units
<1> QED  BY <1>1, FS_EmptySet DEF SumOf

(* When one term changes, the sum changes by as much.                      *)
THEOREM SumUpdate ==
  ASSUME NEW S, IsFiniteSet(S), NEW f \in [S -> Nat], NEW x \in S, NEW n \in Nat
  PROVE  SumOf([f EXCEPT ![x] = n]) = SumOf(f) - f[x] + n
<1> DEFINE g == [f EXCEPT ![x] = n]
           rest == Units(f) \ Row(x, f[x])
<1>1. g \in [S -> Nat] /\ g[x] = n /\ \A y \in S \ {x} : g[y] = f[y]  OBVIOUS
<1>2. IsFiniteSet(Units(f))  BY UnitsFinite
<1>3. IsFiniteSet(rest) /\ Cardinality(rest) = Cardinality(Units(f)) - f[x]
  <2>1. Units(f) \cap Row(x, f[x]) = Row(x, f[x])  BY UnitOf
  <2>2. /\ IsFiniteSet(rest)
        /\ Cardinality(rest) = Cardinality(Units(f)) - Cardinality(Units(f) \cap Row(x, f[x]))
    BY <1>2, FS_Difference, Zenon
  <2>3. Cardinality(Row(x, f[x])) = f[x]  BY RowCardinality
  <2> QED  BY <2>1, <2>2, <2>3
<1>4. Units(g) = rest \cup Row(x, n)
  <2>1. ASSUME NEW u  PROVE u \in Units(g) <=> u \in rest \cup Row(x, n)
    <3>1. u \in Units(g) <=> \E y \in S : u \in Row(y, g[y])
      <4> HIDE DEF g
      <4> QED  BY <1>1, UnitOf
    <3>2. u \in Units(f) <=> \E y \in S : u \in Row(y, f[y])  BY UnitOf
    <3>3. ASSUME NEW y \in S \ {x}, NEW k, u \in Row(y, k)
          PROVE  u \notin Row(x, f[x]) /\ u \notin Row(x, n)
      BY <3>3 DEF Row
    <3> HIDE DEF g
    <3> QED  BY <1>1, <3>1, <3>2, <3>3
  <2> QED  BY <2>1
<1>5. rest \cap Row(x, n) = {}
  <2>1. ASSUME NEW u \in rest, u \in Row(x, n)  PROVE FALSE
    <3>1. PICK y \in S : u \in Row(y, f[y])  BY UnitOf
    <3>2. y = x  BY <2>1, <3>1 DEF Row
    <3> QED  BY <3>1, <3>2
  <2> QED  BY <2>1
<1>6. Cardinality(Units(g)) = Cardinality(rest) + n
  <2>1. IsFiniteSet(Row(x, n)) /\ Cardinality(Row(x, n)) = n  BY RowCardinality
  <2>2. Cardinality({}) = 0  BY FS_EmptySet
  <2>3. Cardinality(rest) \in Nat  BY <1>3, FS_CardinalityType
  <2> HIDE DEF rest, g
  <2>4. Cardinality(rest \cup Row(x, n)) =
          Cardinality(rest) + Cardinality(Row(x, n)) - Cardinality(rest \cap Row(x, n))
    BY <1>3, <2>1, FS_Union, Zenon
  <2>5. Cardinality(Units(g)) = Cardinality(rest) + n - 0
    BY <1>4, <1>5, <2>1, <2>2, <2>4, Zenon
  <2> QED  BY <2>3, <2>5
<1>7. Cardinality(Units(f)) \in Nat  BY <1>2, FS_CardinalityType
<1> HIDE DEF rest
<1> QED  BY <1>3, <1>6, <1>7 DEF SumOf
===============================================================================
