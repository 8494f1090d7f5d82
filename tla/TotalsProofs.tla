---------------------------- MODULE TotalsProofs ----------------------------
(***************************************************************************)
(* What Total does when one member of the set, or one value of the         *)
(* function, changes.                                                      *)
(***************************************************************************)
EXTENDS Totals, FiniteSetTheorems, TLAPS

\* Every value on S is a natural number.
Counts(f, S) == \A x \in S : f[x] \in Nat

\* The units of one member are as many as its value.
LEMMA UnitsOfOne ==
  ASSUME NEW x, NEW n \in Nat
  PROVE  IsFiniteSet({x} \X (1..n)) /\ Cardinality({x} \X (1..n)) = n
<1>1. IsFiniteSet({x}) /\ Cardinality({x}) = 1
  BY FS_Singleton
<1>2. IsFiniteSet(1..n) /\ Cardinality(1..n) = n
  BY FS_Interval
<1> DEFINE own == 1..n
<1>3. IsFiniteSet(own) /\ Cardinality(own) = n
  BY <1>2
<1> HIDE DEF own
<1>4. /\ IsFiniteSet({x} \X own)
      /\ Cardinality({x} \X own) = Cardinality({x}) * Cardinality(own)
  BY <1>1, <1>3, FS_Product
<1>5. Cardinality({x} \X own) = 1 * n
  BY <1>1, <1>3, <1>4
<1>6. Cardinality({x} \X own) = n
  BY <1>5
<1>7. QED
  BY <1>4, <1>6 DEF own

\* A finite set has a finite total.
LEMMA TotalType ==
  ASSUME NEW S, IsFiniteSet(S), NEW f, Counts(f, S)
  PROVE  IsFiniteSet(Units(f, S)) /\ Total(f, S) \in Nat
<1> DEFINE g == [x \in S |-> {x} \X (1..f[x])]
           T == {{x} \X (1..f[x]) : x \in S}
<1>1. g \in Surjection(S, T)
  BY DEF Surjection
<1>2. IsFiniteSet(T)
  BY <1>1, FS_Surjection
<1>3. ASSUME NEW t \in T PROVE IsFiniteSet(t)
  <2>1. PICK x \in S : t = {x} \X (1..f[x])
    OBVIOUS
  <2>2. f[x] \in Nat
    BY DEF Counts
  <2>3. QED
    BY <2>1, <2>2, UnitsOfOne
<1>4. IsFiniteSet(UNION T)
  BY <1>2, <1>3, FS_UNION
<1>5. QED
  BY <1>4, FS_CardinalityType DEF Units, Total

\* Nothing adds up to nothing.
LEMMA TotalEmpty == ASSUME NEW f PROVE Total(f, {}) = 0
BY FS_EmptySet DEF Units, Total

\* A new member adds its value.
LEMMA TotalAdd ==
  ASSUME NEW S, IsFiniteSet(S), NEW x, x \notin S, NEW f, Counts(f, S \cup {x})
  PROVE  Total(f, S \cup {x}) = Total(f, S) + f[x]
<1> DEFINE own == {x} \X (1..f[x])
<1>0. f[x] \in Nat /\ Counts(f, S)
  BY DEF Counts
<1>1. Units(f, S \cup {x}) = Units(f, S) \cup own
  BY DEF Units
<1>2. Units(f, S) \cap own = {}
  BY DEF Units
<1>3. IsFiniteSet(own) /\ Cardinality(own) = f[x]
  BY <1>0, UnitsOfOne
<1>4. IsFiniteSet(Units(f, S)) /\ Total(f, S) \in Nat
  BY <1>0, TotalType
<1> HIDE DEF own
<1>5. Cardinality(Units(f, S) \cup own)
        = Cardinality(Units(f, S)) + Cardinality(own) - Cardinality(Units(f, S) \cap own)
  BY <1>3, <1>4, FS_Union
<1>6. Cardinality(Units(f, S) \cap own) = 0
  BY <1>2, FS_EmptySet
<1>7. Cardinality(Units(f, S) \cup own) = Total(f, S) + f[x]
  <2>1. Cardinality(Units(f, S)) \in Nat /\ Total(f, S) = Cardinality(Units(f, S))
    BY <1>4 DEF Total
  <2>2. QED
    BY <1>0, <1>3, <1>5, <1>6, <2>1
<1>8. QED
  BY <1>1, <1>7 DEF Total

\* A member that leaves takes its value along.
LEMMA TotalRemove ==
  ASSUME NEW S, IsFiniteSet(S), NEW x \in S, NEW f, Counts(f, S)
  PROVE  Total(f, S) = Total(f, S \ {x}) + f[x]
<1>1. IsFiniteSet(S \ {x}) /\ x \notin S \ {x} /\ S = (S \ {x}) \cup {x}
  BY FS_RemoveElement
<1>2. QED
  BY <1>1, TotalAdd

\* Only the values on S matter.
LEMMA TotalSame ==
  ASSUME NEW S, NEW f, NEW g, \A x \in S : f[x] = g[x]
  PROVE  Total(f, S) = Total(g, S)
<1>1. Units(f, S) = Units(g, S)
  BY DEF Units
<1>2. QED
  BY <1>1 DEF Total

\* What one member has in a total: its value, or nothing.
Part(f, S, x) == IF x \in S THEN f[x] ELSE 0

\* When membership and value change for one x only, the total changes by the
\* difference of its parts.
LEMMA TotalChange ==
  ASSUME NEW S, IsFiniteSet(S), NEW T, NEW x, NEW f, NEW g,
         Counts(f, S), Counts(g, T), S \ {x} = T \ {x},
         \A y \in S \ {x} : f[y] = g[y]
  PROVE  Total(g, T) + Part(f, S, x) = Total(f, S) + Part(g, T, x)
<1> DEFINE R == S \ {x}
<1>1. IsFiniteSet(R) /\ Counts(f, R) /\ Counts(g, R)
  BY FS_RemoveElement DEF Counts
<1>2. Total(f, R) = Total(g, R) /\ Total(f, R) \in Nat
  BY <1>1, TotalSame, TotalType
<1>3. Total(f, S) = Total(f, R) + Part(f, S, x) /\ Part(f, S, x) \in Nat
  <2>1. CASE x \in S
    BY <2>1, TotalRemove DEF Part, Counts
  <2>2. CASE x \notin S
    <3>1. R = S
      BY <2>2
    <3>2. QED
      BY <1>2, <2>2, <3>1 DEF Part
  <2>3. QED
    BY <2>1, <2>2
<1>4. IsFiniteSet(T)
  <2>1. T = R \/ T = R \cup {x}
    OBVIOUS
  <2>2. QED
    BY <1>1, <2>1, FS_AddElement
<1>5. Total(g, T) = Total(g, R) + Part(g, T, x) /\ Part(g, T, x) \in Nat
  <2>1. CASE x \in T
    BY <1>4, <2>1, TotalRemove DEF Part, Counts
  <2>2. CASE x \notin T
    <3>1. R = T /\ Total(g, R) \in Nat
      BY <1>2, <2>2
    <3>2. Total(g, T) = Total(g, R) /\ Total(g, T) \in Nat
      BY <3>1
    <3>3. Part(g, T, x) = 0
      BY <2>2 DEF Part
    <3>4. QED
      BY <3>2, <3>3
  <2>3. QED
    BY <2>1, <2>2
<1> HIDE DEF R
<1>6. QED
  BY <1>2, <1>3, <1>5

\* A total is at most the greatest value for every member there could be.
LEMMA TotalBound ==
  ASSUME NEW R, IsFiniteSet(R), NEW S \in SUBSET R, NEW m \in Nat, NEW f,
         Counts(f, S), \A x \in S : f[x] <= m
  PROVE  Total(f, S) <= Cardinality(R) * m
<1>1. Units(f, S) \subseteq R \X (1..m)
  BY DEF Units, Counts
<1>2. /\ IsFiniteSet(R \X (1..m))
      /\ Cardinality(R \X (1..m)) = Cardinality(R) * m
  <2>1. IsFiniteSet(1..m) /\ Cardinality(1..m) = m
    BY FS_Interval
  <2>2. QED
    BY <2>1, FS_Product
<1>3. QED
  BY <1>1, <1>2, FS_Subset DEF Total

\* What two sets cover has no more than the two together.
LEMMA TotalCover ==
  ASSUME NEW A, NEW B, IsFiniteSet(A), IsFiniteSet(B), NEW S \in SUBSET (A \cup B),
         NEW f, Counts(f, A), Counts(f, B)
  PROVE  Total(f, S) <= Total(f, A) + Total(f, B)
<1> DEFINE a == Units(f, A)
           b == Units(f, B)
<1>1. Units(f, S) \subseteq a \cup b
  BY DEF Units
<1>2. /\ IsFiniteSet(a) /\ IsFiniteSet(b)
      /\ Cardinality(a) = Total(f, A) /\ Total(f, A) \in Nat
      /\ Cardinality(b) = Total(f, B) /\ Total(f, B) \in Nat
  BY TotalType DEF Total
<1> HIDE DEF a, b
<1>3. IsFiniteSet(a \cup b) /\ IsFiniteSet(a \cap b)
  BY <1>2, FS_Union, FS_Intersection
<1>4. Cardinality(a \cup b) = Cardinality(a) + Cardinality(b) - Cardinality(a \cap b)
  BY <1>2, FS_Union
<1>5. /\ Cardinality(a \cap b) \in Nat /\ Cardinality(a \cup b) \in Nat
      /\ IsFiniteSet(Units(f, S)) /\ Cardinality(Units(f, S)) \in Nat
      /\ Cardinality(Units(f, S)) <= Cardinality(a \cup b)
  BY <1>1, <1>3, FS_Subset, FS_CardinalityType
<1>6. QED
  BY <1>2, <1>4, <1>5 DEF Total
=============================================================================
