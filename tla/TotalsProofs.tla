---------------------------- MODULE TotalsProofs -----------------------------
(* What the proofs about quantities use of the sums of Totals. *)
EXTENDS Totals, FiniteSetTheorems, TLAPS

\* A unit is a row with a number up to the quantity of the row.
LEMMA UnitMember ==
  ASSUME NEW S, NEW q \in [S -> Nat], NEW u
  PROVE u \in Units(q) <=> \E x \in S : \E i \in 1 .. q[x] : u = <<x, i>>
BY DEF Units

\* The units of one row.
LEMMA RowUnits ==
  ASSUME NEW x, NEW n \in Nat
  PROVE IsFiniteSet({x} \X (1 .. n)) /\ Cardinality({x} \X (1 .. n)) = n
<1> DEFINE A == {x}
           B == 1 .. n
<1>1. IsFiniteSet(A) /\ Cardinality(A) = 1
  BY FS_Singleton
<1>2. IsFiniteSet(B) /\ Cardinality(B) = n
  BY FS_Interval
<1> HIDE DEF A, B
<1>3. IsFiniteSet(A \X B) /\ Cardinality(A \X B) = Cardinality(A) * Cardinality(B)
  BY <1>1, <1>2, FS_Product
<1>4. IsFiniteSet(A \X B) /\ Cardinality(A \X B) = n
  BY <1>1, <1>2, <1>3
<1>5. QED
  BY <1>4 DEF A, B

LEMMA UnitsFinite ==
  ASSUME NEW S, IsFiniteSet(S), NEW q \in [S -> Nat]
  PROVE IsFiniteSet(Units(q))
<1> DEFINE T == {{x} \X (1 .. q[x]) : x \in S}
           f == [x \in S |-> {x} \X (1 .. q[x])]
<1>1. f \in Surjection(S, T)
  BY DEF Surjection
<1>2. IsFiniteSet(T)
  BY <1>1, FS_Surjection
<1>3. ASSUME NEW x \in S
      PROVE IsFiniteSet({x} \X (1 .. q[x]))
  BY RowUnits, q[x] \in Nat, Zenon
<1>4. \A t \in T : IsFiniteSet(t)
  BY <1>3, Zenon
<1>5. QED
  BY <1>2, <1>4, FS_UNION DEF Units

\* A sum is a natural number.
LEMMA TotalType ==
  ASSUME NEW S, IsFiniteSet(S), NEW q \in [S -> Nat]
  PROVE Total(q) \in Nat
BY UnitsFinite, FS_CardinalityType DEF Total

\* A sum grows with its terms.
LEMMA TotalMonotone ==
  ASSUME NEW S, IsFiniteSet(S), NEW q \in [S -> Nat], NEW r \in [S -> Nat],
         \A x \in S : q[x] <= r[x]
  PROVE Total(q) <= Total(r)
<1>1. Units(q) \subseteq Units(r)
  <2> SUFFICES ASSUME NEW u \in Units(q) PROVE u \in Units(r)
    OBVIOUS
  <2>1. PICK x \in S : \E i \in 1 .. q[x] : u = <<x, i>>
    BY UnitMember
  <2>2. \A i \in 1 .. q[x] : i \in 1 .. r[x]
    OBVIOUS
  <2>3. QED
    BY <2>1, <2>2, UnitMember
<1>2. QED
  BY <1>1, UnitsFinite, FS_Subset DEF Total

\* A sum changes by as much as its one term that changes.
LEMMA TotalUpdate ==
  ASSUME NEW S, IsFiniteSet(S), NEW q \in [S -> Nat], NEW r \in [S -> Nat],
         NEW x \in S, \A y \in S \ {x} : r[y] = q[y]
  PROVE Total(r) + q[x] = Total(q) + r[x]
<1> DEFINE Rest == UNION {{y} \X (1 .. q[y]) : y \in S \ {x}}
           Here(p) == {x} \X (1 .. p[x])
<1>1. /\ Units(q) = Rest \cup Here(q) /\ Rest \cap Here(q) = {}
      /\ Units(r) = Rest \cup Here(r) /\ Rest \cap Here(r) = {}
  BY DEF Units
<1>2. IsFiniteSet(Units(q)) /\ Rest \in SUBSET Units(q)
  BY <1>1, UnitsFinite
<1>3. IsFiniteSet(Rest) /\ Cardinality(Rest) \in Nat
  BY <1>2, FS_Subset, FS_CardinalityType
<1>4. /\ IsFiniteSet(Here(q)) /\ Cardinality(Here(q)) = q[x]
      /\ IsFiniteSet(Here(r)) /\ Cardinality(Here(r)) = r[x]
  BY RowUnits
<1>5. Cardinality(Rest \cap Here(q)) = 0 /\ Cardinality(Rest \cap Here(r)) = 0
  BY <1>1, FS_EmptySet
<1> HIDE DEF Rest, Here
<1>6. Cardinality(Units(q)) = Cardinality(Rest) + q[x]
  <2>1. Cardinality(Rest \cup Here(q))
           = Cardinality(Rest) + Cardinality(Here(q)) - Cardinality(Rest \cap Here(q))
    BY <1>3, <1>4, FS_Union
  <2>2. QED
    BY <2>1, <1>1, <1>3, <1>4, <1>5
<1>7. Cardinality(Units(r)) = Cardinality(Rest) + r[x]
  <2>1. Cardinality(Rest \cup Here(r))
           = Cardinality(Rest) + Cardinality(Here(r)) - Cardinality(Rest \cap Here(r))
    BY <1>3, <1>4, FS_Union
  <2>2. QED
    BY <2>1, <1>1, <1>3, <1>4, <1>5
<1>8. QED
  BY <1>3, <1>6, <1>7 DEF Total

\* A sum of nothing but zeros is zero.
LEMMA TotalZero ==
  ASSUME NEW S, NEW q \in [S -> Nat], \A x \in S : q[x] = 0
  PROVE Total(q) = 0
<1>1. Units(q) = {}
  <2>1. \A x \in S : 1 .. q[x] = {}
    OBVIOUS
  <2>2. QED
    BY <2>1 DEF Units
<1>2. QED
  BY <1>1, FS_EmptySet DEF Total

\* A sum with one term.
LEMMA TotalOne ==
  ASSUME NEW S, IsFiniteSet(S), NEW q \in [S -> Nat], NEW x \in S,
         \A y \in S \ {x} : q[y] = 0
  PROVE Total(q) = q[x]
<1> DEFINE r == [q EXCEPT ![x] = 0]
<1>1. r \in [S -> Nat] /\ \A y \in S \ {x} : r[y] = q[y]
  OBVIOUS
<1>2. r[x] = 0 /\ \A y \in S : r[y] = 0
  OBVIOUS
<1> HIDE DEF r
<1>3. Total(r) + q[x] = Total(q) + r[x]
  BY <1>1, TotalUpdate
<1>4. Total(r) = 0
  BY <1>1, <1>2, TotalZero
<1>5. Total(q) \in Nat
  BY TotalType
<1>6. QED
  BY <1>2, <1>3, <1>4, <1>5

\* A sum is not below two of its terms.
LEMMA TotalTwo ==
  ASSUME NEW S, IsFiniteSet(S), NEW q \in [S -> Nat], NEW x \in S, NEW y \in S, x # y
  PROVE q[x] + q[y] <= Total(q)
<1> DEFINE r == [q EXCEPT ![x] = 0]
           m == [z \in S |-> IF z = y THEN q[y] ELSE 0]
<1>1. r \in [S -> Nat] /\ (\A z \in S \ {x} : r[z] = q[z]) /\ r[x] = 0
  OBVIOUS
<1>2. m \in [S -> Nat] /\ (\A z \in S \ {y} : m[z] = 0) /\ m[y] = q[y] /\ \A z \in S : m[z] <= r[z]
  OBVIOUS
<1> HIDE DEF r, m
<1>3. Total(r) + q[x] = Total(q) + r[x]
  BY <1>1, TotalUpdate
<1>4. Total(m) = q[y]
  BY <1>2, TotalOne
<1>5. Total(m) <= Total(r)
  BY <1>1, <1>2, TotalMonotone
<1>6. Total(q) \in Nat /\ Total(r) \in Nat
  BY <1>1, TotalType
<1>7. QED
  BY <1>1, <1>3, <1>4, <1>5, <1>6

LEMMA TotalTerm ==
  ASSUME NEW S, IsFiniteSet(S), NEW q \in [S -> Nat], NEW x \in S
  PROVE q[x] <= Total(q)
<1> DEFINE m == [z \in S |-> IF z = x THEN q[x] ELSE 0]
<1>1. m \in [S -> Nat] /\ (\A z \in S \ {x} : m[z] = 0) /\ m[x] = q[x] /\ \A z \in S : m[z] <= q[z]
  OBVIOUS
<1> HIDE DEF m
<1>2. QED
  BY <1>1, TotalOne, TotalMonotone

\* One term changes freely and the others do not grow.
LEMMA TotalBound ==
  ASSUME NEW S, IsFiniteSet(S), NEW q \in [S -> Nat], NEW r \in [S -> Nat],
         NEW x \in S, \A y \in S \ {x} : r[y] <= q[y]
  PROVE Total(r) + q[x] <= Total(q) + r[x]
<1> DEFINE m == [q EXCEPT ![x] = r[x]]
<1>1. m \in [S -> Nat] /\ (\A y \in S \ {x} : m[y] = q[y]) /\ m[x] = r[x] /\ \A y \in S : r[y] <= m[y]
  OBVIOUS
<1> HIDE DEF m
<1>2. Total(m) + q[x] = Total(q) + m[x]
  BY <1>1, TotalUpdate
<1>3. Total(r) <= Total(m)
  BY <1>1, TotalMonotone
<1>4. Total(r) \in Nat /\ Total(m) \in Nat /\ Total(q) \in Nat /\ q[x] \in Nat /\ r[x] \in Nat
  BY <1>1, TotalType
<1>5. QED
  BY <1>1, <1>2, <1>3, <1>4
=============================================================================
