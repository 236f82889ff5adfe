----------------------------- MODULE SumsProofs -----------------------------
(* Three facts about Total: it is a natural number, raising the members of T *)
(* by s raises it by s * |T|, and it is one member's part and that of the    *)
(* others.                                                                   *)
EXTENDS Sums, Functions, FiniteSetTheorems, TLAPS

\* A pair belongs to the units of f exactly when its number is below f[a].
LEMMA UnitsMember ==
  ASSUME NEW S, NEW f \in [S -> Nat], NEW u
  PROVE  u \in Units(f) <=>
           \E a \in S, k \in Nat : u = <<a, k>> /\ k < f[a]
<1>1. ASSUME u \in Units(f)
      PROVE  \E a \in S, k \in Nat : u = <<a, k>> /\ k < f[a]
  <2>1. PICK a \in S : u \in {a} \X (0 .. f[a] - 1)
    BY <1>1 DEF Units
  <2>2. PICK k \in 0 .. f[a] - 1 : u = <<a, k>>
    BY <2>1
  <2>3. f[a] \in Nat
    OBVIOUS
  <2> QED
    BY <2>2, <2>3
<1>2. ASSUME NEW a \in S, NEW k \in Nat, u = <<a, k>>, k < f[a]
      PROVE  u \in Units(f)
  <2>1. f[a] \in Nat
    OBVIOUS
  <2>2. u \in {a} \X (0 .. f[a] - 1)
    BY <1>2, <2>1
  <2> QED
    BY <2>2 DEF Units
<1> QED
  BY <1>1, <1>2

\* The sum over a finite set is a natural number.
LEMMA TotalType ==
  ASSUME NEW S, IsFiniteSet(S), NEW f \in [S -> Nat]
  PROVE  IsFiniteSet(Units(f)) /\ Total(f) \in Nat
<1> DEFINE Row(a) == {a} \X (0 .. f[a] - 1)
           Rows   == {Row(a) : a \in S}
           row    == [a \in S |-> Row(a)]
<1>1. \A a \in S : IsFiniteSet(Row(a))
  <2> TAKE a \in S
  <2>1. f[a] - 1 \in Int
    OBVIOUS
  <2>2. IsFiniteSet(0 .. f[a] - 1)
    BY <2>1, FS_Interval
  <2>3. IsFiniteSet({a})
    BY FS_Singleton
  <2> QED
    BY <2>2, <2>3, FS_Product
<1>2. row \in Surjection(S, Rows)
  BY DEF Surjection
<1>3. IsFiniteSet(Rows)
  BY <1>2, FS_Surjection
<1>4. IsFiniteSet(UNION Rows)
  BY <1>1, <1>3, FS_UNION
<1>5. Units(f) = UNION Rows
  BY DEF Units
<1> QED
  BY <1>4, <1>5, FS_CardinalityType DEF Total

\* Raising the members of T by s adds s for each of them.
THEOREM TotalRaise ==
  ASSUME NEW S, IsFiniteSet(S), NEW f \in [S -> Nat],
         NEW T \in SUBSET S, NEW s \in Nat
  PROVE  /\ Raise(f, T, s) \in [S -> Nat]
         /\ Total(Raise(f, T, s)) = Total(f) + s * Cardinality(T)
<1> DEFINE g     == Raise(f, T, s)
           Block == T \X (0 .. s - 1)
           up    == [u \in Block |-> <<u[1], f[u[1]] + u[2]>>]
           New   == {up[u] : u \in Block}
<1>1. g \in [S -> Nat]
  BY DEF Raise
<1>2. up \in Bijection(Block, New)
  <2>1. \A u \in Block : u[1] \in T /\ u[2] \in Nat /\ u = <<u[1], u[2]>>
                           /\ f[u[1]] \in Nat
    OBVIOUS
  <2>2. \A u, v \in Block : up[u] = up[v] => u = v
    <3> TAKE u, v \in Block
    <3> HAVE up[u] = up[v]
    <3>1. u[1] = v[1] /\ f[u[1]] + u[2] = f[v[1]] + v[2]
      OBVIOUS
    <3>2. u[2] = v[2]
      BY <2>1, <3>1
    <3> QED
      BY <2>1, <3>1, <3>2
  <2> HIDE DEF up
  <2>3. up \in [Block -> New]
    BY DEF up
  <2> QED
    BY <2>2, <2>3 DEF Bijection, Injection, IsInjective, Surjection, up
<1>3. IsFiniteSet(T)
  BY FS_Subset
<1>4. IsFiniteSet(Block) /\ Cardinality(Block) = Cardinality(T) * s
  <2>1. IsFiniteSet(0 .. s - 1) /\ Cardinality(0 .. s - 1) = s
    BY FS_Interval
  <2> QED
    BY <1>3, <2>1, FS_Product
<1>5. IsFiniteSet(New) /\ Cardinality(New) = Cardinality(Block)
  BY <1>2, <1>4, FS_Bijection DEF ExistsBijection
<1>6. Units(g) = Units(f) \cup New
  <2>1. ASSUME NEW w, w \in Units(g)  PROVE w \in Units(f) \cup New
    <3>1. PICK a \in S, k \in Nat : w = <<a, k>> /\ k < g[a]
      BY <1>1, <2>1, UnitsMember
    <3>2. CASE k < f[a]
      BY <3>1, <3>2, UnitsMember
    <3>3. CASE ~(k < f[a])
      <4>1. a \in T /\ k < f[a] + s /\ f[a] \in Nat
        BY <3>1, <3>3 DEF Raise
      <4>2. k - f[a] \in 0 .. s - 1 /\ f[a] + (k - f[a]) = k
        BY <3>3, <4>1
      <4>3. <<a, k - f[a]>> \in Block
        BY <4>1, <4>2
      <4>4. up[<<a, k - f[a]>>] = <<a, k>>
        BY <4>2, <4>3
      <4> QED
        BY <3>1, <4>3, <4>4
    <3> QED
      BY <3>2, <3>3
  <2>2. ASSUME NEW w, w \in Units(f)  PROVE w \in Units(g)
    <3>1. PICK a \in S, k \in Nat : w = <<a, k>> /\ k < f[a]
      BY <2>2, UnitsMember
    <3>2. k < g[a]
      BY <3>1 DEF Raise
    <3> QED
      BY <1>1, <3>1, <3>2, UnitsMember
  <2>3. ASSUME NEW w, w \in New  PROVE w \in Units(g)
    <3>1. PICK u \in Block : w = up[u]
      BY <2>3
    <3>2. u[1] \in T /\ u[2] \in 0 .. s - 1 /\ f[u[1]] \in Nat
      OBVIOUS
    <3>3. w = <<u[1], f[u[1]] + u[2]>>
      BY <3>1
    <3>4. f[u[1]] + u[2] \in Nat /\ f[u[1]] + u[2] < g[u[1]]
      BY <3>2 DEF Raise
    <3> HIDE DEF up, Block, g
    <3> QED
      BY <1>1, <3>2, <3>3, <3>4, UnitsMember
  <2> QED
    BY <2>1, <2>2, <2>3
<1>7. Units(f) \cap New = {}
  <2> SUFFICES ASSUME NEW w, w \in Units(f), w \in New  PROVE FALSE
    OBVIOUS
  <2>1. PICK a \in S, k \in Nat : w = <<a, k>> /\ k < f[a]
    BY UnitsMember
  <2>2. PICK u \in Block : w = <<u[1], f[u[1]] + u[2]>>
    OBVIOUS
  <2>3. u[1] = a /\ k = f[a] + u[2] /\ u[2] \in Nat /\ f[a] \in Nat
    BY <2>1, <2>2
  <2> QED
    BY <2>1, <2>3
<1>8. IsFiniteSet(Units(f)) /\ Total(f) \in Nat
  BY TotalType
<1>9. Cardinality(Units(f) \cup New)
        = Cardinality(Units(f)) + Cardinality(New) - Cardinality({})
  BY <1>5, <1>7, <1>8, FS_Union
<1>10. Cardinality({}) = 0 /\ Cardinality(T) \in Nat
  BY <1>3, FS_EmptySet, FS_CardinalityType
<1>11. Total(g) = Total(f) + Cardinality(T) * s
  <2>1. Cardinality(New) \in Nat
    BY <1>5, FS_CardinalityType
  <2> HIDE DEF g, New, Block
  <2> QED
    BY <1>4, <1>5, <1>6, <1>8, <1>9, <1>10, <2>1 DEF Total
<1>12. Cardinality(T) * s = s * Cardinality(T)
  BY <1>10
<1> QED
  BY <1>1, <1>11, <1>12

\* One member's part of a sum can be taken out of it.
THEOREM TotalApart ==
  ASSUME NEW S, IsFiniteSet(S), NEW f \in [S -> Nat], NEW k \in S
  PROVE  /\ Total([a \in S \ {k} |-> f[a]]) \in Nat
         /\ Total(f) = f[k] + Total([a \in S \ {k} |-> f[a]])
<1> DEFINE g == [a \in S \ {k} |-> f[a]]
           h == [a \in S |-> IF a = k THEN 0 ELSE f[a]]
<1>1. /\ g \in [S \ {k} -> Nat] /\ h \in [S -> Nat] /\ f[k] \in Nat
      /\ IsFiniteSet(S \ {k}) /\ IsFiniteSet({k}) /\ Cardinality({k}) = 1
  BY FS_RemoveElement, FS_Singleton
<1>2. Raise(h, {k}, f[k]) = f
  BY DEF Raise
<1>3. Units(h) = Units(g)
  <2>1. ASSUME NEW u, u \in Units(h)  PROVE u \in Units(g)
    <3>1. PICK a \in S, n \in Nat : u = <<a, n>> /\ n < h[a]
      BY <1>1, <2>1, UnitsMember
    <3>2. a \in S \ {k} /\ n < g[a]
      BY <3>1
    <3> HIDE DEF g
    <3> QED
      BY <1>1, <3>1, <3>2, UnitsMember
  <2>2. ASSUME NEW u, u \in Units(g)  PROVE u \in Units(h)
    <3>1. PICK a \in S \ {k}, n \in Nat : u = <<a, n>> /\ n < g[a]
      <4> HIDE DEF g
      <4> QED
        BY <1>1, <2>2, UnitsMember
    <3>2. a \in S /\ n < h[a]
      BY <3>1
    <3> HIDE DEF h
    <3> QED
      BY <1>1, <3>1, <3>2, UnitsMember
  <2> QED
    BY <2>1, <2>2
<1>4. Total(g) \in Nat
  <2> HIDE DEF g
  <2> QED
    BY <1>1, TotalType
<1>5. Total(f) = Total(h) + f[k] * 1
  <2> HIDE DEF h
  <2> QED
    BY <1>1, <1>2, TotalRaise
<1> HIDE DEF g, h
<1>6. Total(h) = Total(g)
  BY <1>3 DEF Total
<1>7. Total(f) = f[k] + Total(g)
  BY <1>1, <1>4, <1>5, <1>6
<1> QED
  BY <1>4, <1>7 DEF g
=============================================================================
