----------------------------- MODULE TotalsProof -----------------------------
(* What the rest of the proofs need of Total: it is a natural number, it is   *)
(* positive where some row is, it grows with its rows, a row can be taken out *)
(* of it, and it stays what it is when rows are renamed or put together.      *)
EXTENDS Totals, FunctionTheorems, FiniteSetTheorems, TLAPS

(* The units of finitely many rows are finitely many.                         *)
LEMMA UnitsFinite ==
  ASSUME NEW S, IsFiniteSet(S), NEW n, \A x \in S : n[x] \in Nat
  PROVE  IsFiniteSet(Units(n, S))
<1> DEFINE part == [x \in S |-> {x} \X (1 .. n[x])]
           parts == {{x} \X (1 .. n[x]) : x \in S}
<1>1. part \in Surjection(S, parts)
  BY DEF Surjection
<1>2. IsFiniteSet(parts)
  BY <1>1, FS_Surjection
<1>3. ASSUME NEW T \in parts
      PROVE  IsFiniteSet(T)
  <2>1. PICK x \in S : T = {x} \X (1 .. n[x])
    BY <1>3
  <2>2. IsFiniteSet({x})
    BY FS_Singleton
  <2>3. 1 \in Int /\ n[x] \in Int
    OBVIOUS
  <2>4. IsFiniteSet(1 .. n[x])
    BY <2>3, FS_Interval
  <2> QED
    BY <2>1, <2>2, <2>4, FS_Product
<1> QED
  BY <1>2, <1>3, FS_UNION DEF Units

LEMMA TotalNat ==
  ASSUME NEW S, IsFiniteSet(S), NEW n, \A x \in S : n[x] \in Nat
  PROVE  Total(n, S) \in Nat
  BY UnitsFinite, FS_CardinalityType DEF Total

(* A total is positive exactly when one of its rows is.                       *)
LEMMA TotalPositive ==
  ASSUME NEW S, IsFiniteSet(S), NEW n, \A x \in S : n[x] \in Nat
  PROVE  Total(n, S) > 0 <=> \E x \in S : n[x] > 0
<1>1. Total(n, S) = 0 <=> Units(n, S) = {}
  BY UnitsFinite, FS_EmptySet DEF Total
<1>2. ASSUME NEW x \in S, n[x] > 0
      PROVE  Units(n, S) # {}
  <2>1. 1 \in 1 .. n[x]
    BY <1>2
  <2>2. <<x, 1>> \in Units(n, S)
    BY <2>1 DEF Units
  <2> QED
    BY <2>2
<1>3. ASSUME Units(n, S) # {}
      PROVE  \E x \in S : n[x] > 0
  <2>1. PICK x \in S : (1 .. n[x]) # {}
    BY <1>3 DEF Units
  <2> QED
    BY <2>1
<1> QED
  BY <1>1, <1>2, <1>3, TotalNat

(* Rows that grow, and more of them, make no smaller a total.                 *)
LEMMA TotalMonotone ==
  ASSUME NEW S, NEW T, IsFiniteSet(T), S \subseteq T,
         NEW m, NEW n, \A x \in T : n[x] \in Nat,
         \A x \in S : m[x] \in Nat /\ m[x] <= n[x]
  PROVE  Total(m, S) <= Total(n, T)
<1>1. Units(m, S) \subseteq Units(n, T)
  <2>1. ASSUME NEW x \in S
        PROVE  {x} \X (1 .. m[x]) \subseteq {x} \X (1 .. n[x])
    BY <2>1
  <2> QED
    BY <2>1 DEF Units
<1> QED
  BY <1>1, UnitsFinite, FS_Subset DEF Total

LEMMA TotalSame ==
  ASSUME NEW S, NEW m, NEW n, \A x \in S : m[x] = n[x]
  PROVE  Total(m, S) = Total(n, S)
  BY DEF Total, Units

(* A row can be taken out of a total.                                         *)
LEMMA TotalSplit ==
  ASSUME NEW S, IsFiniteSet(S), NEW n, \A x \in S : n[x] \in Nat, NEW y \in S
  PROVE  Total(n, S) = Total(n, S \ {y}) + n[y]
<1> DEFINE row == {y} \X (1 .. n[y])
           rest == Units(n, S \ {y})
<1>1. Units(n, S) = rest \cup row
  BY DEF Units
<1>2. rest \cap row = {}
  BY DEF Units
<1>3. IsFiniteSet(row) /\ Cardinality(row) = n[y]
  <2>1. IsFiniteSet({y}) /\ Cardinality({y}) = 1
    BY FS_Singleton
  <2>2. 1 \in Int /\ n[y] \in Nat
    OBVIOUS
  <2>3. IsFiniteSet(1 .. n[y]) /\ Cardinality(1 .. n[y]) = n[y]
    BY <2>2, FS_Interval
  <2>4. IsFiniteSet(row) /\ Cardinality(row) = 1 * n[y]
    BY <2>1, <2>3, FS_Product
  <2> QED
    BY <2>2, <2>4
<1>4. IsFiniteSet(rest)
  BY FS_Subset, UnitsFinite
<1>5. Cardinality(rest \cup row) = Cardinality(rest) + n[y]
  <2> HIDE DEF rest, row
  <2>1. Cardinality(rest) \in Nat
    BY <1>4, FS_CardinalityType
  <2> QED
    BY <1>2, <1>3, <1>4, <2>1, FS_Union, FS_EmptySet
<1> QED
  BY <1>1, <1>5 DEF Total

(* A unit is a row and one of the numbers up to its count.                    *)
LEMMA UnitRow ==
  ASSUME NEW S, NEW n, NEW u
  PROVE  /\ u \in Units(n, S) <=> \E x \in S : \E i \in 1 .. n[x] : u = <<x, i>>
         /\ u \in Units(n, S) =>
              /\ u[1] \in S /\ u[2] \in 1 .. n[u[1]] /\ u = <<u[1], u[2]>>
<1>1. u \in Units(n, S) <=> \E x \in S : u \in {x} \X (1 .. n[x])
  BY DEF Units
<1>2. \A x : u \in {x} \X (1 .. n[x]) <=> \E i \in 1 .. n[x] : u = <<x, i>>
  OBVIOUS
<1> QED
  BY <1>1, <1>2

LEMMA DisjointUnion ==
  ASSUME NEW A, NEW B, IsFiniteSet(A), IsFiniteSet(B), A \cap B = {}
  PROVE  Cardinality(A \cup B) = Cardinality(A) + Cardinality(B)
<1>1. Cardinality(A \cup B) = Cardinality(A) + Cardinality(B) - Cardinality(A \cap B)
  BY FS_Union
<1>2. Cardinality(A) \in Nat /\ Cardinality(B) \in Nat
  BY FS_CardinalityType
<1>3. Cardinality(A \cap B) = 0
  BY FS_EmptySet
<1> QED
  BY <1>1, <1>2, <1>3

(* A sum needs only the rows that are not 0.                                  *)
LEMMA TotalSupport ==
  ASSUME NEW S, NEW T \in SUBSET S, NEW m, NEW n, \A x \in T : m[x] = n[x],
         \A x \in S \ T : m[x] = 0
  PROVE  Total(m, S) = Total(n, T)
<1>1. \A x \in S \ T : {x} \X (1 .. m[x]) = {}
  <2>1. 1 .. 0 = {}
    OBVIOUS
  <2> QED
    BY <2>1
<1>2. \A x \in T : {x} \X (1 .. m[x]) = {x} \X (1 .. n[x])
  OBVIOUS
<1>3. Units(m, S) = Units(n, T)
  BY <1>1, <1>2 DEF Units
<1> QED
  BY <1>3 DEF Total

(* Two sets of rows that have none in common.                                 *)
LEMMA TotalUnion ==
  ASSUME NEW S, NEW T, IsFiniteSet(S), IsFiniteSet(T), S \cap T = {}, NEW n,
         \A x \in S \cup T : n[x] \in Nat
  PROVE  Total(n, S \cup T) = Total(n, S) + Total(n, T)
<1> DEFINE A == Units(n, S)
           B == Units(n, T)
<1>1. IsFiniteSet(A) /\ IsFiniteSet(B)
  BY UnitsFinite
<1>2. A \cap B = {}
  BY UnitRow
<1>3. Units(n, S \cup T) = A \cup B
  BY DEF Units
<1> HIDE DEF A, B
<1>4. Cardinality(A \cup B) = Cardinality(A) + Cardinality(B)
  BY <1>1, <1>2, DisjointUnion
<1> QED
  BY <1>3, <1>4 DEF Total, A, B

(* Rows under other names.                                                    *)
LEMMA TotalReindex ==
  ASSUME NEW S, NEW T, IsFiniteSet(S), NEW g \in Bijection(S, T), NEW m, NEW n,
         \A x \in S : m[x] \in Nat /\ n[g[x]] = m[x]
  PROVE  Total(n, T) = Total(m, S)
<1> DEFINE A == Units(m, S)
           B == Units(n, T)
           f == [u \in A |-> <<g[u[1]], u[2]>>]
<1>1. g \in [S -> T] /\ (\A x, y \in S : g[x] = g[y] => x = y) /\ \A z \in T : \E x \in S : g[x] = z
  BY DEF Bijection, Injection, Surjection, IsInjective
<1>2. \A u \in A : f[u] \in B
  <2>1. ASSUME NEW u \in A
        PROVE  <<g[u[1]], u[2]>> \in B
    <3>1. u[1] \in S /\ u[2] \in 1 .. m[u[1]]
      BY UnitRow
    <3>2. g[u[1]] \in T /\ u[2] \in 1 .. n[g[u[1]]]
      BY <1>1, <3>1
    <3> QED
      BY <3>2, UnitRow
  <2> QED
    BY <2>1
<1>3. \A u, v \in A : f[u] = f[v] => u = v
  <2>1. ASSUME NEW u \in A, NEW v \in A, <<g[u[1]], u[2]>> = <<g[v[1]], v[2]>>
        PROVE  u = v
    <3>1. g[u[1]] = g[v[1]] /\ u[2] = v[2]
      BY <2>1
    <3>2. u[1] \in S /\ v[1] \in S /\ u = <<u[1], u[2]>> /\ v = <<v[1], v[2]>>
      BY UnitRow
    <3> QED
      BY <1>1, <3>1, <3>2
  <2> QED
    BY <2>1
<1>4. ASSUME NEW w \in B
      PROVE  \E u \in A : f[u] = w
  <2>1. w[1] \in T /\ w[2] \in 1 .. n[w[1]] /\ w = <<w[1], w[2]>>
    BY UnitRow
  <2>2. PICK x \in S : g[x] = w[1]
    BY <1>1, <2>1
  <2>3. <<x, w[2]>> \in A
    BY <2>1, <2>2, UnitRow
  <2>4. f[<<x, w[2]>>] = w
    BY <2>1, <2>2, <2>3
  <2> QED
    BY <2>3, <2>4
<1>5. IsFiniteSet(A)
  BY UnitsFinite
<1> HIDE DEF A, B
<1>6. f \in Bijection(A, B)
  BY <1>2, <1>3, <1>4 DEF Bijection, Injection, Surjection, IsInjective
<1> QED
  BY <1>5, <1>6, FS_Bijection DEF ExistsBijection, Total, A, B

(* Rows that are sums of rows.                                                *)
LEMMA TotalAdd ==
  ASSUME NEW S, IsFiniteSet(S), NEW a, NEW b, NEW m,
         \A x \in S : a[x] \in Nat /\ b[x] \in Nat /\ m[x] = a[x] + b[x]
  PROVE  Total(m, S) = Total(a, S) + Total(b, S)
<1> DEFINE A == Units(a, S)
           B == Units(b, S)
           M == Units(m, S)
           g == [u \in B |-> <<u[1], a[u[1]] + u[2]>>]
           C == M \ A
<1>1. IsFiniteSet(A) /\ IsFiniteSet(B)
  BY UnitsFinite
<1>2. A \subseteq M
  <2>1. ASSUME NEW u \in A PROVE u \in M
    <3>1. u[1] \in S /\ u[2] \in 1 .. a[u[1]] /\ u = <<u[1], u[2]>>
      BY UnitRow
    <3>2. u[2] \in 1 .. m[u[1]]
      BY <3>1
    <3> QED
      BY <3>1, <3>2, UnitRow
  <2> QED
    BY <2>1
<1>3. ASSUME NEW u \in B
      PROVE  <<u[1], a[u[1]] + u[2]>> \in C
  <2>1. u[1] \in S /\ u[2] \in 1 .. b[u[1]] /\ a[u[1]] \in Nat /\ b[u[1]] \in Nat
        /\ m[u[1]] = a[u[1]] + b[u[1]]
    BY UnitRow
  <2>2. a[u[1]] + u[2] \in 1 .. m[u[1]] /\ a[u[1]] + u[2] \notin 1 .. a[u[1]]
    BY <2>1
  <2>3. <<u[1], a[u[1]] + u[2]>> \in M
    BY <2>1, <2>2, UnitRow
  <2>4. <<u[1], a[u[1]] + u[2]>> \notin A
    BY <2>2, UnitRow
  <2> QED
    BY <2>3, <2>4
<1>4. \A u, v \in B : g[u] = g[v] => u = v
  <2>1. ASSUME NEW u \in B, NEW v \in B, <<u[1], a[u[1]] + u[2]>> = <<v[1], a[v[1]] + v[2]>>
        PROVE  u = v
    <3>1. u[1] = v[1] /\ a[u[1]] + u[2] = a[u[1]] + v[2]
      BY <2>1
    <3>2. u[1] \in S /\ u[2] \in 1 .. b[u[1]] /\ u = <<u[1], u[2]>>
          /\ v[2] \in 1 .. b[v[1]] /\ v = <<v[1], v[2]>>
      BY UnitRow
    <3>3. u[2] = v[2]
      BY <3>1, <3>2
    <3> QED
      BY <3>1, <3>2, <3>3
  <2> QED
    BY <2>1
<1>5. ASSUME NEW w \in C
      PROVE  \E u \in B : g[u] = w
  <2>1. w[1] \in S /\ w[2] \in 1 .. m[w[1]] /\ w = <<w[1], w[2]>>
    BY UnitRow
  <2>2. w[2] \notin 1 .. a[w[1]]
    BY <2>1, UnitRow
  <2>3. w[2] - a[w[1]] \in 1 .. b[w[1]] /\ a[w[1]] + (w[2] - a[w[1]]) = w[2]
    BY <2>1, <2>2
  <2>4. <<w[1], w[2] - a[w[1]]>> \in B
    BY <2>1, <2>3, UnitRow
  <2>5. g[<<w[1], w[2] - a[w[1]]>>] = w
    BY <2>1, <2>3, <2>4
  <2> QED
    BY <2>4, <2>5
<1>6. M = A \cup C /\ A \cap C = {}
  BY <1>2
<1> HIDE DEF A, B, C, M
<1>7. g \in Bijection(B, C)
  BY <1>3, <1>4, <1>5 DEF Bijection, Injection, Surjection, IsInjective
<1>8. IsFiniteSet(C) /\ Cardinality(C) = Cardinality(B)
  BY <1>1, <1>7, FS_Bijection DEF ExistsBijection
<1>9. Cardinality(M) = Cardinality(A) + Cardinality(B)
  BY <1>1, <1>6, <1>8, DisjointUnion
<1> QED
  BY <1>9 DEF Total, A, B, M

(* Rows that are put together into other rows.                                *)
LEMMA TotalGroups ==
  ASSUME NEW P, NEW C, IsFiniteSet(C), NEW g, NEW n, \A c \in C : g[c] \in P /\ n[c] \in Nat,
         NEW group, \A p \in P : \A c : c \in group[p] <=> c \in C /\ g[c] = p,
         NEW m, \A p \in P : m[p] = Total(n, group[p])
  PROVE  Total(m, P) = Total(n, C)
<1> DEFINE count == [p \in P |-> CHOOSE f : f \in Bijection(1 .. m[p], Units(n, group[p]))]
           M == Units(m, P)
           N == Units(n, C)
           h == [u \in M |-> count[u[1]][u[2]]]
<1>1. ASSUME NEW p \in P
      PROVE  count[p] \in Bijection(1 .. m[p], Units(n, group[p]))
  <2>1. IsFiniteSet(group[p])
    <3>1. group[p] \subseteq C
      OBVIOUS
    <3> QED
      BY <3>1, FS_Subset
  <2>2. \A c \in group[p] : n[c] \in Nat
    OBVIOUS
  <2>3. IsFiniteSet(Units(n, group[p]))
    BY <2>1, <2>2, UnitsFinite
  <2>4. m[p] = Cardinality(Units(n, group[p]))
    BY DEF Total
  <2>5. \E f : f \in Bijection(1 .. m[p], Units(n, group[p]))
    BY <2>3, <2>4, FS_CardinalityType DEF ExistsBijection
  <2> QED
    BY <2>5
<1>2. ASSUME NEW p \in P
      PROVE  /\ \A i \in 1 .. m[p] : count[p][i] \in N /\ g[count[p][i][1]] = p
             /\ \A i, j \in 1 .. m[p] : count[p][i] = count[p][j] => i = j
             /\ \A w \in N : g[w[1]] = p => \E i \in 1 .. m[p] : count[p][i] = w
  <2> DEFINE U == Units(n, group[p])
             k == count[p]
  <2>1. ASSUME NEW w
        PROVE  w \in U <=> w \in N /\ g[w[1]] = p
    <3>1. CASE w \in U
      <4>1. w[1] \in group[p] /\ w[2] \in 1 .. n[w[1]] /\ w = <<w[1], w[2]>>
        BY <3>1, UnitRow
      <4> QED
        BY <4>1, UnitRow
    <3>2. CASE w \in N /\ g[w[1]] = p
      <4>1. w[1] \in C /\ w[2] \in 1 .. n[w[1]] /\ w = <<w[1], w[2]>>
        BY <3>2, UnitRow
      <4>2. w[1] \in group[p]
        BY <3>2, <4>1
      <4> QED
        BY <4>1, <4>2, UnitRow
    <3> QED
      BY <3>1, <3>2
  <2>2. k \in Bijection(1 .. m[p], U)
    BY <1>1
  <2> HIDE DEF U, k, N
  <2>3. /\ \A i \in 1 .. m[p] : k[i] \in U
        /\ \A i, j \in 1 .. m[p] : k[i] = k[j] => i = j
        /\ \A w \in U : \E i \in 1 .. m[p] : k[i] = w
    BY <2>2 DEF Bijection, Injection, Surjection, IsInjective
  <2>4. /\ \A i \in 1 .. m[p] : k[i] \in N /\ g[k[i][1]] = p
        /\ \A i, j \in 1 .. m[p] : k[i] = k[j] => i = j
        /\ \A w \in N : g[w[1]] = p => \E i \in 1 .. m[p] : k[i] = w
    BY <2>1, <2>3
  <2> QED
    BY <2>4 DEF k
<1> HIDE DEF count
<1>3. \A u \in M : u[1] \in P /\ u[2] \in 1 .. m[u[1]] /\ u = <<u[1], u[2]>>
  BY UnitRow
<1>4. \A w \in N : w[1] \in C
  BY UnitRow
<1>5. \A p \in P : \A i \in 1 .. m[p] : <<p, i>> \in M
  BY UnitRow
<1>6. IsFiniteSet(N)
  BY UnitsFinite
<1> HIDE DEF M, N
<1>7. \A u \in M : h[u] \in N /\ g[h[u][1]] = u[1]
  BY <1>2, <1>3
<1>8. \A u, v \in M : h[u] = h[v] => u = v
  <2>1. ASSUME NEW u \in M, NEW v \in M, h[u] = h[v]
        PROVE  u = v
    <3>1. u[1] = v[1]
      BY <1>7, <2>1
    <3>2. count[u[1]][u[2]] = count[u[1]][v[2]]
      BY <2>1, <3>1
    <3>3. u[2] = v[2]
      BY <1>2, <1>3, <3>1, <3>2
    <3> QED
      BY <1>3, <3>1, <3>3
  <2> QED
    BY <2>1
<1>9. ASSUME NEW w \in N
      PROVE  \E u \in M : h[u] = w
  <2>1. g[w[1]] \in P
    BY <1>4
  <2>2. PICK i \in 1 .. m[g[w[1]]] : count[g[w[1]]][i] = w
    BY <1>2, <2>1
  <2>3. <<g[w[1]], i>> \in M
    BY <1>5, <2>1, <2>2
  <2>4. h[<<g[w[1]], i>>] = w
    BY <2>2, <2>3
  <2> QED
    BY <2>3, <2>4
<1> HIDE DEF h
<1>10. h \in Bijection(M, N)
  BY <1>7, <1>8, <1>9 DEF Bijection, Injection, Surjection, IsInjective, h
<1>11. ExistsBijection(M, N) /\ ExistsBijection(N, M)
  BY <1>10, Fun_ExistsBijSymmetric DEF ExistsBijection
<1> QED
  BY <1>6, <1>11, FS_Bijection DEF Total, M, N
=============================================================================
