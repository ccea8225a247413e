-------------------------------- MODULE Sums --------------------------------
(***************************************************************************)
(* Induction over the naturals, and sums over finite sets, for the proofs  *)
(* about the allocators.  Induction is stated about sets, as the theorems  *)
(* of the library about operators are out of the provers' reach.           *)
(***************************************************************************)
EXTENDS Integers, FiniteSets, Functions, FiniteSetTheorems, WellFoundedInduction, TLAPS

LEMMA LeastNumber ==
  ASSUME NEW T, T \subseteq Nat, T # {}
  PROVE  \E m \in T : \A n \in T : m <= n
  <1>1. PICK m \in T : \A n \in T : ~(<<n, m>> \in OpToRel(<, Nat))
    BY NatLessThanWellFounded, WFMin
  <1>2. \A n \in T : <<n, m>> \in OpToRel(<, Nat) <=> n < m
    BY DEF OpToRel
  <1>3. \A n \in T : n \in Nat /\ m \in Nat /\ ~(n < m)
    BY <1>1, <1>2
  <1>4. QED  BY <1>3

LEMMA Induction ==
  ASSUME NEW S, 0 \in S, \A n \in Nat : n \in S => n + 1 \in S
  PROVE  \A n \in Nat : n \in S
  <1> SUFFICES ASSUME Nat \ S # {} PROVE FALSE
    OBVIOUS
  <1>1. PICK m \in Nat \ S : \A n \in Nat \ S : m <= n
    <2>1. Nat \ S \subseteq Nat  OBVIOUS
    <2>2. QED  BY <2>1, LeastNumber
  <1>2. m # 0 /\ m - 1 \in Nat /\ (m - 1) + 1 = m  BY <1>1
  <1>3. m - 1 \in S  BY <1>1, <1>2
  <1>4. QED  BY <1>1, <1>2, <1>3

-----------------------------------------------------------------------------
(* Sums *)

Pick(s) == CHOOSE x \in s : TRUE

\* g has the sums of f over the sets in C.
SumsOver(g, f, C) ==
  \A s \in C : g[s] = IF s = {} THEN 0 ELSE f[Pick(s)] + g[s \ {Pick(s)}]

\* g has the sums of f over the subsets of S.
Sums(g, f, S) == g = [s \in SUBSET S |-> g[s]] /\ SumsOver(g, f, SUBSET S)

Total(f, S) == (CHOOSE g : Sums(g, f, S))[S]

Small(S, n) == {s \in SUBSET S : Cardinality(s) <= n}

LEMMA Picked ==
  ASSUME NEW S, IsFiniteSet(S), NEW s \in SUBSET S
  PROVE  /\ Cardinality(s) \in Nat /\ (s = {} <=> Cardinality(s) = 0)
         /\ \A x \in s : s \ {x} \in SUBSET S /\ Cardinality(s \ {x}) = Cardinality(s) - 1
         /\ s # {} => Pick(s) \in s
  <1>1. IsFiniteSet(s)  BY FS_Subset
  <1>2. Cardinality(s) \in Nat /\ (s = {} <=> Cardinality(s) = 0)
    BY <1>1, FS_CardinalityType, FS_EmptySet
  <1>3. \A x \in s : s \ {x} \in SUBSET S /\ Cardinality(s \ {x}) = Cardinality(s) - 1
    <2>1. \A x \in s : Cardinality(s \ {x}) = Cardinality(s) - 1
      BY <1>1, FS_RemoveElement
    <2>2. QED  BY <2>1
  <1>4. s # {} => Pick(s) \in s
    <2>1. SUFFICES ASSUME s # {}  PROVE (CHOOSE x \in s : TRUE) \in s
      BY DEF Pick
    <2>2. \E x \in s : TRUE  BY <2>1
    <2>3. QED  BY <2>2
  <1>5. QED  BY <1>2, <1>3, <1>4

\* What holds of a set if it holds of those with an element less holds of all.
LEMMA SetInduction ==
  ASSUME NEW S, IsFiniteSet(S), NEW C,
         {} \in C,
         \A s \in SUBSET S : s # {} /\ (\A x \in s : s \ {x} \in C) => s \in C
  PROVE  \A s \in SUBSET S : s \in C
  <1> DEFINE N == {n \in Nat : \A s \in SUBSET S : Cardinality(s) <= n => s \in C}
  <1>0. \A s \in SUBSET S : Cardinality(s) \in Nat /\ (s = {} <=> Cardinality(s) = 0)
    BY Picked
  <1>1. 0 \in N
    <2>1. \A s \in SUBSET S : Cardinality(s) <= 0 => s = {}  BY <1>0
    <2>2. \A s \in SUBSET S : Cardinality(s) <= 0 => s \in C  BY <2>1
    <2>3. QED  BY <2>2
  <1>2. ASSUME NEW n \in Nat, n \in N  PROVE n + 1 \in N
    <2>1. ASSUME NEW s \in SUBSET S, Cardinality(s) <= n + 1, s # {}
          PROVE  s \in C
      <3>1. \A x \in s : s \ {x} \in SUBSET S /\ Cardinality(s \ {x}) = Cardinality(s) - 1
        BY Picked
      <3>2. \A x \in s : s \ {x} \in SUBSET S /\ Cardinality(s \ {x}) <= n
        BY <1>0, <2>1, <3>1
      <3>3. \A x \in s : s \ {x} \in C  BY <1>2, <3>2
      <3>4. QED  BY <2>1, <3>3
    <2>2. \A s \in SUBSET S : Cardinality(s) <= n + 1 => s \in C
      BY <2>1
    <2>3. QED  BY <2>2
  <1> HIDE DEF N
  <1>3. \A n \in Nat : n \in N  BY <1>1, <1>2, Induction
  <1>4. ASSUME NEW s \in SUBSET S  PROVE s \in C
    <2>1. Cardinality(s) \in Nat  BY Picked
    <2>2. Cardinality(s) \in N  BY <1>3, <2>1
    <2>3. QED  BY <2>1, <2>2 DEF N
  <1>5. QED  BY <1>4

LEMMA SumsExist ==
  ASSUME NEW S, IsFiniteSet(S), NEW f
  PROVE  \E g : Sums(g, f, S)
  <1> DEFINE N == {n \in Nat : \E g : g = [s \in SUBSET S |-> g[s]] /\ SumsOver(g, f, Small(S, n))}
  <1>1. 0 \in N
    <2> DEFINE g == [s \in SUBSET S |-> 0]
    <2>1. \A s \in Small(S, 0) : s = {}  BY Picked DEF Small
    <2>2. g = [s \in SUBSET S |-> g[s]] /\ SumsOver(g, f, Small(S, 0))
      BY <2>1 DEF SumsOver
    <2>3. QED  BY <2>2
  <1>2. ASSUME NEW n \in Nat, n \in N  PROVE n + 1 \in N
    <2>1. PICK g : g = [s \in SUBSET S |-> g[s]] /\ SumsOver(g, f, Small(S, n))
      BY <1>2
    <2> DEFINE h == [s \in SUBSET S |-> IF Cardinality(s) = n + 1
                                          THEN f[Pick(s)] + g[s \ {Pick(s)}] ELSE g[s]]
    <2>2. ASSUME NEW s \in Small(S, n + 1)
          PROVE  h[s] = IF s = {} THEN 0 ELSE f[Pick(s)] + h[s \ {Pick(s)}]
      <3>1. s \in SUBSET S /\ Cardinality(s) \in Nat /\ Cardinality(s) <= n + 1
        BY Picked DEF Small
      <3>2. s # {} => /\ s \ {Pick(s)} \in SUBSET S
                      /\ Cardinality(s \ {Pick(s)}) = Cardinality(s) - 1
        BY <3>1, Picked
      <3>3. s # {} => h[s \ {Pick(s)}] = g[s \ {Pick(s)}]
        BY <3>1, <3>2
      <3>4. CASE Cardinality(s) = n + 1
        <4>1. s # {}  BY <3>1, <3>4, Picked
        <4>2. h[s] = f[Pick(s)] + g[s \ {Pick(s)}]  BY <3>1, <3>4
        <4> HIDE DEF h
        <4>3. QED  BY <3>3, <4>1, <4>2
      <3>5. CASE Cardinality(s) # n + 1
        <4>1. s \in Small(S, n)  BY <3>1, <3>5 DEF Small
        <4>2. h[s] = g[s]  BY <3>1, <3>5
        <4> HIDE DEF h
        <4>3. QED  BY <2>1, <3>3, <4>1, <4>2 DEF SumsOver
      <3>6. QED  BY <3>4, <3>5
    <2>3. h = [s \in SUBSET S |-> h[s]]  OBVIOUS
    <2> HIDE DEF h
    <2>4. SumsOver(h, f, Small(S, n + 1))  BY <2>2 DEF SumsOver
    <2>5. QED  BY <2>3, <2>4
  <1> HIDE DEF N
  <1>3. \A n \in Nat : n \in N  BY <1>1, <1>2, Induction
  <1>4. Cardinality(S) \in Nat  BY FS_CardinalityType
  <1>5. PICK g : g = [s \in SUBSET S |-> g[s]] /\ SumsOver(g, f, Small(S, Cardinality(S)))
    BY <1>3, <1>4 DEF N
  <1>6. Small(S, Cardinality(S)) = SUBSET S
    BY FS_Subset DEF Small
  <1>7. QED  BY <1>5, <1>6 DEF Sums

LEMMA TotalDef ==
  ASSUME NEW S, IsFiniteSet(S), NEW f
  PROVE  \E g : Sums(g, f, S) /\ Total(f, S) = g[S]
  BY SumsExist DEF Total

LEMMA SumOf ==
  ASSUME NEW S, NEW f, NEW g, Sums(g, f, S), NEW s \in SUBSET S
  PROVE  g[s] = IF s = {} THEN 0 ELSE f[Pick(s)] + g[s \ {Pick(s)}]
  <1>1. SumsOver(g, f, SUBSET S)  BY DEF Sums
  <1>2. QED  BY <1>1 DEF SumsOver

\* Sums over common subsets agree.
LEMMA SumsAgree ==
  ASSUME NEW S, IsFiniteSet(S), NEW T, S \subseteq T, NEW f, NEW h,
         \A x \in S : f[x] = h[x],
         NEW a, Sums(a, f, S), NEW b, Sums(b, h, T)
  PROVE  \A s \in SUBSET S : a[s] = b[s]
  <1> DEFINE C == {s \in SUBSET S : a[s] = b[s]}
  <1>1. \A s \in SUBSET S : s \in SUBSET T  OBVIOUS
  <1>2. {} \in C  BY <1>1, SumOf
  <1>3. ASSUME NEW s \in SUBSET S, s # {}, \A x \in s : s \ {x} \in C
        PROVE  s \in C
    <2>1. Pick(s) \in s  BY <1>3 DEF Pick
    <2>2. /\ a[s] = f[Pick(s)] + a[s \ {Pick(s)}]
          /\ b[s] = h[Pick(s)] + b[s \ {Pick(s)}]
      BY <1>1, <1>3, SumOf
    <2>3. f[Pick(s)] = h[Pick(s)] /\ a[s \ {Pick(s)}] = b[s \ {Pick(s)}]
      BY <1>3, <2>1
    <2>4. QED  BY <2>2, <2>3
  <1> HIDE DEF C
  <1>4. \A s \in SUBSET S : s \in C  BY <1>2, <1>3, SetInduction
  <1>5. QED  BY <1>4 DEF C

\* The sums are integers, and any element may be added last.
LEMMA SumsInt ==
  ASSUME NEW S, IsFiniteSet(S), NEW f, \A x \in S : f[x] \in Int,
         NEW g, Sums(g, f, S)
  PROVE  \A s \in SUBSET S : g[s] \in Int
  <1> DEFINE C == {s \in SUBSET S : g[s] \in Int}
  <1>1. {} \in C
    <2>1. {} \in SUBSET S  OBVIOUS
    <2>2. g[{}] = 0  BY <2>1, SumOf
    <2>3. QED  BY <2>2
  <1>2. ASSUME NEW s \in SUBSET S, s # {}, \A x \in s : s \ {x} \in C
        PROVE  s \in C
    <2>1. Pick(s) \in s  BY <1>2 DEF Pick
    <2>2. g[s] = f[Pick(s)] + g[s \ {Pick(s)}]  BY <1>2, SumOf
    <2>3. f[Pick(s)] \in Int /\ g[s \ {Pick(s)}] \in Int  BY <1>2, <2>1
    <2>4. QED  BY <2>2, <2>3
  <1> HIDE DEF C
  <1>3. \A s \in SUBSET S : s \in C  BY <1>1, <1>2, SetInduction
  <1>4. QED  BY <1>3 DEF C

LEMMA SumsSplit ==
  ASSUME NEW S, IsFiniteSet(S), NEW f, \A x \in S : f[x] \in Int,
         NEW g, Sums(g, f, S), NEW t \in SUBSET S, NEW z \in t
  PROVE  g[t] = f[z] + g[t \ {z}]
  <1> DEFINE C == {s \in SUBSET S : \A x \in s : g[s] = f[x] + g[s \ {x}]}
  <1>1. {} \in C  OBVIOUS
  <1>2. ASSUME NEW s \in SUBSET S, s # {}, \A x \in s : s \ {x} \in C
        PROVE  s \in C
    <2> DEFINE y == Pick(s)
    <2>1. y \in s  BY <1>2 DEF Pick
    <2>2. g[s] = f[y] + g[s \ {y}]  BY <1>2, SumOf
    <2> HIDE DEF y
    <2>3. ASSUME NEW x \in s  PROVE g[s] = f[x] + g[s \ {x}]
      <3>1. CASE x = y  BY <2>2, <3>1
      <3>2. CASE x # y
        <4> DEFINE r == (s \ {y}) \ {x}
        <4>1. x \in s \ {y} /\ y \in s \ {x} /\ r = (s \ {x}) \ {y} /\ r \in SUBSET S
          BY <2>1, <3>2
        <4>2. s \ {x} \in C /\ s \ {y} \in C
          BY <1>2, <2>1
        <4> HIDE DEF r
        <4>3. g[s \ {x}] = f[y] + g[r]
          BY <4>1, <4>2
        <4>4. g[s \ {y}] = f[x] + g[r]
          BY <4>1, <4>2 DEF r
        <4>5. f[x] \in Int /\ f[y] \in Int /\ g[r] \in Int
          <5>1. x \in S /\ y \in S  BY <2>1
          <5>2. QED  BY <4>1, <5>1, SumsInt
        <4>6. QED  BY <2>2, <4>3, <4>4, <4>5
      <3>3. QED  BY <3>1, <3>2
    <2>4. QED  BY <2>3
  <1> HIDE DEF C
  <1>3. \A s \in SUBSET S : s \in C  BY <1>1, <1>2, SetInduction
  <1>4. t \in C  BY <1>3
  <1>5. QED  BY <1>4 DEF C

\* A sum with one element more.
LEMMA TotalAdd ==
  ASSUME NEW S, IsFiniteSet(S), NEW x \in S, NEW f, NEW h,
         \A y \in S : f[y] \in Int, \A y \in S \ {x} : h[y] = f[y]
  PROVE  /\ Total(f, S) = f[x] + Total(h, S \ {x})
         /\ Total(f, S) \in Int /\ Total(h, S \ {x}) \in Int
  <1> DEFINE T == S \ {x}
  <1>1. IsFiniteSet(T)  BY FS_Subset
  <1>2. PICK g : Sums(g, f, S) /\ Total(f, S) = g[S]  BY TotalDef
  <1>3. PICK k : Sums(k, h, T) /\ Total(h, T) = k[T]  BY <1>1, TotalDef
  <1>4. k[T] = g[T]
    <2>1. T \subseteq S /\ T \in SUBSET T  OBVIOUS
    <2>2. \A y \in T : h[y] = f[y]  OBVIOUS
    <2> HIDE DEF T
    <2>3. QED  BY <1>1, <1>2, <1>3, <2>1, <2>2, SumsAgree
  <1>5. g[S] = f[x] + g[T] /\ g[S] \in Int /\ g[T] \in Int
    <2>1. S \in SUBSET S /\ T \in SUBSET S  OBVIOUS
    <2>2. g[S] = f[x] + g[S \ {x}]
      BY <1>2, <2>1, SumsSplit
    <2>3. \A s \in SUBSET S : g[s] \in Int
      BY <1>2, SumsInt
    <2>4. QED  BY <2>1, <2>2, <2>3
  <1>6. QED  BY <1>2, <1>3, <1>4, <1>5

LEMMA TotalSame ==
  ASSUME NEW S, IsFiniteSet(S), NEW f, NEW h, \A y \in S : h[y] = f[y]
  PROVE  Total(f, S) = Total(h, S)
  <1>1. PICK g : Sums(g, f, S) /\ Total(f, S) = g[S]  BY TotalDef
  <1>2. PICK k : Sums(k, h, S) /\ Total(h, S) = k[S]  BY TotalDef
  <1>3. k[S] = g[S]
    <2>1. S \subseteq S /\ S \in SUBSET S  OBVIOUS
    <2>2. QED  BY <1>1, <1>2, <2>1, SumsAgree
  <1>4. QED  BY <1>1, <1>2, <1>3

LEMMA TotalNone ==
  ASSUME NEW f
  PROVE  Total(f, {}) = 0
  <1>1. IsFiniteSet({})  BY FS_EmptySet
  <1>2. PICK g : Sums(g, f, {}) /\ Total(f, {}) = g[{}]  BY <1>1, TotalDef
  <1>3. g[{}] = 0  BY <1>2, SumOf
  <1>4. QED  BY <1>2, <1>3

\* A sum of naturals is one.
LEMMA TotalNat ==
  ASSUME NEW S, IsFiniteSet(S), NEW f, \A x \in S : f[x] \in Nat
  PROVE  Total(f, S) \in Nat
  <1>1. PICK g : Sums(g, f, S) /\ Total(f, S) = g[S]
    BY TotalDef
  <1> DEFINE C == {s \in SUBSET S : g[s] \in Nat}
  <1>2. {} \in C
    <2>1. {} \in SUBSET S  OBVIOUS
    <2>2. g[{}] = 0  BY <1>1, <2>1, SumOf
    <2>3. QED  BY <2>2
  <1>3. ASSUME NEW s \in SUBSET S, s # {}, \A x \in s : s \ {x} \in C
        PROVE  s \in C
    <2>1. Pick(s) \in s  BY <1>3 DEF Pick
    <2>2. g[s] = f[Pick(s)] + g[s \ {Pick(s)}]
      <3>1. Sums(g, f, S) /\ s \in SUBSET S /\ s # {}  BY <1>1, <1>3
      <3> HIDE DEF C
      <3>2. g[s] = IF s = {} THEN 0 ELSE f[Pick(s)] + g[s \ {Pick(s)}]
        BY <3>1, SumOf
      <3>3. QED  BY <3>1, <3>2
    <2>3. f[Pick(s)] \in Nat /\ g[s \ {Pick(s)}] \in Nat  BY <1>3, <2>1
    <2>4. QED  BY <2>2, <2>3
  <1>4. S \in C
    <2> HIDE DEF C
    <2>1. \A s \in SUBSET S : s \in C  BY <1>2, <1>3, SetInduction
    <2>2. QED  BY <2>1
  <1>5. QED  BY <1>1, <1>4

LEMMA TotalZero ==
  ASSUME NEW S, IsFiniteSet(S), NEW f, \A x \in S : f[x] = 0
  PROVE  Total(f, S) = 0
  <1>1. PICK g : Sums(g, f, S) /\ Total(f, S) = g[S]
    BY TotalDef
  <1> DEFINE C == {s \in SUBSET S : g[s] = 0}
  <1>2. {} \in C
    <2>1. {} \in SUBSET S  OBVIOUS
    <2>2. g[{}] = 0  BY <1>1, <2>1, SumOf
    <2>3. QED  BY <2>2
  <1>3. ASSUME NEW s \in SUBSET S, s # {}, \A x \in s : s \ {x} \in C
        PROVE  s \in C
    <2>1. Pick(s) \in s  BY <1>3 DEF Pick
    <2>2. g[s] = f[Pick(s)] + g[s \ {Pick(s)}]
      <3>1. Sums(g, f, S) /\ s \in SUBSET S /\ s # {}  BY <1>1, <1>3
      <3> HIDE DEF C
      <3>2. g[s] = IF s = {} THEN 0 ELSE f[Pick(s)] + g[s \ {Pick(s)}]
        BY <3>1, SumOf
      <3>3. QED  BY <3>1, <3>2
    <2>3. f[Pick(s)] = 0 /\ g[s \ {Pick(s)}] = 0  BY <1>3, <2>1
    <2>4. QED  BY <2>2, <2>3
  <1>4. S \in C
    <2> HIDE DEF C
    <2>1. \A s \in SUBSET S : s \in C  BY <1>2, <1>3, SetInduction
    <2>2. QED  BY <2>1
  <1>5. QED  BY <1>1, <1>4

\* What the fold of the community modules computes.
LEMMA SumIsTotal ==
  ASSUME NEW S, IsFiniteSet(S), NEW f
  PROVE  SumFunctionOnSet(f, S) = Total(f, S)
  <1> DEFINE Rec(g) == [s \in SUBSET S |->
                          IF s = {} THEN 0
                          ELSE LET x == CHOOSE x \in s : TRUE IN f[x] + g[s \ {x}]]
             iter == CHOOSE g : g = Rec(g)
  <1>1. SumFunctionOnSet(f, S) = iter[S]
    BY DEF SumFunctionOnSet, FoldFunctionOnSet, MapThenFoldSet
  <1>2. PICK k : Sums(k, f, S) /\ Total(f, S) = k[S]
    BY TotalDef
  <1>3. k = Rec(k)
    <2>1. \A s \in SUBSET S :
            k[s] = IF s = {} THEN 0 ELSE f[Pick(s)] + k[s \ {Pick(s)}]
      BY <1>2, SumOf
    <2>2. k = [s \in SUBSET S |-> k[s]]
      BY <1>2 DEF Sums
    <2>3. QED  BY <2>1, <2>2 DEF Pick
  <1>4. iter = Rec(iter)
    <2> HIDE DEF Rec
    <2>1. QED  BY <1>3
  <1> HIDE DEF iter
  <1>5. Sums(iter, f, S)
    BY <1>4 DEF Sums, SumsOver, Pick
  <1>6. \A s \in SUBSET S : iter[s] = k[s]
    BY <1>2, <1>5, SumsAgree
  <1>7. QED  BY <1>1, <1>2, <1>6
=============================================================================
