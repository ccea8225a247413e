----------------------------- MODULE ListProofs -----------------------------
(***************************************************************************)
(* Proofs about list and slist for every finite set of objects, every set  *)
(* of values and every bound on their lengths: a call that starts from     *)
(* lists which are laid out as their contents say ends with such lists     *)
(* (ListKept, SListKept).                                                  *)
(*                                                                         *)
(* HoldsContent, EntriesOwned and BothWays are not inductive: they speak   *)
(* of what iterators find, and an iterator that goes wrong may find what   *)
(* it should by chance. What is inductive is Held: there is for each       *)
(* object a sequence of entries, its Path, whose links lead from head_ptr_ *)
(* through exactly these entries, with their values in order, to tail_ptr_ *)
(* and null; the paths have no entry in common, and what is allocated is   *)
(* what they have (Laid). An iterator that starts on a path can only       *)
(* follow it (WalkIsPath), so all three follow (ReadsContent, ReadsOwned,  *)
(* ReadsBothWays).                                                         *)
(*                                                                         *)
(* Each call is a path changed in one place: a new entry at its end        *)
(* (AppendPath) or its front (PrependPath), a part of it taken out         *)
(* (CutPath), one path moved to another object (StealHeld). A copy is one  *)
(* append after the other, over the values of its source (BuildsHeld), and *)
(* length_ and the count of the allocated entries follow the sum of the    *)
(* lengths (CountChange): what bounds the contents bounds the entries, so  *)
(* there is always a free one for the next call.                           *)
(*                                                                         *)
(* Walk and the copies are defined by recursive functions; they are shown  *)
(* here to follow their defining equations (WalksExist, BuildsExist), and  *)
(* what they compute by induction on the path.                             *)
(***************************************************************************)
EXTENDS ListObjects, Sums, SequenceTheorems

-----------------------------------------------------------------------------
(* Sequences *)

LEMMA SubSeqIs ==
  ASSUME NEW S, NEW s \in Seq(S), NEW i \in 1 .. Len(s) + 1, NEW j \in i - 1 .. Len(s)
  PROVE  /\ SubSeq(s, i, j) \in Seq(S) /\ Len(SubSeq(s, i, j)) = j - i + 1
         /\ \A k \in 1 .. j - i + 1 : SubSeq(s, i, j)[k] = s[i + k - 1]
  OBVIOUS

-----------------------------------------------------------------------------
(* Walks along the links *)

Nodes   == 1 .. 2 * MaxLen
Offset  == 0 .. 2 * MaxLen + 1
Budget  == 0 .. 2 * MaxLen + 1

LEMMA Numbers ==
  /\ 2 * MaxLen \in Nat
  /\ Linked!Null = 0 /\ Linked!MaxNode = 2 * MaxLen /\ Linked!Node = Nodes
  /\ Linked!Poison = 2 * MaxLen + 1
  <1>1. MaxLen \in Nat
    BY ContainerAssumption
  <1>2. QED
    BY <1>1 DEF Linked!Null, Linked!MaxNode, Linked!Node, Linked!Poison, Nodes

WalkBody(f, links, last, k, m) ==
  IF k = 0 \/ m \in {last, Linked!Null} THEN <<>>
  ELSE IF m = Linked!Poison THEN <<Linked!Poison>>
  ELSE <<m>> \o f[k - 1][links[m]]

WalkRow(f, links, last, k) == [m \in Offset |-> WalkBody(f, links, last, k, m)]

Walks(f, links, last) == f = [k \in Budget |-> WalkRow(f, links, last, k)]

LEMMA WalksExist ==
  ASSUME NEW links, NEW last
  PROVE  \E f : Walks(f, links, last)
  <1> DEFINE Until(f, n) == \A k \in Budget : k <= n => f[k] = WalkRow(f, links, last, k)
             N == {n \in Nat : \E f : f = [k \in Budget |-> f[k]] /\ Until(f, n)}
  <1>1. 0 \in N
    <2> DEFINE f == [k \in Budget |-> [m \in Offset |-> <<>>]]
    <2>1. f = [k \in Budget |-> f[k]]
      OBVIOUS
    <2>2. \A k \in Budget : k <= 0 => k = 0
      BY Numbers DEF Budget
    <2>3. 0 \in Budget => f[0] = [m \in Offset |-> <<>>]
      OBVIOUS
    <2> HIDE DEF f
    <2>4. [m \in Offset |-> <<>>] = WalkRow(f, links, last, 0)
      BY Zenon DEF WalkRow, WalkBody
    <2>5. Until(f, 0)
      BY <2>2, <2>3, <2>4
    <2>6. QED  BY <2>1, <2>5
  <1>2. ASSUME NEW n \in Nat, n \in N  PROVE n + 1 \in N
    <2>1. PICK f : f = [k \in Budget |-> f[k]] /\ Until(f, n)
      BY <1>2
    <2> DEFINE h == [k \in Budget |-> IF k = n + 1 THEN WalkRow(f, links, last, k) ELSE f[k]]
    <2>2. h = [k \in Budget |-> h[k]]
      OBVIOUS
    <2>3. \A k \in Budget : h[k] = IF k = n + 1 THEN WalkRow(f, links, last, k) ELSE f[k]
      OBVIOUS
    <2> HIDE DEF h
    <2>4. ASSUME NEW k \in Budget, k <= n + 1  PROVE h[k] = WalkRow(h, links, last, k)
      <3>1. k \in Nat /\ (k # 0 => k - 1 \in Budget /\ k - 1 # n + 1)
        BY <2>4, Numbers DEF Budget
      <3>2. k # 0 => h[k - 1] = f[k - 1]
        BY <2>3, <3>1
      <3>3. WalkRow(h, links, last, k) = WalkRow(f, links, last, k)
        BY <3>2 DEF WalkRow, WalkBody
      <3>4. k # n + 1 => k <= n
        BY <2>4, <3>1
      <3>5. k # n + 1 => f[k] = WalkRow(f, links, last, k)
        BY <2>1, <3>4
      <3>6. QED  BY <2>3, <3>3, <3>5
    <2>5. QED  BY <2>2, <2>4
  <1>3. \A n \in Nat : n \in N
    <2> HIDE DEF N
    <2>1. QED  BY <1>1, <1>2, Induction
  <1>4. 2 * MaxLen + 1 \in N
    BY <1>3, Numbers
  <1>5. PICK f : f = [k \in Budget |-> f[k]] /\ Until(f, 2 * MaxLen + 1)
    BY <1>4
  <1>6. \A k \in Budget : f[k] = WalkRow(f, links, last, k)
    BY <1>5, Numbers DEF Budget
  <1>7. QED  BY <1>5, <1>6 DEF Walks

LEMMA WalkDef ==
  ASSUME NEW links, NEW n, NEW last
  PROVE  \E f : /\ Walks(f, links, last)
                /\ Linked!Walk(links, n, last) = f[2 * MaxLen + 1][n]
  <1> DEFINE Rec(f) == [k \in 0 .. Linked!MaxNode + 1 |->
                          [m \in 0 .. Linked!Poison |->
                             IF k = 0 \/ m \in {last, Linked!Null} THEN <<>>
                             ELSE IF m = Linked!Poison THEN <<Linked!Poison>>
                             ELSE <<m>> \o f[k - 1][links[m]]]]
             from == CHOOSE f : f = Rec(f)
  <1>1. Linked!Walk(links, n, last) = from[Linked!MaxNode + 1][n]
    BY DEF Linked!Walk
  <1>2. \A f : Rec(f) = [k \in Budget |-> WalkRow(f, links, last, k)]
    BY Numbers DEF WalkRow, WalkBody, Budget, Offset
  <1>3. \E f : f = Rec(f)
    <2> HIDE DEF Rec
    <2>1. PICK f : Walks(f, links, last)
      BY WalksExist
    <2>2. f = Rec(f)
      BY <1>2, <2>1 DEF Walks
    <2>3. QED  BY <2>2
  <1>4. from = Rec(from)
    <2> HIDE DEF Rec
    <2>1. QED  BY <1>3
  <1> HIDE DEF from
  <1>5. Walks(from, links, last)
    BY <1>2, <1>4 DEF Walks
  <1>6. QED  BY <1>1, <1>5, Numbers

\* The links lead from every entry of q to the next one, and from the last one
\* to stop, where a walk to last ends.
Chain(links, q, last, stop) ==
  /\ q \in Seq(Nodes) /\ Len(q) <= 2 * MaxLen /\ stop \in Offset
  /\ stop = last \/ stop = 0
  /\ \A i \in 1 .. Len(q) : q[i] # last
  /\ \A i \in 1 .. Len(q) : links[q[i]] = IF i = Len(q) THEN stop ELSE q[i + 1]

Starts(q, stop, n) == n = IF Len(q) = 0 THEN stop ELSE q[1]

LEMMA WalkIsPath ==
  ASSUME NEW links, NEW q, NEW last, NEW stop, Chain(links, q, last, stop),
         NEW n, Starts(q, stop, n)
  PROVE  Linked!Walk(links, n, last) = q
  <1> DEFINE at(i) == IF i = Len(q) + 1 THEN stop ELSE q[i]
  <1>1. /\ q \in Seq(Nodes) /\ Len(q) <= 2 * MaxLen /\ stop \in Offset
        /\ stop = last \/ stop = 0
        /\ \A i \in 1 .. Len(q) : q[i] # last
        /\ \A i \in 1 .. Len(q) : links[q[i]] = IF i = Len(q) THEN stop ELSE q[i + 1]
    BY DEF Chain
  <1>2. PICK f : /\ Walks(f, links, last)
                 /\ Linked!Walk(links, n, last) = f[2 * MaxLen + 1][n]
    BY WalkDef
  <1>3. /\ Len(q) \in Nat /\ (q = <<>> <=> Len(q) = 0)
        /\ \A i \in 1 .. Len(q) : q[i] \in Nodes
    BY <1>1
  <1>4. \A i \in 1 .. Len(q) : q[i] \in Offset /\ q[i] # 0 /\ q[i] # 2 * MaxLen + 1
    BY <1>3, Numbers DEF Nodes, Offset
  <1>5. \A k \in Budget, m \in Offset : f[k][m] = WalkBody(f, links, last, k, m)
    <2>1. \A k \in Budget : f[k] = WalkRow(f, links, last, k)
      BY Zenon, <1>2 DEF Walks
    <2>2. QED  BY Zenon, <2>1 DEF WalkRow
  <1> DEFINE T == {d \in Nat : d <= Len(q) => \A k \in Budget :
                     k >= d => f[k][at(Len(q) + 1 - d)] = SubSeq(q, Len(q) + 1 - d, Len(q))}
  <1>6. 0 \in T
    <2>1. \A k \in Budget : f[k][stop] = <<>>
      BY <1>1, <1>5, Numbers DEF WalkBody
    <2>2. at(Len(q) + 1 - 0) = stop
      BY <1>3
    <2>3. SubSeq(q, Len(q) + 1 - 0, Len(q)) = <<>>
      BY <1>1, <1>3, SubSeqEmpty
    <2> HIDE DEF at
    <2>4. QED  BY <2>1, <2>2, <2>3
  <1>7. ASSUME NEW d \in Nat, d \in T  PROVE d + 1 \in T
    <2> SUFFICES ASSUME d + 1 <= Len(q), NEW k \in Budget, k >= d + 1
                 PROVE  f[k][at(Len(q) - d)] = SubSeq(q, Len(q) - d, Len(q))
      <3> HIDE DEF at
      <3>1. Len(q) + 1 - (d + 1) = Len(q) - d
        BY <1>3
      <3>2. QED  BY <3>1
    <2> PICK i : i = Len(q) - d
      OBVIOUS
    <2>1. /\ i \in 1 .. Len(q) /\ i + 1 = Len(q) + 1 - d /\ at(i) = q[i]
          /\ k # 0 /\ k - 1 \in Budget /\ k - 1 >= d
      BY <1>3, Numbers DEF Budget
    <2>2. links[q[i]] = at(i + 1)
      BY <1>1, <1>3, <2>1
    <2>3. f[k - 1][at(i + 1)] = SubSeq(q, i + 1, Len(q))
      BY <1>7, <2>1
    <2> HIDE DEF at, T
    <2>4. f[k][q[i]] = <<q[i]>> \o f[k - 1][links[q[i]]]
      BY <1>1, <1>4, <1>5, <2>1, Numbers DEF WalkBody
    <2>5. <<q[i]>> \o SubSeq(q, i + 1, Len(q)) = SubSeq(q, i, Len(q))
      BY <1>1, <1>3, <2>1, SubSeqRecursiveFirst
    <2>6. QED  BY <2>1, <2>2, <2>3, <2>4, <2>5
  <1>8. Len(q) \in T
    <2> HIDE DEF T
    <2>1. \A d \in Nat : d \in T
      BY <1>6, <1>7, Induction
    <2>2. QED  BY <1>3, <2>1
  <1>9. f[2 * MaxLen + 1][at(1)] = SubSeq(q, 1, Len(q))
    <2>1. 2 * MaxLen + 1 \in Budget /\ 2 * MaxLen + 1 >= Len(q) /\ Len(q) + 1 - Len(q) = 1
      BY <1>1, <1>3, Numbers DEF Budget
    <2> HIDE DEF at
    <2>2. QED  BY <1>3, <1>8, <2>1
  <1>10. at(1) = n
    BY <1>3 DEF Starts
  <1> HIDE DEF at
  <1>11. QED  BY <1>1, <1>2, <1>9, <1>10, SubSeqFull

-----------------------------------------------------------------------------
(* What the objects hold together *)

Lens(c)  == [l \in Object |-> Len(c[l])]
Count(c) == Total(Lens(c), Object)

LEMMA SumIsCount ==
  ASSUME IsFiniteSet(Object), NEW c
  PROVE  MapThenSumSet(LAMBDA l : Len(c[l]), Object) = Count(c)
  <1> DEFINE Rec(g) == [s \in SUBSET Object |->
                          IF s = {} THEN 0
                          ELSE LET x == CHOOSE x \in s : TRUE IN Len(c[x]) + g[s \ {x}]]
             iter == CHOOSE g : g = Rec(g)
  <1>1. MapThenSumSet(LAMBDA l : Len(c[l]), Object) = iter[Object]
    BY DEF MapThenSumSet, MapThenFoldSet
  <1>2. PICK k : Sums(k, Lens(c), Object) /\ Total(Lens(c), Object) = k[Object]
    BY TotalDef
  <1>3. \A s \in SUBSET Object : s # {} => Pick(s) \in s /\ Lens(c)[Pick(s)] = Len(c[Pick(s)])
    BY DEF Pick, Lens
  <1>4. k = Rec(k)
    <2>1. \A s \in SUBSET Object :
            k[s] = IF s = {} THEN 0 ELSE Len(c[Pick(s)]) + k[s \ {Pick(s)}]
      <3>1. \A s \in SUBSET Object :
              k[s] = IF s = {} THEN 0 ELSE Lens(c)[Pick(s)] + k[s \ {Pick(s)}]
        BY <1>2, SumOf
      <3>2. QED  BY <1>3, <3>1
    <2>2. k = [s \in SUBSET Object |-> k[s]]
      BY <1>2 DEF Sums
    <2>3. QED  BY <2>1, <2>2 DEF Pick
  <1>5. iter = Rec(iter)
    <2> HIDE DEF Rec
    <2>1. QED  BY <1>4
  <1> HIDE DEF iter
  <1>6. Sums(iter, Lens(c), Object)
    <2>1. iter = [s \in SUBSET Object |-> iter[s]]
      BY <1>5
    <2>2. \A s \in SUBSET Object :
            iter[s] = IF s = {} THEN 0 ELSE Len(c[Pick(s)]) + iter[s \ {Pick(s)}]
      BY <1>5 DEF Pick
    <2>3. QED  BY <1>3, <2>1, <2>2 DEF Sums, SumsOver
  <1>7. \A s \in SUBSET Object : iter[s] = k[s]
    BY <1>2, <1>6, SumsAgree
  <1>8. QED  BY <1>1, <1>2, <1>7 DEF Count

LEMMA FitsIs ==
  ASSUME IsFiniteSet(Object), NEW c
  PROVE  Fits(c) <=> Count(c) <= MaxLen
  BY SumIsCount DEF Fits

\* One object gets another sequence.
LEMMA CountChange ==
  ASSUME IsFiniteSet(Object), NEW c, NEW d, NEW l \in Object,
         \A k \in Object : Len(c[k]) \in Nat /\ Len(d[k]) \in Nat,
         \A k \in Object \ {l} : c[k] = d[k]
  PROVE  /\ Count(c) \in Nat /\ Count(d) \in Nat
         /\ Len(c[l]) <= Count(c)
         /\ Count(d) = Count(c) - Len(c[l]) + Len(d[l])
  <1>1. /\ \A k \in Object : Lens(c)[k] \in Nat /\ Lens(d)[k] \in Nat
        /\ \A k \in Object \ {l} : Lens(d)[k] = Lens(c)[k]
        /\ Lens(c)[l] = Len(c[l]) /\ Lens(d)[l] = Len(d[l])
    BY DEF Lens
  <1>2. \A k \in Object : Lens(c)[k] \in Int /\ Lens(d)[k] \in Int
    BY <1>1
  <1>3. IsFiniteSet(Object \ {l})
    BY FS_Subset
  <1>4. Total(Lens(c), Object) = Lens(c)[l] + Total(Lens(d), Object \ {l})
    <2>1. (\A k \in Object : Lens(c)[k] \in Int) /\ IsFiniteSet(Object)
      BY <1>2
    <2>2. \A k \in Object \ {l} : Lens(d)[k] = Lens(c)[k]
      BY <1>1
    <2> PICK f, h : f = Lens(c) /\ h = Lens(d)
      OBVIOUS
    <2>3. QED  BY <2>1, <2>2, TotalAdd
  <1>5. Total(Lens(d), Object) = Lens(d)[l] + Total(Lens(d), Object \ {l})
    <2>1. \A k \in Object \ {l} : Lens(d)[k] = Lens(d)[k]
      OBVIOUS
    <2>2. QED  BY <1>2, <2>1, TotalAdd
  <1>6. Total(Lens(d), Object \ {l}) \in Nat
    BY <1>1, <1>3, TotalNat
  <1>7. PICK x, y, rest : x = Len(c[l]) /\ y = Len(d[l]) /\ rest = Total(Lens(d), Object \ {l})
    OBVIOUS
  <1>8. Count(c) = x + rest /\ Count(d) = y + rest
    BY <1>1, <1>4, <1>5, <1>7 DEF Count
  <1>9. x \in Nat /\ y \in Nat /\ rest \in Nat
    BY <1>6, <1>7
  <1>10. /\ Count(c) \in Nat /\ Count(d) \in Nat /\ x <= Count(c)
         /\ Count(d) = Count(c) - x + y
    BY <1>8, <1>9
  <1>11. QED  BY <1>7, <1>10

Seqs(c) == c = [k \in Object |-> c[k]] /\ \A k \in Object : Len(c[k]) \in Nat

LEMMA CountSet ==
  ASSUME IsFiniteSet(Object), NEW c, Seqs(c), NEW l \in Object, NEW s, Len(s) \in Nat
  PROVE  /\ Seqs([c EXCEPT ![l] = s]) /\ Count(c) \in Nat /\ Len(c[l]) <= Count(c)
         /\ Count([c EXCEPT ![l] = s]) = Count(c) - Len(c[l]) + Len(s)
  <1> DEFINE d == [c EXCEPT ![l] = s]
  <1>1. /\ d[l] = s /\ d = [k \in Object |-> d[k]]
        /\ \A k \in Object \ {l} : c[k] = d[k]
    BY DEF Seqs
  <1> HIDE DEF d
  <1>2. \A k \in Object : Len(c[k]) \in Nat /\ Len(d[k]) \in Nat
    BY <1>1 DEF Seqs
  <1>3. Seqs(d)
    BY <1>1, <1>2 DEF Seqs
  <1>4. /\ Count(c) \in Nat /\ Count(d) \in Nat
        /\ Len(c[l]) <= Count(c)
        /\ Count(d) = Count(c) - Len(c[l]) + Len(d[l])
    BY <1>1, <1>2, CountChange
  <1>5. QED  BY <1>1, <1>3, <1>4 DEF d

LEMMA CountNone ==
  ASSUME IsFiniteSet(Object), NEW c, \A k \in Object : Len(c[k]) = 0
  PROVE  Count(c) = 0
  BY TotalZero DEF Count, Lens

-----------------------------------------------------------------------------
(* Lists in the memory of their entries *)

Heaps == [next : [Nodes -> Offset], prior : [Nodes -> Offset],
          data : [Nodes -> Value \union {Linked!Poison}], used : SUBSET Nodes,
          head : [Object -> Offset], tail : [Object -> Offset], len : [Object -> Nat]]

Own(p) == {p[i] : i \in 1 .. Len(p)}

\* The object l of the heap h has the entries p, which hold s.
Path(h, l, p, s) ==
  /\ p \in Seq(Nodes) /\ s \in Seq(Value) /\ Len(p) = Len(s) /\ h.len[l] = Len(p)
  /\ \A i, j \in 1 .. Len(p) : p[i] = p[j] => i = j
  /\ \A i \in 1 .. Len(p) : h.data[p[i]] = s[i]
  /\ \A i \in 1 .. Len(p) : h.next[p[i]] = IF i = Len(p) THEN 0 ELSE p[i + 1]
  /\ kind = "list" => \A i \in 1 .. Len(p) : h.prior[p[i]] = IF i = 1 THEN 0 ELSE p[i - 1]
  /\ h.head[l] = IF Len(p) = 0 THEN 0 ELSE p[1]
  /\ h.tail[l] = IF Len(p) = 0 THEN 0 ELSE p[Len(p)]

\* Every object l has the entries P[l], and no other entry is allocated.
Laid(h, P, c) ==
  /\ h \in Heaps /\ P \in [Object -> Seq(Nodes)]
  /\ \A l \in Object : Path(h, l, P[l], c[l])
  /\ \A l, m \in Object : l # m => Own(P[l]) \cap Own(P[m]) = {}
  /\ h.used = UNION {Own(P[l]) : l \in Object}
  /\ Cardinality(h.used) = Count(c)

LEMMA Interval ==
  ASSUME NEW n \in Nat
  PROVE  IsFiniteSet(1 .. n) /\ Cardinality(1 .. n) = n
  <1>1. 1 \in Int /\ n \in Int
    OBVIOUS
  <1>2. IsFiniteSet(1 .. n) /\ Cardinality(1 .. n) = IF 1 > n THEN 0 ELSE n - 1 + 1
    BY <1>1, FS_Interval
  <1>3. QED  BY <1>2

LEMMA OwnCard ==
  ASSUME NEW p \in Seq(Nodes), \A i, j \in 1 .. Len(p) : p[i] = p[j] => i = j
  PROVE  IsFiniteSet(Own(p)) /\ Cardinality(Own(p)) = Len(p) /\ Own(p) \subseteq Nodes
  <1> DEFINE f == [i \in 1 .. Len(p) |-> p[i]]
  <1>1. Len(p) \in Nat /\ \A i \in 1 .. Len(p) : p[i] \in Nodes
    OBVIOUS
  <1>2. f \in Bijection(1 .. Len(p), Own(p))
    <2>1. f \in [1 .. Len(p) -> Own(p)]
      BY DEF Own
    <2>2. \A a, b \in 1 .. Len(p) : f[a] = f[b] => a = b
      OBVIOUS
    <2>3. \A t \in Own(p) : \E i \in 1 .. Len(p) : f[i] = t
      BY DEF Own
    <2> HIDE DEF f
    <2>4. QED  BY <2>1, <2>2, <2>3 DEF Bijection, Injection, Surjection, IsInjective
  <1>3. ExistsBijection(1 .. Len(p), Own(p))
    BY <1>2 DEF ExistsBijection
  <1>4. IsFiniteSet(1 .. Len(p)) /\ Cardinality(1 .. Len(p)) = Len(p)
    BY <1>1, Interval
  <1>5. IsFiniteSet(Own(p)) /\ Cardinality(Own(p)) = Len(p)
    BY <1>3, <1>4, FS_Bijection
  <1>6. QED  BY <1>1, <1>5 DEF Own

\* From h to e only the list l changes, whose entries were p and are q.
Touched(h, e, l, p, q) ==
  /\ e \in Heaps
  /\ \A k \in Object \ {l} :
       e.head[k] = h.head[k] /\ e.tail[k] = h.tail[k] /\ e.len[k] = h.len[k]
  /\ \A x \in h.used \ Own(p) :
       e.next[x] = h.next[x] /\ e.prior[x] = h.prior[x] /\ e.data[x] = h.data[x]
  /\ Own(q) \cap (h.used \ Own(p)) = {}
  /\ e.used = (h.used \ Own(p)) \union Own(q)

LEMMA Relaid ==
  ASSUME IsFiniteSet(Object), NEW h, NEW P, NEW c, Laid(h, P, c), c = [k \in Object |-> c[k]],
         NEW l \in Object, NEW e, NEW q, NEW s, Path(e, l, q, s), Touched(h, e, l, P[l], q)
  PROVE  Laid(e, [P EXCEPT ![l] = q], [c EXCEPT ![l] = s])
  <1> PICK Q : Q = [P EXCEPT ![l] = q]
    OBVIOUS
  <1> PICK d : d = [c EXCEPT ![l] = s]
    OBVIOUS
  <1>1. /\ e \in Heaps
        /\ \A k \in Object \ {l} :
             e.head[k] = h.head[k] /\ e.tail[k] = h.tail[k] /\ e.len[k] = h.len[k]
        /\ \A x \in h.used \ Own(P[l]) :
             e.next[x] = h.next[x] /\ e.prior[x] = h.prior[x] /\ e.data[x] = h.data[x]
        /\ Own(q) \cap (h.used \ Own(P[l])) = {}
        /\ e.used = (h.used \ Own(P[l])) \union Own(q)
    BY DEF Touched
  <1>2. /\ P \in [Object -> Seq(Nodes)] /\ q \in Seq(Nodes)
        /\ \A k \in Object : Path(h, k, P[k], c[k])
        /\ \A k, m \in Object : k # m => Own(P[k]) \cap Own(P[m]) = {}
        /\ h.used = UNION {Own(P[k]) : k \in Object}
        /\ Cardinality(h.used) = Count(c)
    BY DEF Laid, Path
  <1>3. /\ Q \in [Object -> Seq(Nodes)] /\ Q[l] = q /\ d[l] = s
        /\ \A k \in Object \ {l} : Q[k] = P[k] /\ d[k] = c[k]
    BY <1>2
  <1>4. \A k \in Object \ {l} : Own(P[k]) \subseteq h.used \ Own(P[l])
    BY <1>2
  <1>5. ASSUME NEW k \in Object \ {l}  PROVE Path(e, k, Q[k], d[k])
    <2> PICK p, t : p = P[k] /\ t = c[k]
      OBVIOUS
    <2>1. \A i \in 1 .. Len(p) : p[i] \in h.used \ Own(P[l])
      BY <1>4 DEF Own
    <2>2. \A i \in 1 .. Len(p) : /\ e.next[p[i]] = h.next[p[i]] /\ e.prior[p[i]] = h.prior[p[i]]
                                 /\ e.data[p[i]] = h.data[p[i]]
      BY <1>1, <2>1
    <2>3. Path(h, k, p, t)
      BY <1>2
    <2>4. Path(e, k, p, t)
      BY <1>1, <2>2, <2>3 DEF Path
    <2>5. QED  BY <1>3, <2>4
  <1>6. \A k \in Object : Path(e, k, Q[k], d[k])
    BY <1>3, <1>5
  <1>7. \A k, m \in Object : k # m => Own(Q[k]) \cap Own(Q[m]) = {}
    BY <1>1, <1>2, <1>3, <1>4
  <1>8. e.used = UNION {Own(Q[k]) : k \in Object}
    <2>1. h.used \ Own(P[l]) = UNION {Own(Q[k]) : k \in Object \ {l}}
      BY <1>2, <1>3
    <2>2. QED  BY <1>1, <1>3, <2>1
  <1>9. Cardinality(e.used) = Count(d)
    <2>1. IsFiniteSet(h.used) /\ Cardinality(h.used) \in Nat
      <3>1. h.used \subseteq Nodes
        BY DEF Laid, Heaps
      <3>2. IsFiniteSet(Nodes)
        BY Numbers, Interval DEF Nodes
      <3>3. IsFiniteSet(h.used)
        BY <3>1, <3>2, FS_Subset
      <3>4. QED  BY <3>3, FS_CardinalityType
    <2> PICK p, A : p = P[l] /\ A = h.used \ Own(p)
      OBVIOUS
    <2>2. Path(h, l, p, c[l])
      BY <1>2
    <2>3. IsFiniteSet(Own(p)) /\ Cardinality(Own(p)) = Len(p) /\ Len(p) = Len(c[l])
      BY <2>2, OwnCard DEF Path
    <2>4. IsFiniteSet(Own(q)) /\ Cardinality(Own(q)) = Len(q) /\ Len(q) = Len(s)
      BY OwnCard DEF Path
    <2>5. Cardinality(A) = Cardinality(h.used) - Len(p) /\ IsFiniteSet(A)
      <3>1. Own(p) \subseteq h.used /\ h.used \cap Own(p) = Own(p)
        BY <1>2
      <3>2. IsFiniteSet(A) /\ Cardinality(A) = Cardinality(h.used) - Cardinality(h.used \cap Own(p))
        BY <2>1, FS_Difference
      <3>3. QED  BY <2>3, <3>1, <3>2
    <2>6. Cardinality(e.used) = Cardinality(A) + Len(q)
      <3>1. Cardinality(A \union Own(q)) =
              Cardinality(A) + Cardinality(Own(q)) - Cardinality(A \cap Own(q))
        BY <2>4, <2>5, FS_Union
      <3>2. A \cap Own(q) = {} /\ e.used = A \union Own(q)
        BY <1>1
      <3>3. Cardinality(A \cap Own(q)) = 0
        BY <3>2, FS_EmptySet
      <3>4. Cardinality(A) \in Nat /\ Cardinality(Own(q)) \in Nat
        BY <2>4, <2>5, FS_CardinalityType
      <3>5. QED  BY <2>4, <3>1, <3>2, <3>3, <3>4
    <2>7. Count(d) = Count(c) - Len(c[l]) + Len(d[l]) /\ Count(c) \in Nat
      <3>1. Seqs(c)
        BY <1>2 DEF Path, Seqs
      <3>2. Len(s) \in Nat
        BY DEF Path
      <3>3. QED  BY <1>3, <3>1, <3>2, CountSet
    <2>8. Len(p) \in Nat /\ Len(q) \in Nat
      BY <2>2 DEF Path
    <2>9. QED  BY <1>2, <1>3, <2>3, <2>4, <2>5, <2>6, <2>7, <2>8
  <1>10. Laid(e, Q, d)
    BY <1>1, <1>3, <1>6, <1>7, <1>8, <1>9 DEF Laid
  <1>11. QED  BY <1>10

-----------------------------------------------------------------------------
(* A new entry at the end of a list *)

Appended(h, e, l, n, v) ==
  /\ e \in Heaps /\ n \in Nodes /\ n \notin h.used
  /\ e.used = h.used \union {n}
  /\ \A x \in Nodes :
       /\ e.data[x] = IF x = n THEN v ELSE h.data[x]
       /\ e.next[x] = IF x = n THEN 0 ELSE IF x = h.tail[l] THEN n ELSE h.next[x]
       /\ x # n => e.prior[x] = h.prior[x]
       /\ kind = "list" /\ x = n => e.prior[x] = h.tail[l]
  /\ \A k \in Object :
       /\ e.head[k] = IF k = l /\ h.len[l] = 0 THEN n ELSE h.head[k]
       /\ e.tail[k] = IF k = l THEN n ELSE h.tail[k]
       /\ e.len[k] = IF k = l THEN h.len[k] + 1 ELSE h.len[k]

LEMMA PathOwned ==
  ASSUME NEW h, NEW P, NEW c, Laid(h, P, c), NEW l \in Object, NEW p, p = P[l]
  PROVE  /\ Path(h, l, p, c[l]) /\ Own(p) \subseteq h.used /\ h.used \subseteq Nodes
         /\ Len(p) \in Nat /\ h.len[l] = Len(p) /\ Len(c[l]) = Len(p)
         /\ \A i \in 1 .. Len(p) : p[i] \in h.used /\ p[i] \in Nodes
         /\ Len(p) # 0 => h.tail[l] = p[Len(p)] /\ h.head[l] = p[1] /\ h.tail[l] \in Own(p)
         /\ Len(p) = 0 => h.tail[l] = 0 /\ h.head[l] = 0
  <1>1. /\ Path(h, l, p, c[l]) /\ h.used = UNION {Own(P[k]) : k \in Object}
        /\ h.used \subseteq Nodes
    BY DEF Laid, Heaps
  <1>2. Own(p) \subseteq h.used
    BY <1>1
  <1>3. /\ Len(p) \in Nat /\ h.len[l] = Len(p) /\ Len(c[l]) = Len(p)
        /\ h.head[l] = IF Len(p) = 0 THEN 0 ELSE p[1]
        /\ h.tail[l] = IF Len(p) = 0 THEN 0 ELSE p[Len(p)]
    BY <1>1 DEF Path
  <1>4. \A i \in 1 .. Len(p) : p[i] \in Own(p)
    BY DEF Own
  <1>5. QED  BY <1>1, <1>2, <1>3, <1>4

\* The entries of other lists are none of those of l.
LEMMA OthersApart ==
  ASSUME NEW h, NEW P, NEW c, Laid(h, P, c), NEW l \in Object
  PROVE  \A k \in Object \ {l} : \A i \in 1 .. Len(P[k]) : P[k][i] \notin Own(P[l])
  BY DEF Laid, Own

AppendsTo(h, e, l, n, v, p, s) ==
  /\ h \in Heaps /\ l \in Object /\ v \in Value
  /\ Path(h, l, p, s) /\ Own(p) \subseteq h.used /\ Appended(h, e, l, n, v)

LEMMA AppendPath ==
  ASSUME NEW h, NEW e, NEW l, NEW n, NEW v, NEW p, NEW s, AppendsTo(h, e, l, n, v, p, s)
  PROVE  /\ Path(e, l, Append(p, n), Append(s, v))
         /\ Own(Append(p, n)) = Own(p) \union {n}
  <1>1. /\ h \in Heaps /\ l \in Object /\ v \in Value
        /\ Path(h, l, p, s) /\ Own(p) \subseteq h.used /\ Appended(h, e, l, n, v)
    BY DEF AppendsTo
  <1> USE <1>1
  <1> DEFINE q == Append(p, n)
             r == Append(s, v)
  <1>2. /\ n \in Nodes /\ p \in Seq(Nodes) /\ s \in Seq(Value) /\ Len(p) = Len(s)
        /\ Len(p) \in Nat
    BY DEF Appended, Path
  <1>3. /\ q \in Seq(Nodes) /\ Len(q) = Len(p) + 1 /\ q[Len(p) + 1] = n
        /\ \A i \in 1 .. Len(p) : q[i] = p[i]
    BY <1>2, AppendProperties
  <1>4. /\ r \in Seq(Value) /\ Len(r) = Len(p) + 1 /\ r[Len(p) + 1] = v
        /\ \A i \in 1 .. Len(p) : r[i] = s[i]
    BY <1>2, AppendProperties
  <1> HIDE DEF q, r
  <1>5. \A i \in 1 .. Len(p) : p[i] \in Nodes /\ p[i] # n
    BY <1>2 DEF Own, Appended
  <1>6. h.len[l] = Len(p) /\ h.tail[l] = (IF Len(p) = 0 THEN 0 ELSE p[Len(p)])
        /\ h.head[l] = IF Len(p) = 0 THEN 0 ELSE p[1]
    BY DEF Path
  <1>7. \A i, j \in 1 .. Len(q) : q[i] = q[j] => i = j
    <2>1. \A i, j \in 1 .. Len(p) : p[i] = p[j] => i = j
      BY DEF Path
    <2>2. QED  BY <1>2, <1>3, <1>5, <2>1
  <1>8. \A i \in 1 .. Len(q) : e.data[q[i]] = r[i]
    <2>1. \A i \in 1 .. Len(p) : h.data[p[i]] = s[i]
      BY DEF Path
    <2>2. \A x \in Nodes : e.data[x] = IF x = n THEN v ELSE h.data[x]
      BY DEF Appended
    <2>3. QED  BY <1>2, <1>3, <1>4, <1>5, <2>1, <2>2
  <1>9. \A i \in 1 .. Len(q) : e.next[q[i]] = IF i = Len(q) THEN 0 ELSE q[i + 1]
    <2>1. \A i \in 1 .. Len(p) : h.next[p[i]] = IF i = Len(p) THEN 0 ELSE p[i + 1]
      BY DEF Path
    <2>2. \A x \in Nodes :
            e.next[x] = IF x = n THEN 0 ELSE IF x = h.tail[l] THEN n ELSE h.next[x]
      BY DEF Appended
    <2>3. \A i \in 1 .. Len(p) : (p[i] = h.tail[l] <=> i = Len(p))
      BY <1>2, <1>6 DEF Path
    <2>4. QED  BY <1>2, <1>3, <1>5, <2>1, <2>2, <2>3
  <1>10. kind = "list" =>
          \A i \in 1 .. Len(q) : e.prior[q[i]] = IF i = 1 THEN 0 ELSE q[i - 1]
    <2>1. kind = "list" =>
            \A i \in 1 .. Len(p) : h.prior[p[i]] = IF i = 1 THEN 0 ELSE p[i - 1]
      BY DEF Path
    <2>2. \A x \in Nodes : x # n => e.prior[x] = h.prior[x]
      BY DEF Appended
    <2>3. kind = "list" => e.prior[n] = h.tail[l]
      BY <1>2 DEF Appended
    <2>4. QED  BY <1>2, <1>3, <1>5, <1>6, <2>1, <2>2, <2>3
  <1>11. e.len[l] = Len(q) /\ e.tail[l] = n /\ e.head[l] = q[1]
    BY <1>2, <1>3, <1>6 DEF Appended
  <1>12. Path(e, l, q, r)
    BY <1>2, <1>3, <1>4, <1>7, <1>8, <1>9, <1>10, <1>11 DEF Path
  <1>13. Own(q) = Own(p) \union {n}
    BY <1>2, <1>3 DEF Own
  <1>14. QED  BY <1>12, <1>13 DEF q, r

\* The object l gets the value v at its end.
Pushed(c, l, v) == [c EXCEPT ![l] = Append(c[l], v)]

LEMMA AppendLaid ==
  ASSUME IsFiniteSet(Object), NEW h, NEW P, NEW c, Laid(h, P, c), c = [k \in Object |-> c[k]],
         NEW e, NEW l \in Object, NEW n, NEW v \in Value, Appended(h, e, l, n, v)
  PROVE  Laid(e, [P EXCEPT ![l] = Append(P[l], n)], Pushed(c, l, v))
  <1> PICK p : p = P[l]
    OBVIOUS
  <1> PICK q : q = Append(p, n)
    OBVIOUS
  <1>1. /\ h \in Heaps /\ Path(h, l, p, c[l]) /\ Own(p) \subseteq h.used /\ h.used \subseteq Nodes
        /\ h.tail[l] # 0 => h.tail[l] \in Own(p)
    <2>1. h \in Heaps
      BY DEF Laid
    <2>2. /\ Path(h, l, p, c[l]) /\ Own(p) \subseteq h.used /\ h.used \subseteq Nodes
          /\ Len(p) # 0 => h.tail[l] \in Own(p)
          /\ Len(p) = 0 => h.tail[l] = 0
      BY PathOwned
    <2>3. QED  BY <2>1, <2>2
  <1>2. Path(e, l, q, Append(c[l], v)) /\ Own(q) = Own(p) \union {n}
    <2>1. h \in Heaps /\ l \in Object /\ v \in Value /\ Appended(h, e, l, n, v)
      BY <1>1
    <2>2. PICK s : s = c[l]
      OBVIOUS
    <2>3. AppendsTo(h, e, l, n, v, p, s)
      BY <1>1, <2>2, <2>1 DEF AppendsTo
    <2>4. /\ Path(e, l, Append(p, n), Append(s, v))
          /\ Own(Append(p, n)) = Own(p) \union {n}
      BY <2>3, AppendPath
    <2>5. QED  BY <2>2, <2>4
  <1>3. e \in Heaps /\ n \notin h.used /\ e.used = h.used \union {n}
    BY DEF Appended
  <1>4. \A k \in Object \ {l} :
          e.head[k] = h.head[k] /\ e.tail[k] = h.tail[k] /\ e.len[k] = h.len[k]
    BY DEF Appended
  <1>5. \A x \in h.used \ Own(p) :
          e.next[x] = h.next[x] /\ e.prior[x] = h.prior[x] /\ e.data[x] = h.data[x]
    <2>1. \A x \in h.used \ Own(p) : x \in Nodes /\ x # n /\ x # h.tail[l] /\ x # 0
      BY <1>1, <1>3 DEF Nodes
    <2>2. QED  BY <2>1 DEF Appended
  <1>6. Own(q) \cap (h.used \ Own(p)) = {} /\ e.used = (h.used \ Own(p)) \union Own(q)
    BY <1>1, <1>2, <1>3
  <1>7. Laid(e, [P EXCEPT ![l] = q], [c EXCEPT ![l] = Append(c[l], v)])
    <2>1. Touched(h, e, l, P[l], q)
      BY <1>3, <1>4, <1>5, <1>6 DEF Touched
    <2>2. PICK r : r = Append(c[l], v)
      OBVIOUS
    <2>3. Path(e, l, q, r)
      BY <1>2, <2>2
    <2>4. QED  BY <2>1, <2>2, <2>3, Relaid
  <1>8. QED  BY <1>7 DEF Pushed

LEMMA FreshIs ==
  ASSUME NEW h, h.used \subseteq Nodes, Nodes \ h.used # {}
  PROVE  /\ Linked!Fresh(h) \in Nodes \ h.used
         /\ DList!Fresh(h) = Linked!Fresh(h) /\ SList!Fresh(h) = Linked!Fresh(h)
  <1>1. \E n \in Nodes \ h.used : \A m \in Nodes \ h.used : n <= m
    <2>1. Nodes \ h.used \subseteq Nat
      BY DEF Nodes
    <2>2. QED  BY <2>1, LeastNumber
  <1>2. Linked!Fresh(h) \in Nodes \ h.used
    BY <1>1, Numbers DEF Linked!Fresh
  <1>3. DList!Node = Linked!Node /\ SList!Node = Linked!Node
    BY DEF DList!Node, SList!Node, Linked!Node, DList!MaxNode, SList!MaxNode, Linked!MaxNode
  <1>4. QED
    BY <1>2, <1>3 DEF Linked!Fresh, DList!Fresh, SList!Fresh

\* The same numbers in every module of a kind.
LEMMA SameNumbers ==
  /\ DList!Null = 0 /\ DList!Node = Nodes /\ DList!Poison = Linked!Poison
  /\ SList!Null = 0 /\ SList!Node = Nodes /\ SList!Poison = Linked!Poison
  BY Numbers DEF DList!Null, DList!Node, DList!Poison, DList!MaxNode, SList!Null, SList!Node,
     SList!Poison, SList!MaxNode, Linked!Poison, Linked!MaxNode, Nodes

\* What a call may do to the heap: a new entry is taken.
Room(h, l) ==
  /\ h \in Heaps /\ Nodes \ h.used # {}
  /\ h.len[l] = 0 => h.tail[l] = 0
  /\ h.len[l] # 0 => h.tail[l] \in h.used /\ h.head[l] # 0

\* The fields of the lists.
Fields(nx, pr, da, us, hd, tl, ln) ==
  [next |-> nx, prior |-> pr, data |-> da, used |-> us, head |-> hd, tail |-> tl, len |-> ln]

LEMMA FieldsSet ==
  ASSUME NEW nx, NEW pr, NEW da, NEW us, NEW hd, NEW tl, NEW ln, NEW h,
         h = Fields(nx, pr, da, us, hd, tl, ln)
  PROVE  /\ h.next = nx /\ h.prior = pr /\ h.data = da /\ h.used = us
         /\ h.head = hd /\ h.tail = tl /\ h.len = ln
         /\ \A x : [h EXCEPT !.next = x] = Fields(x, pr, da, us, hd, tl, ln)
         /\ \A x : [h EXCEPT !.prior = x] = Fields(nx, x, da, us, hd, tl, ln)
         /\ \A x : [h EXCEPT !.head = x] = Fields(nx, pr, da, us, x, tl, ln)
         /\ \A x : [h EXCEPT !.tail = x] = Fields(nx, pr, da, us, hd, x, ln)
         /\ \A x : [h EXCEPT !.len = x] = Fields(nx, pr, da, us, hd, tl, x)
  BY DEF Fields

LEMMA FieldsHeap ==
  ASSUME NEW h, h \in Heaps
  PROVE  /\ h = Fields(h.next, h.prior, h.data, h.used, h.head, h.tail, h.len)
         /\ h.next \in [Nodes -> Offset] /\ h.prior \in [Nodes -> Offset]
         /\ h.data \in [Nodes -> Value \union {Linked!Poison}] /\ h.used \in SUBSET Nodes
         /\ h.head \in [Object -> Offset] /\ h.tail \in [Object -> Offset]
         /\ h.len \in [Object -> Nat]
  BY DEF Fields, Heaps

\* Four of them get other values.
FourSet(g, f, x, y, z, w) ==
  f = [g EXCEPT !.next = x, !.prior = y, !.head = z, !.tail = w]

LEMMA FourFields ==
  ASSUME NEW nx, NEW pr, NEW da, NEW us, NEW hd, NEW tl, NEW ln,
         NEW x, NEW y, NEW z, NEW w, NEW g, g = Fields(nx, pr, da, us, hd, tl, ln),
         NEW f, FourSet(g, f, x, y, z, w)
  PROVE  f = Fields(x, y, da, us, z, w, ln)
  <1>1. PICK a : a = [g EXCEPT !.next = x]
    OBVIOUS
  <1>2. a = Fields(x, pr, da, us, hd, tl, ln)
    BY <1>1 DEF Fields
  <1>3. PICK b : b = [a EXCEPT !.prior = y]
    OBVIOUS
  <1>4. b = Fields(x, y, da, us, hd, tl, ln)
    BY <1>2, <1>3 DEF Fields
  <1>5. PICK c : c = [b EXCEPT !.head = z]
    OBVIOUS
  <1>6. c = Fields(x, y, da, us, z, tl, ln)
    BY <1>4, <1>5 DEF Fields
  <1>7. [c EXCEPT !.tail = w] = Fields(x, y, da, us, z, w, ln)
    BY <1>6 DEF Fields
  <1>8. f = [c EXCEPT !.tail = w]
    BY <1>1, <1>3, <1>5 DEF FourSet
  <1>9. QED  BY <1>7, <1>8

LEMMA ListAppends ==
  ASSUME NEW h, NEW l \in Object, Room(h, l), NEW v \in Value
  PROVE  Appended(h, DList!Emplace(h, l, 0, v), l, Linked!Fresh(h), v)
  <1> PICK n : n = Linked!Fresh(h)
    OBVIOUS
  <1> PICK g : g = DList!Create(h, v)
    OBVIOUS
  <1> PICK e : e = DList!Emplace(h, l, 0, v)
    OBVIOUS
  <1>1. h \in Heaps /\ n \in Nodes /\ n \notin h.used /\ DList!Fresh(h) = n
    BY FreshIs DEF Room, Heaps
  <1>2. n \in Offset /\ 0 \in Offset
    BY <1>1, Numbers DEF Nodes, Offset
  <1>3. /\ g \in Heaps /\ g.used = h.used \union {n} /\ g.data = [h.data EXCEPT ![n] = v]
        /\ g.next = h.next /\ g.prior = h.prior /\ g.head = h.head /\ g.tail = h.tail
        /\ g.len = h.len
    BY <1>1 DEF DList!Create, Heaps
  <1>4. CASE h.len[l] = 0
    <2>1. e = [DList!EmplaceFirst(g, l, n) EXCEPT !.len[l] = @ + 1]
      BY Zenon, <1>1, <1>4 DEF DList!Emplace
    <2>2. e = [next |-> [g.next EXCEPT ![n] = 0], prior |-> [g.prior EXCEPT ![n] = 0],
               data |-> g.data, used |-> g.used, head |-> [g.head EXCEPT ![l] = n],
               tail |-> [g.tail EXCEPT ![l] = n], len |-> [g.len EXCEPT ![l] = @ + 1]]
      <3>1. PICK nx, pr, da, us, hd, tl, ln :
              /\ nx = g.next /\ pr = g.prior /\ da = g.data /\ us = g.used
              /\ hd = g.head /\ tl = g.tail /\ ln = g.len
        OBVIOUS
      <3>2. g = Fields(nx, pr, da, us, hd, tl, ln)
        BY <1>3, <3>1, FieldsHeap
      <3>3. PICK x, y, z, w, k : /\ x = [nx EXCEPT ![n] = 0] /\ y = [pr EXCEPT ![n] = 0]
                                 /\ z = [hd EXCEPT ![l] = n] /\ w = [tl EXCEPT ![l] = n]
                                 /\ k = [ln EXCEPT ![l] = @ + 1]
        OBVIOUS
      <3>4. DList!EmplaceFirst(g, l, n) =
              [g EXCEPT !.next = x, !.prior = y, !.head = z, !.tail = w]
        BY <3>1, <3>3, SameNumbers DEF DList!EmplaceFirst
      <3>5. PICK f : f = [g EXCEPT !.next = x, !.prior = y, !.head = z, !.tail = w]
        OBVIOUS
      <3>6. f = Fields(x, y, da, us, z, w, ln)
        <4>1. FourSet(g, f, x, y, z, w)
          BY <3>5 DEF FourSet
        <4>2. QED  BY <3>2, <4>1, FourFields
      <3>7. f.len = ln /\ e = [f EXCEPT !.len = k]
        <4>1. f.len = ln
          BY <3>6, FieldsSet
        <4>2. e = [f EXCEPT !.len[l] = @ + 1]
          BY <2>1, <3>4, <3>5
        <4>3. QED  BY <3>3, <4>1, <4>2
      <3>8. e = Fields(x, y, da, us, z, w, k)
        BY <3>6, <3>7, FieldsSet
      <3>9. QED  BY Zenon, <3>1, <3>3, <3>8 DEF Fields
    <2>3. e \in Heaps
      BY <1>1, <1>2, <1>3, <2>2 DEF Heaps
    <2>4. h.tail[l] = 0 /\ 0 \notin Nodes
      BY <1>4 DEF Room, Nodes
    <2>5. QED  BY <1>1, <1>3, <1>4, <2>2, <2>4, <2>3 DEF Appended, Heaps
  <1>5. CASE h.len[l] # 0
    <2>1. e = [DList!EmplaceEnd(g, l, n) EXCEPT !.len[l] = @ + 1]
      BY Zenon, <1>1, <1>5, SameNumbers DEF DList!Emplace
    <2>2. h.tail[l] \in Nodes /\ h.tail[l] # n
      BY <1>1, <1>5 DEF Room, Heaps
    <2> PICK f : f = [[g.next EXCEPT ![n] = 0] EXCEPT ![g.tail[l]] = n]
      OBVIOUS
    <2> PICK k : k = DList!EmplaceEnd(g, l, n)
      OBVIOUS
    <2>3. k = [next |-> f, prior |-> [g.prior EXCEPT ![n] = g.tail[l]],
               data |-> g.data, used |-> g.used, head |-> g.head,
               tail |-> [g.tail EXCEPT ![l] = n], len |-> g.len]
      <3>1. g = [next |-> g.next, prior |-> g.prior, data |-> g.data, used |-> g.used,
                 head |-> g.head, tail |-> g.tail, len |-> g.len]
        BY <1>3 DEF Heaps
      <3>2. k = [g EXCEPT !.next = f, !.prior[n] = g.tail[l], !.tail[l] = n]
        BY SameNumbers DEF DList!EmplaceEnd
      <3>3. QED  BY <3>1, <3>2
    <2>4. e = [next |-> f, prior |-> [g.prior EXCEPT ![n] = g.tail[l]],
               data |-> g.data, used |-> g.used, head |-> g.head,
               tail |-> [g.tail EXCEPT ![l] = n], len |-> [g.len EXCEPT ![l] = @ + 1]]
      BY <2>1, <2>3
    <2>5. e \in Heaps
      BY <1>1, <1>2, <1>3, <2>2, <2>4 DEF Heaps
    <2>6. QED  BY <1>1, <1>3, <1>5, <2>2, <2>4, <2>5 DEF Appended, Heaps
  <1>6. QED  BY <1>4, <1>5

LEMMA SListAppends ==
  ASSUME NEW h, NEW l \in Object, Room(h, l), NEW v \in Value, kind # "list"
  PROVE  Appended(h, SList!Emplace(h, l, 0, v), l, Linked!Fresh(h), v)
  <1> PICK n : n = Linked!Fresh(h)
    OBVIOUS
  <1> PICK g : g = [SList!Create(h, v) EXCEPT !.len[l] = @ + 1]
    OBVIOUS
  <1> PICK e : e = SList!Emplace(h, l, 0, v)
    OBVIOUS
  <1>1. h \in Heaps /\ n \in Nodes /\ n \notin h.used /\ SList!Fresh(h) = n
    BY FreshIs DEF Room, Heaps
  <1>2. n \in Offset /\ 0 \in Offset
    BY <1>1, Numbers DEF Nodes, Offset
  <1> PICK d, k : d = [h.data EXCEPT ![n] = v] /\ k = [h.len EXCEPT ![l] = @ + 1]
    OBVIOUS
  <1>3. g = [next |-> h.next, prior |-> h.prior, data |-> d, used |-> h.used \union {n},
             head |-> h.head, tail |-> h.tail, len |-> k]
    <2>1. h = [next |-> h.next, prior |-> h.prior, data |-> h.data, used |-> h.used,
               head |-> h.head, tail |-> h.tail, len |-> h.len]
      BY <1>1 DEF Heaps
    <2>2. QED  BY <1>1, <2>1 DEF SList!Create
  <1>4. g = [next |-> g.next, prior |-> g.prior, data |-> g.data, used |-> g.used,
             head |-> g.head, tail |-> g.tail, len |-> g.len]
    BY <1>3
  <1>5. /\ g.next = h.next /\ g.prior = h.prior /\ g.data = d /\ g.used = h.used \union {n}
        /\ g.head = h.head /\ g.tail = h.tail /\ g.len = k
    BY <1>3
  <1>6. CASE h.len[l] = 0
    <2> PICK f : f = [h.next EXCEPT ![n] = 0]
      OBVIOUS
    <2>1. e = [g EXCEPT !.next[n] = 0, !.head[l] = n, !.tail[l] = n]
      BY Zenon, <1>1, <1>6, SameNumbers DEF SList!Emplace
    <2>2. e = [next |-> f, prior |-> h.prior, data |-> d, used |-> h.used \union {n},
               head |-> [h.head EXCEPT ![l] = n],
               tail |-> [h.tail EXCEPT ![l] = n], len |-> k]
      <3>1. e = [next |-> [g.next EXCEPT ![n] = 0], prior |-> g.prior, data |-> g.data,
                 used |-> g.used, head |-> [g.head EXCEPT ![l] = n],
                 tail |-> [g.tail EXCEPT ![l] = n], len |-> g.len]
        BY <1>4, <2>1
      <3>2. QED  BY <1>5, <3>1
    <2>3. e \in Heaps
      BY <1>1, <1>2, <2>2 DEF Heaps
    <2>4. h.tail[l] = 0 /\ 0 \notin Nodes
      BY <1>6 DEF Room, Nodes
    <2>5. QED  BY <1>1, <1>6, <2>2, <2>4, <2>3 DEF Appended, Heaps
  <1>7. CASE h.len[l] # 0
    <2> PICK f : f = [[h.next EXCEPT ![n] = 0] EXCEPT ![h.tail[l]] = n]
      OBVIOUS
    <2>1. h.head[l] # 0 /\ g.next = h.next
      BY <1>3, <1>7 DEF Room
    <2>2. e = [g EXCEPT !.next = f, !.tail[l] = n]
      BY Zenon, <1>1, <1>7, <2>1, SameNumbers DEF SList!Emplace
    <2>3. h.tail[l] \in Nodes /\ h.tail[l] # n
      BY <1>1, <1>7 DEF Room, Heaps
    <2>4. e = [next |-> f, prior |-> h.prior, data |-> d, used |-> h.used \union {n},
               head |-> h.head, tail |-> [h.tail EXCEPT ![l] = n], len |-> k]
      <3>1. e = [next |-> f, prior |-> g.prior, data |-> g.data, used |-> g.used,
                 head |-> g.head, tail |-> [g.tail EXCEPT ![l] = n], len |-> g.len]
        BY <1>4, <2>2
      <3>2. QED  BY <1>5, <3>1
    <2>5. e \in Heaps
      BY <1>1, <1>2, <2>3, <2>4 DEF Heaps
    <2>6. QED  BY <1>1, <1>7, <2>3, <2>4, <2>5 DEF Appended, Heaps
  <1>8. QED  BY <1>6, <1>7

-----------------------------------------------------------------------------
(* A value at the end of an object, in every kind of list *)

\* The objects hold c, in entries of their own.
Held(h, c) == c = [k \in Object |-> c[k]] /\ \E P : Laid(h, P, c)

Step(h, l, v) == IF kind = "list" THEN DList!Emplace(h, l, 0, v) ELSE SList!Emplace(h, l, 0, v)

LEMMA HeldSeqs ==
  ASSUME NEW h, NEW c, Held(h, c)
  PROVE  Seqs(c) /\ h \in Heaps /\ c \in [Object -> Seq(Value)]
  <1>1. PICK P : Laid(h, P, c) /\ c = [k \in Object |-> c[k]]
    BY DEF Held
  <1>2. h \in Heaps /\ \A k \in Object : c[k] \in Seq(Value)
    BY <1>1 DEF Laid, Path
  <1>3. \A k \in Object : Len(c[k]) \in Nat
    BY <1>2
  <1>4. c \in [Object -> Seq(Value)]
    BY <1>1, <1>2
  <1>5. QED  BY <1>1, <1>2, <1>3, <1>4 DEF Seqs

LEMMA RoomIs ==
  ASSUME IsFiniteSet(Object), NEW h, NEW P, NEW c, Laid(h, P, c), c = [k \in Object |-> c[k]],
         Count(c) < 2 * MaxLen, NEW l \in Object
  PROVE  Room(h, l)
  <1>1. h \in Heaps /\ Cardinality(h.used) = Count(c)
    BY DEF Laid
  <1>2. Nodes \ h.used # {}
    <2>1. Cardinality(Nodes) = 2 * MaxLen
      BY Numbers, Interval DEF Nodes
    <2>2. 2 * MaxLen \in Nat /\ Count(c) \in Nat /\ Count(c) < 2 * MaxLen
      <3>1. Held(h, c)
        BY DEF Held
      <3>2. QED  BY <3>1, Numbers, HeldSeqs, CountSet DEF Seqs
    <2>3. h.used # Nodes
      BY <1>1, <2>1, <2>2
    <2>4. QED  BY <1>1, <2>3 DEF Heaps
  <1> PICK p : p = P[l]
    OBVIOUS
  <1>3. /\ Len(p) \in Nat /\ h.len[l] = Len(p) /\ Own(p) \subseteq h.used
        /\ \A i \in 1 .. Len(p) : p[i] \in Nodes
        /\ Len(p) # 0 => h.tail[l] = p[Len(p)] /\ h.head[l] = p[1] /\ h.tail[l] \in Own(p)
        /\ Len(p) = 0 => h.tail[l] = 0 /\ h.head[l] = 0
    BY PathOwned
  <1>4. Len(p) # 0 => h.head[l] # 0
    BY <1>3 DEF Nodes
  <1>5. QED  BY <1>1, <1>2, <1>3, <1>4 DEF Room

LEMMA StepHeld ==
  ASSUME IsFiniteSet(Object), NEW h, NEW c, Held(h, c), Count(c) < 2 * MaxLen,
         NEW l \in Object, NEW v \in Value
  PROVE  Held(Step(h, l, v), Pushed(c, l, v))
  <1>1. PICK P : Laid(h, P, c) /\ c = [k \in Object |-> c[k]]
    BY DEF Held
  <1> PICK n : n = Linked!Fresh(h)
    OBVIOUS
  <1> PICK e : e = Step(h, l, v)
    OBVIOUS
  <1>2. Room(h, l)
    BY <1>1, RoomIs
  <1>3. Appended(h, e, l, n, v)
    BY <1>2, ListAppends, SListAppends DEF Step
  <1>4. Laid(e, [P EXCEPT ![l] = Append(P[l], n)], Pushed(c, l, v))
    BY <1>1, <1>3, AppendLaid
  <1>5. Pushed(c, l, v) = [k \in Object |-> Pushed(c, l, v)[k]]
    BY <1>1 DEF Pushed
  <1>6. QED  BY <1>4, <1>5 DEF Held

-----------------------------------------------------------------------------
(* One value after the other at the end of an object *)

Top(T) == CHOOSE x \in T : \A y \in T : x >= y

LEMMA TopIs ==
  ASSUME NEW n \in Nat, NEW T \in SUBSET (1 .. n), T # {}
  PROVE  Top(T) \in T /\ \A y \in T : Top(T) >= y
  <1> DEFINE M == {n - y : y \in T}
  <1>1. \A y \in T : y \in Int /\ n - y \in Nat
    OBVIOUS
  <1>2. M \subseteq Nat /\ M # {}
    BY <1>1
  <1>3. PICK m \in M : \A k \in M : m <= k
    BY <1>2, LeastNumber
  <1>4. PICK x \in T : m = n - x
    BY <1>3
  <1>5. \A y \in T : x >= y
    <2>1. \A y \in T : n - x <= n - y /\ y \in Int /\ x \in Int
      BY <1>1, <1>3, <1>4
    <2>2. QED  BY <2>1
  <1>6. QED  BY <1>5 DEF Top

BuildAt(f, base, l, s, T) == IF T = {} THEN base ELSE Step(f[T \ {Top(T)}], l, s[Top(T)])

Builds(f, base, l, s) == f = [T \in SUBSET DOMAIN s |-> BuildAt(f, base, l, s, T)]

BuildsIn(f, base, l, s, C) == \A T \in C : f[T] = BuildAt(f, base, l, s, T)

LEMMA BuildsExist ==
  ASSUME NEW base, NEW l, NEW s \in Seq(Value)
  PROVE  \E f : Builds(f, base, l, s)
  <1> PICK S : S = DOMAIN s
    OBVIOUS
  <1>1. IsFiniteSet(S) /\ Len(s) \in Nat /\ S = 1 .. Len(s)
    BY Interval
  <1>2. \A T \in SUBSET S : T # {} => Top(T) \in T
    BY <1>1, TopIs
  <1> DEFINE N == {n \in Nat : \E f : /\ f = [T \in SUBSET S |-> f[T]]
                                      /\ BuildsIn(f, base, l, s, Small(S, n))}
  <1>3. 0 \in N
    <2> DEFINE f == [T \in SUBSET S |-> base]
    <2>1. \A T \in Small(S, 0) : T = {} /\ T \in SUBSET S
      BY <1>1, Picked DEF Small
    <2>2. f = [T \in SUBSET S |-> f[T]] /\ BuildsIn(f, base, l, s, Small(S, 0))
      BY <2>1 DEF BuildsIn, BuildAt
    <2>3. QED  BY <2>2
  <1>4. ASSUME NEW n \in Nat, n \in N  PROVE n + 1 \in N
    <2>1. PICK f : f = [T \in SUBSET S |-> f[T]] /\ BuildsIn(f, base, l, s, Small(S, n))
      BY <1>4
    <2> DEFINE h == [T \in SUBSET S |-> IF Cardinality(T) = n + 1
                                          THEN BuildAt(f, base, l, s, T) ELSE f[T]]
    <2>2. ASSUME NEW T \in Small(S, n + 1)
          PROVE  h[T] = BuildAt(h, base, l, s, T)
      <3>1. T \in SUBSET S /\ Cardinality(T) \in Nat /\ Cardinality(T) <= n + 1
        BY <1>1, Picked DEF Small
      <3>2. T # {} => /\ T \ {Top(T)} \in SUBSET S
                      /\ Cardinality(T \ {Top(T)}) = Cardinality(T) - 1
        BY <1>1, <1>2, <3>1, Picked
      <3>3. T # {} => h[T \ {Top(T)}] = f[T \ {Top(T)}]
        BY <3>1, <3>2
      <3>4. BuildAt(h, base, l, s, T) = BuildAt(f, base, l, s, T)
        <4> HIDE DEF h
        <4>1. QED  BY <3>3 DEF BuildAt
      <3>5. CASE Cardinality(T) = n + 1
        <4>1. h[T] = BuildAt(f, base, l, s, T)  BY <3>1, <3>5
        <4>2. QED  BY <3>4, <4>1
      <3>6. CASE Cardinality(T) # n + 1
        <4>1. T \in Small(S, n)  BY <3>1, <3>6 DEF Small
        <4>2. h[T] = f[T]  BY <3>1, <3>6
        <4>3. f[T] = BuildAt(f, base, l, s, T)
          BY <2>1, <4>1 DEF BuildsIn
        <4>4. QED  BY <3>4, <4>2, <4>3
      <3>7. QED  BY <3>5, <3>6
    <2>3. h = [T \in SUBSET S |-> h[T]]  OBVIOUS
    <2> HIDE DEF h
    <2>4. BuildsIn(h, base, l, s, Small(S, n + 1))  BY <2>2 DEF BuildsIn
    <2>5. QED  BY <2>3, <2>4
  <1> HIDE DEF N
  <1>5. \A n \in Nat : n \in N  BY <1>3, <1>4, Induction
  <1>6. Cardinality(S) \in Nat  BY <1>1, FS_CardinalityType
  <1>7. PICK f : f = [T \in SUBSET S |-> f[T]] /\ BuildsIn(f, base, l, s, Small(S, Cardinality(S)))
    BY <1>5, <1>6 DEF N
  <1>8. Small(S, Cardinality(S)) = SUBSET S
    BY <1>1, FS_Subset DEF Small
  <1>9. QED  BY <1>7, <1>8 DEF Builds, BuildsIn

LEMMA CopyIs ==
  ASSUME NEW h, NEW l, NEW m,
         Linked!Values(h, Linked!Forward(h, m)) \in Seq(Value)
  PROVE  \E f, s : /\ s = Linked!Values(h, Linked!Forward(h, m)) /\ Builds(f, h, l, s)
                   /\ kind = "list" => DList!CopyOf(h, l, m) = f[DOMAIN s]
                   /\ kind # "list" => SList!CopyOf(h, l, m) = f[DOMAIN s]
  <1> PICK s : s = Linked!Values(h, Linked!Forward(h, m))
    OBVIOUS
  <1> DEFINE Rec(f) == [T \in SUBSET DOMAIN s |-> BuildAt(f, h, l, s, T)]
             iter == CHOOSE f : f = Rec(f)
  <1>1. iter = Rec(iter)
    <2>1. PICK f : Builds(f, h, l, s)
      BY BuildsExist
    <2>2. f = Rec(f)
      BY <2>1 DEF Builds
    <2>3. \E g : g = Rec(g)
      BY <2>2
    <2> HIDE DEF Rec
    <2>4. QED  BY <2>3
  <1>2. Builds(iter, h, l, s)
    BY <1>1 DEF Builds
  <1>3. CASE kind = "list"
    <2> DEFINE Raw(f) == [T \in SUBSET DOMAIN s |->
                            IF T = {} THEN h
                            ELSE LET x == DList!Max(T)
                                 IN  DList!Emplace(f[T \ {x}], l, DList!Null, s[x])]
    <2>1. DList!Values(h, DList!Forward(h, m)) = s
      BY DEF DList!Values, DList!Forward, DList!Walk, Linked!Values, Linked!Forward, Linked!Walk,
         DList!Null, DList!Node, DList!Poison, DList!MaxNode,
         Linked!Null, Linked!Node, Linked!Poison, Linked!MaxNode
    <2>2. DList!CopyOf(h, l, m) = (CHOOSE f : f = Raw(f))[DOMAIN s]
      BY <2>1 DEF DList!CopyOf, DList!FoldLeft, DList!MapThenFoldSet
    <2>3. \A f : Raw(f) = Rec(f)
      BY <1>3, SameNumbers DEF BuildAt, Step, Top, DList!Max
    <2> HIDE DEF Raw, Rec
    <2>4. (CHOOSE f : f = Raw(f)) = iter
      BY <2>3
    <2> HIDE DEF iter
    <2>5. QED  BY <1>2, <1>3, <2>2, <2>4
  <1>4. CASE kind # "list"
    <2> DEFINE Raw(f) == [T \in SUBSET DOMAIN s |->
                            IF T = {} THEN h
                            ELSE LET x == SList!Max(T)
                                 IN  SList!Emplace(f[T \ {x}], l, SList!Null, s[x])]
    <2>1. SList!Values(h, SList!Forward(h, m)) = s
      BY DEF SList!Values, SList!Forward, SList!Walk, Linked!Values, Linked!Forward, Linked!Walk,
         SList!Null, SList!Node, SList!Poison, SList!MaxNode,
         Linked!Null, Linked!Node, Linked!Poison, Linked!MaxNode
    <2>2. SList!CopyOf(h, l, m) = (CHOOSE f : f = Raw(f))[DOMAIN s]
      BY <2>1 DEF SList!CopyOf, SList!FoldLeft, SList!MapThenFoldSet
    <2>3. \A f : Raw(f) = Rec(f)
      BY <1>4, SameNumbers DEF BuildAt, Step, Top, SList!Max
    <2> HIDE DEF Raw, Rec
    <2>4. (CHOOSE f : f = Raw(f)) = iter
      BY <2>3
    <2> HIDE DEF iter
    <2>5. QED  BY <1>2, <1>4, <2>2, <2>4
  <1>5. QED  BY <1>3, <1>4

LEMMA PrefixStep ==
  ASSUME NEW S, NEW s \in Seq(S), NEW i \in 0 .. Len(s) - 1
  PROVE  Append(SubSeq(s, 1, i), s[i + 1]) = SubSeq(s, 1, i + 1)
  <1>1. /\ SubSeq(s, 1, i) \in Seq(S) /\ Len(SubSeq(s, 1, i)) = i
        /\ \A k \in 1 .. i : SubSeq(s, 1, i)[k] = s[k]
    OBVIOUS
  <1>2. /\ SubSeq(s, 1, i + 1) \in Seq(S) /\ Len(SubSeq(s, 1, i + 1)) = i + 1
        /\ \A k \in 1 .. i + 1 : SubSeq(s, 1, i + 1)[k] = s[k]
    OBVIOUS
  <1> PICK a, b, x : a = SubSeq(s, 1, i) /\ b = SubSeq(s, 1, i + 1) /\ x = s[i + 1]
    OBVIOUS
  <1>3. x \in S
    OBVIOUS
  <1>4. /\ Append(a, x) \in Seq(S) /\ Len(Append(a, x)) = i + 1
        /\ \A k \in 1 .. i : Append(a, x)[k] = a[k]
        /\ Append(a, x)[i + 1] = x
    BY <1>1, <1>3, AppendProperties
  <1>5. \A k \in 1 .. i + 1 : Append(a, x)[k] = b[k]
    BY <1>1, <1>2, <1>4
  <1>6. Append(a, x) = b
    BY <1>2, <1>4, <1>5, SeqEqual
  <1>7. QED  BY <1>6

LEMMA BuildsHeld ==
  ASSUME IsFiniteSet(Object), NEW h, NEW c, Held(h, c), NEW l \in Object, c[l] = <<>>,
         NEW s \in Seq(Value), Count(c) + Len(s) <= 2 * MaxLen, NEW f, Builds(f, h, l, s)
  PROVE  Held(f[DOMAIN s], [c EXCEPT ![l] = s])
  <1> DEFINE At(i) == [c EXCEPT ![l] = SubSeq(s, 1, i)]
             N == {i \in Nat : i <= Len(s) => Held(f[1 .. i], At(i))}
  <1>1. Seqs(c) /\ Count(c) \in Nat /\ 2 * MaxLen \in Nat /\ Len(s) \in Nat /\ Len(c[l]) = 0
    BY HeldSeqs, Numbers, CountSet
  <1>2. 0 \in N
    <2>1. At(0) = c
      BY <1>1, SubSeqEmpty DEF Seqs
    <2>2. f[1 .. 0] = h
      BY DEF Builds, BuildAt
    <2>3. QED  BY <2>1, <2>2
  <1>3. ASSUME NEW i \in Nat, i \in N  PROVE i + 1 \in N
    <2>1. SUFFICES ASSUME i + 1 <= Len(s)  PROVE Held(f[1 .. i + 1], At(i + 1))
      OBVIOUS
    <2>2. Held(f[1 .. i], At(i))
      BY <1>1, <1>3, <2>1
    <2>3. f[1 .. i + 1] = Step(f[1 .. i], l, s[i + 1])
      <3>1. /\ 1 .. i + 1 \in SUBSET DOMAIN s /\ 1 .. i + 1 # {}
            /\ 1 .. i + 1 \in SUBSET (1 .. Len(s))
        <4>1. 1 \in 1 .. i + 1 /\ \A x \in 1 .. i + 1 : x \in 1 .. Len(s)
          BY <1>1, <2>1
        <4>2. DOMAIN s = 1 .. Len(s)
          OBVIOUS
        <4>3. QED  BY <4>1, <4>2
      <3>2. Top(1 .. i + 1) = i + 1
        <4>1. Top(1 .. i + 1) \in 1 .. i + 1 /\ \A y \in 1 .. i + 1 : Top(1 .. i + 1) >= y
          BY <1>1, <3>1, TopIs
        <4>2. QED  BY <4>1
      <3>3. (1 .. i + 1) \ {i + 1} = 1 .. i
        OBVIOUS
      <3>4. f[1 .. i + 1] = BuildAt(f, h, l, s, 1 .. i + 1)
        BY <3>1 DEF Builds
      <3>5. QED  BY <3>1, <3>2, <3>3, <3>4 DEF BuildAt
    <2>4. Len(SubSeq(s, 1, i)) = i /\ s[i + 1] \in Value
      BY <1>1, <2>1
    <2>5. Count(At(i)) = Count(c) + i
      <3> PICK t : t = SubSeq(s, 1, i)
        OBVIOUS
      <3>1. Seqs(c) /\ Len(t) \in Nat
        BY <1>1, <2>4
      <3>2. Count([c EXCEPT ![l] = t]) = Count(c) - Len(c[l]) + Len(t)
        BY <3>1, CountSet
      <3>3. PICK x, y : x = Count([c EXCEPT ![l] = t]) /\ y = Count(c)
        OBVIOUS
      <3>4. Len(c[l]) = 0 /\ Len(t) = i
        BY <1>1, <2>4
      <3>5. x = y - 0 + i /\ y \in Nat
        BY <1>1, <3>2, <3>3, <3>4
      <3>6. x = y + i
        BY <3>5
      <3>7. QED  BY <3>3, <3>6
    <2>6. At(i + 1) = Pushed(At(i), l, s[i + 1])
      <3>1. i \in 0 .. Len(s) - 1
        BY <1>1, <2>1
      <3>2. Append(SubSeq(s, 1, i), s[i + 1]) = SubSeq(s, 1, i + 1)
        BY <3>1, PrefixStep
      <3> PICK a, b : a = SubSeq(s, 1, i) /\ b = SubSeq(s, 1, i + 1)
        OBVIOUS
      <3>3. [c EXCEPT ![l] = b] = Pushed([c EXCEPT ![l] = a], l, s[i + 1])
        BY <1>1, <3>2 DEF Pushed, Seqs
      <3>4. QED  BY <3>3
    <2> HIDE DEF At
    <2>7. Count(At(i)) < 2 * MaxLen
      BY <1>1, <2>1, <2>5
    <2>8. Held(Step(f[1 .. i], l, s[i + 1]), Pushed(At(i), l, s[i + 1]))
      BY <2>2, <2>4, <2>7, StepHeld
    <2>9. QED  BY <2>3, <2>6, <2>8
  <1> HIDE DEF N
  <1>4. \A i \in Nat : i \in N
    BY <1>2, <1>3, Induction
  <1>5. Held(f[1 .. Len(s)], At(Len(s)))
    <2>1. Len(s) \in N /\ Len(s) <= Len(s)
      BY <1>1, <1>4
    <2> HIDE DEF At
    <2>2. QED  BY <2>1 DEF N
  <1>6. SubSeq(s, 1, Len(s)) = s /\ DOMAIN s = 1 .. Len(s)
    BY SubSeqFull
  <1>7. QED  BY <1>5, <1>6

-----------------------------------------------------------------------------
(* What the iterators meet *)

LEMMA SameIterators ==
  ASSUME NEW h, NEW l
  PROVE  /\ DList!Forward(h, l) = Linked!Forward(h, l)
         /\ SList!Forward(h, l) = Linked!Forward(h, l)
         /\ \A i : /\ DList!IterAt(h, l, i) = Linked!IterAt(h, l, i)
                   /\ SList!IterAt(h, l, i) = Linked!IterAt(h, l, i)
         /\ \A v : /\ DList!Find(h, l, v) = Linked!Find(h, l, v)
                   /\ SList!Find(h, l, v) = Linked!Find(h, l, v)
  <1>1. \A links, n, last : /\ DList!Walk(links, n, last) = Linked!Walk(links, n, last)
                            /\ SList!Walk(links, n, last) = Linked!Walk(links, n, last)
    BY DEF DList!Walk, SList!Walk, Linked!Walk,
       DList!Null, DList!Node, DList!Poison, DList!MaxNode,
       SList!Null, SList!Node, SList!Poison, SList!MaxNode,
       Linked!Null, Linked!Node, Linked!Poison, Linked!MaxNode
  <1>2. /\ DList!Forward(h, l) = Linked!Forward(h, l)
        /\ SList!Forward(h, l) = Linked!Forward(h, l)
    BY <1>1, SameNumbers, Numbers DEF DList!Forward, SList!Forward, Linked!Forward
  <1>3. \A S : DList!Min(S) = Linked!Min(S) /\ SList!Min(S) = Linked!Min(S)
    BY DEF DList!Min, SList!Min, Linked!Min
  <1>4. QED
    BY <1>2, <1>3, SameNumbers, Numbers
    DEF DList!IterAt, SList!IterAt, Linked!IterAt, DList!Find, SList!Find, Linked!Find

LEMMA PathLength ==
  ASSUME NEW h, NEW P, NEW c, Laid(h, P, c), NEW l \in Object
  PROVE  Len(P[l]) <= 2 * MaxLen
  <1> PICK p : p = P[l]
    OBVIOUS
  <1>1. Path(h, l, p, c[l])
    BY DEF Laid
  <1>2. /\ p \in Seq(Nodes) /\ \A i, j \in 1 .. Len(p) : p[i] = p[j] => i = j
    BY <1>1 DEF Path
  <1>3. IsFiniteSet(Own(p)) /\ Cardinality(Own(p)) = Len(p) /\ Own(p) \subseteq Nodes
    BY <1>2, OwnCard
  <1>4. IsFiniteSet(Nodes) /\ Cardinality(Nodes) = 2 * MaxLen
    BY Numbers, Interval DEF Nodes
  <1>5. Cardinality(Own(p)) <= Cardinality(Nodes)
    BY <1>3, <1>4, FS_Subset
  <1>6. QED  BY <1>3, <1>4, <1>5

LEMMA ForwardIs ==
  ASSUME NEW h, NEW P, NEW c, Laid(h, P, c), NEW l \in Object
  PROVE  Linked!Forward(h, l) = P[l] /\ Linked!Values(h, P[l]) = c[l]
  <1> PICK p, s : p = P[l] /\ s = c[l]
    OBVIOUS
  <1>1. Path(h, l, p, s)
    BY DEF Laid
  <1>2. /\ p \in Seq(Nodes) /\ s \in Seq(Value) /\ Len(p) = Len(s) /\ h.len[l] = Len(p)
        /\ Len(p) \in Nat /\ (p = <<>> <=> Len(p) = 0)
        /\ \A i \in 1 .. Len(p) : p[i] \in Nodes /\ p[i] # 0
    <2>1. p \in Seq(Nodes) /\ s \in Seq(Value) /\ Len(p) = Len(s) /\ h.len[l] = Len(p)
      BY <1>1 DEF Path
    <2>2. \A i \in 1 .. Len(p) : p[i] \in Nodes
      BY <2>1
    <2>3. 0 \notin Nodes
      BY DEF Nodes
    <2>4. Len(p) \in Nat /\ (p = <<>> <=> Len(p) = 0)
      BY <2>1
    <2>5. QED  BY <2>1, <2>2, <2>3, <2>4
  <1>3. Linked!Forward(h, l) = p
    <2>1. CASE Len(p) = 0
      BY <1>2, <2>1 DEF Linked!Forward
    <2>2. CASE Len(p) # 0
      <3> PICK links, z, n : links = h.next /\ z = 0 /\ n = h.head[l]
        OBVIOUS
      <3>1. Starts(p, z, n)
        BY <1>1 DEF Path, Starts
      <3>2. Linked!Forward(h, l) = Linked!Walk(links, n, z)
        BY <1>2, <2>2, Numbers DEF Linked!Forward
      <3>3. Len(p) <= 2 * MaxLen
        BY PathLength
      <3>4. \A i \in 1 .. Len(p) : links[p[i]] = IF i = Len(p) THEN z ELSE p[i + 1]
        BY <1>1 DEF Path
      <3>5. z \in Offset /\ \A i \in 1 .. Len(p) : p[i] # z
        BY <1>2, Numbers DEF Offset
      <3>6. Chain(links, p, z, z)
        BY <1>2, <3>3, <3>4, <3>5 DEF Chain
      <3>7. QED  BY <3>1, <3>2, <3>6, WalkIsPath
    <2>3. QED  BY <2>1, <2>2
  <1>4. Linked!Values(h, p) = s
    <2>1. Linked!Values(h, p) = [i \in 1 .. Len(p) |-> h.data[p[i]]]
      BY <1>2, Numbers DEF Linked!Values
    <2>2. \A i \in 1 .. Len(p) : h.data[p[i]] = s[i]
      BY <1>1 DEF Path
    <2>3. s = [i \in 1 .. Len(p) |-> s[i]]
      BY <1>2
    <2>4. QED  BY <2>1, <2>2, <2>3
  <1>5. QED  BY <1>3, <1>4

-----------------------------------------------------------------------------
(* Entries taken out of a list *)

Without(s, i, j) == SubSeq(s, 1, i) \o SubSeq(s, j + 1, Len(s))

LEMMA WithoutIs ==
  ASSUME NEW S, NEW s \in Seq(S), NEW i \in 0 .. Len(s), NEW j \in i .. Len(s)
  PROVE  /\ Without(s, i, j) \in Seq(S)
         /\ Len(Without(s, i, j)) = Len(s) - (j - i)
         /\ \A k \in 1 .. Len(s) - (j - i) :
              Without(s, i, j)[k] = IF k <= i THEN s[k] ELSE s[k + (j - i)]
  <1>1. /\ SubSeq(s, 1, i) \in Seq(S) /\ Len(SubSeq(s, 1, i)) = i
        /\ \A k \in 1 .. i : SubSeq(s, 1, i)[k] = s[k]
    OBVIOUS
  <1>2. /\ SubSeq(s, j + 1, Len(s)) \in Seq(S) /\ Len(SubSeq(s, j + 1, Len(s))) = Len(s) - j
        /\ \A k \in 1 .. Len(s) - j : SubSeq(s, j + 1, Len(s))[k] = s[j + k]
    OBVIOUS
  <1> PICK a, b : a = SubSeq(s, 1, i) /\ b = SubSeq(s, j + 1, Len(s))
    OBVIOUS
  <1>3. /\ a \o b \in Seq(S) /\ Len(a \o b) = Len(a) + Len(b)
        /\ \A k \in 1 .. Len(a) + Len(b) : (a \o b)[k] = IF k <= Len(a) THEN a[k] ELSE b[k - Len(a)]
    <2>1. a \in Seq(S) /\ b \in Seq(S)
      BY <1>1, <1>2
    <2>2. QED  BY <2>1, ConcatProperties
  <1>4. Len(s) \in Nat /\ i \in Int /\ j \in Int /\ i + (Len(s) - j) = Len(s) - (j - i)
    OBVIOUS
  <1>5. \A k \in 1 .. Len(s) - (j - i) :
          (a \o b)[k] = IF k <= i THEN s[k] ELSE s[k + (j - i)]
    <2> TAKE k \in 1 .. Len(s) - (j - i)
    <2>1. CASE k <= i
      <3>1. k \in 1 .. i
        BY <1>4, <2>1
      <3>2. QED  BY <1>1, <1>2, <1>3, <1>4, <2>1, <3>1
    <2>2. CASE ~(k <= i)
      <3>1. k - i \in 1 .. Len(s) - j /\ j + (k - i) = k + (j - i)
        BY <1>4, <2>2
      <3>2. (a \o b)[k] = b[k - i]
        BY <1>1, <1>2, <1>3, <1>4, <2>2
      <3>3. QED  BY <1>2, <2>2, <3>1, <3>2
    <2>3. QED  BY <2>1, <2>2
  <1>6. QED  BY <1>1, <1>2, <1>3, <1>4, <1>5 DEF Without

Gone(p, i, j) == {p[k] : k \in i + 1 .. j}
After(p, j)   == IF j = Len(p) THEN 0 ELSE p[j + 1]
Before(p, i)  == IF i = 0 THEN 0 ELSE p[i]

\* From h to e the entries from p[i + 1] to p[j] leave the list l of the entries p.
Cut(h, e, l, p, i, j) ==
  /\ e \in Heaps /\ e.used = h.used \ Gone(p, i, j)
  /\ \A x \in Nodes \ Gone(p, i, j) :
       /\ e.data[x] = h.data[x]
       /\ e.next[x] = IF i # 0 /\ x = p[i] THEN After(p, j) ELSE h.next[x]
       /\ e.prior[x] = IF kind = "list" /\ j # Len(p) /\ x = p[j + 1] THEN Before(p, i)
                       ELSE h.prior[x]
  /\ \A k \in Object :
       /\ e.head[k] = IF k = l /\ i = 0 THEN After(p, j) ELSE h.head[k]
       /\ e.tail[k] = IF k = l /\ j = Len(p) THEN Before(p, i) ELSE h.tail[k]
       /\ e.len[k] = IF k = l THEN h.len[k] - (j - i) ELSE h.len[k]

CutFrom(h, e, l, p, s, i, j) ==
  /\ i \in 0 .. Len(p) /\ j \in i .. Len(p) /\ h \in Heaps /\ l \in Object
  /\ Path(h, l, p, s) /\ Cut(h, e, l, p, i, j)

LEMMA CutPath ==
  ASSUME NEW h, NEW e, NEW l, NEW p, NEW s, NEW i, NEW j, CutFrom(h, e, l, p, s, i, j)
  PROVE  /\ Path(e, l, Without(p, i, j), Without(s, i, j))
         /\ Own(Without(p, i, j)) = Own(p) \ Gone(p, i, j)
  <1>1. /\ i \in 0 .. Len(p) /\ j \in i .. Len(p) /\ h \in Heaps /\ l \in Object
        /\ Path(h, l, p, s) /\ Cut(h, e, l, p, i, j)
    BY DEF CutFrom
  <1> PICK q, r, d, n : q = Without(p, i, j) /\ r = Without(s, i, j) /\ d = j - i /\ n = Len(p)
    OBVIOUS
  <1>2. /\ p \in Seq(Nodes) /\ s \in Seq(Value) /\ Len(p) = Len(s) /\ h.len[l] = n
        /\ n \in Nat /\ i \in Nat /\ j \in Nat /\ d \in Nat /\ i <= j /\ j <= n /\ d = j - i
    BY <1>1 DEF Path
  <1>3. /\ q \in Seq(Nodes) /\ Len(q) = n - d
        /\ \A k \in 1 .. n - d : q[k] = IF k <= i THEN p[k] ELSE p[k + d]
    <2>1. i \in 0 .. Len(p) /\ j \in i .. Len(p) /\ p \in Seq(Nodes)
      BY <1>2
    <2>2. /\ Without(p, i, j) \in Seq(Nodes)
          /\ Len(Without(p, i, j)) = Len(p) - (j - i)
          /\ \A k \in 1 .. Len(p) - (j - i) :
               Without(p, i, j)[k] = IF k <= i THEN p[k] ELSE p[k + (j - i)]
      BY <2>1, WithoutIs
    <2>3. QED  BY <1>2, <2>2
  <1>4. /\ r \in Seq(Value) /\ Len(r) = n - d
        /\ \A k \in 1 .. n - d : r[k] = IF k <= i THEN s[k] ELSE s[k + d]
    <2>1. i \in 0 .. Len(s) /\ j \in i .. Len(s) /\ s \in Seq(Value)
      BY <1>2
    <2>2. /\ Without(s, i, j) \in Seq(Value)
          /\ Len(Without(s, i, j)) = Len(s) - (j - i)
          /\ \A k \in 1 .. Len(s) - (j - i) :
               Without(s, i, j)[k] = IF k <= i THEN s[k] ELSE s[k + (j - i)]
      BY <2>1, WithoutIs
    <2>3. QED  BY <1>2, <2>2
  <1>5. \A a, b \in 1 .. n : p[a] = p[b] => a = b
    BY <1>1 DEF Path
  <1> DEFINE at(k) == IF k <= i THEN k ELSE k + d
  <1>6. /\ \A k \in 1 .. n - d : /\ at(k) \in 1 .. n /\ ~(at(k) \in i + 1 .. j)
                                 /\ q[k] = p[at(k)] /\ r[k] = s[at(k)]
        /\ \A k, m \in 1 .. n - d : at(k) = at(m) => k = m
    BY <1>2, <1>3, <1>4
  <1>7. \A k \in 1 .. n : ~(k \in i + 1 .. j) => p[k] \in Nodes \ Gone(p, i, j)
    <2>1. \A k \in 1 .. n : p[k] \in Nodes
      BY <1>2
    <2>2. \A k \in i + 1 .. j : k \in 1 .. n
      BY <1>2
    <2>3. QED  BY <1>5, <2>1, <2>2 DEF Gone
  <1>8. \A k \in 1 .. n - d : q[k] \in Nodes \ Gone(p, i, j)
    BY <1>6, <1>7
  <1>9. \A k, m \in 1 .. n - d : q[k] = q[m] => k = m
    BY <1>5, <1>6
  <1>10. \A k \in 1 .. n - d : e.data[q[k]] = r[k]
    <2>1. \A k \in 1 .. n : h.data[p[k]] = s[k]
      BY <1>1 DEF Path
    <2>2. \A k \in 1 .. n - d : e.data[q[k]] = h.data[q[k]]
      BY <1>1, <1>8 DEF Cut
    <2>3. QED  BY <1>6, <2>1, <2>2
  <1>11. \A k \in 1 .. n - d : e.next[q[k]] = IF k = n - d THEN 0 ELSE q[k + 1]
    <2> TAKE k \in 1 .. n - d
    <2>1. e.next[q[k]] = IF i # 0 /\ q[k] = p[i] THEN After(p, j) ELSE h.next[q[k]]
      BY <1>1, <1>8 DEF Cut
    <2>2. h.next[p[at(k)]] = IF at(k) = n THEN 0 ELSE p[at(k) + 1]
      BY <1>1, <1>6 DEF Path
    <2>3. q[k] = p[at(k)]
      BY <1>6
    <2>4. i # 0 /\ q[k] = p[i] <=> k = i
      <3>1. i # 0 => i \in 1 .. n
        BY <1>2
      <3>2. at(k) \in 1 .. n
        BY <1>6
      <3>3. at(k) = i <=> k = i
        BY <1>2
      <3>4. k = i => i # 0
        BY <1>2
      <3> HIDE DEF at
      <3>5. QED  BY <1>5, <2>3, <3>1, <3>2, <3>3, <3>4
    <2>5. CASE k = i
      <3>1. e.next[q[k]] = After(p, j)
        BY <2>1, <2>4, <2>5
      <3>2. k = n - d <=> j = n
        BY <1>2, <2>5
      <3>3. j # n => q[k + 1] = p[j + 1]
        <4>1. j # n => k + 1 \in 1 .. n - d /\ ~(k + 1 <= i) /\ k + 1 + d = j + 1
          BY <1>2, <2>5
        <4>2. QED  BY <1>3, <4>1
      <3>4. QED  BY <3>1, <3>2, <3>3 DEF After
    <2>6. CASE k # i
      <3>1. e.next[q[k]] = h.next[p[at(k)]]
        BY <2>1, <2>3, <2>4, <2>6
      <3>2. k = n - d <=> at(k) = n
        BY <1>2, <2>6
      <3>3. k # n - d => k + 1 \in 1 .. n - d /\ at(k + 1) = at(k) + 1
        BY <1>2, <2>6
      <3>4. k # n - d => q[k + 1] = p[at(k) + 1]
        BY <1>6, <3>3
      <3> HIDE DEF at
      <3>5. QED  BY <2>2, <3>1, <3>2, <3>4
    <2>7. QED  BY <2>5, <2>6
  <1>12. ASSUME kind = "list"
         PROVE  \A k \in 1 .. n - d : e.prior[q[k]] = IF k = 1 THEN 0 ELSE q[k - 1]
    <2> TAKE k \in 1 .. n - d
    <2>1. e.prior[q[k]] = IF j # n /\ q[k] = p[j + 1] THEN Before(p, i) ELSE h.prior[q[k]]
      BY <1>1, <1>8, <1>12 DEF Cut
    <2>2. h.prior[p[at(k)]] = IF at(k) = 1 THEN 0 ELSE p[at(k) - 1]
      BY <1>1, <1>6, <1>12 DEF Path
    <2>3. q[k] = p[at(k)]
      BY <1>6
    <2>4. j # n /\ q[k] = p[j + 1] <=> k = i + 1
      <3>1. j # n => j + 1 \in 1 .. n
        BY <1>2
      <3>2. j # n /\ q[k] = p[j + 1] <=> j # n /\ at(k) = j + 1
        BY <1>5, <1>6, <2>3, <3>1
      <3>3. CASE k <= i
        <4>1. at(k) # j + 1 /\ k # i + 1
          BY <1>2, <3>3
        <4>2. QED  BY <3>2, <4>1
      <3>4. CASE ~(k <= i)
        <4>1. (j # n /\ at(k) = j + 1) <=> k = i + 1
          BY <1>2, <3>4
        <4>2. QED  BY <3>2, <4>1
      <3>5. QED  BY <3>3, <3>4
    <2>5. CASE k = i + 1
      <3>1. e.prior[q[k]] = Before(p, i)
        BY <2>1, <2>4, <2>5
      <3>2. k # 1 => k - 1 \in 1 .. n - d /\ k - 1 = i /\ q[k - 1] = p[i] /\ i # 0
        BY <1>2, <1>3, <2>5
      <3>3. QED  BY <1>2, <2>5, <3>1, <3>2 DEF Before
    <2>6. CASE k # i + 1
      <3>1. e.prior[q[k]] = h.prior[p[at(k)]]
        BY <2>1, <2>3, <2>4, <2>6
      <3>2. k = 1 <=> at(k) = 1
        BY <1>2, <2>6
      <3>3. k # 1 => k - 1 \in 1 .. n - d /\ at(k - 1) = at(k) - 1
        BY <1>2, <2>6
      <3>4. k # 1 => q[k - 1] = p[at(k) - 1]
        BY <1>6, <3>3
      <3> HIDE DEF at
      <3>5. QED  BY <2>2, <3>1, <3>2, <3>4
    <2>7. QED  BY <2>5, <2>6
  <1> HIDE DEF at
  <1>13. /\ e.len[l] = n - d
         /\ e.head[l] = IF n - d = 0 THEN 0 ELSE q[1]
         /\ e.tail[l] = IF n - d = 0 THEN 0 ELSE q[n - d]
    <2>1. /\ h.head[l] = IF n = 0 THEN 0 ELSE p[1]
          /\ h.tail[l] = IF n = 0 THEN 0 ELSE p[n]
      BY <1>1 DEF Path
    <2>2. /\ e.len[l] = h.len[l] - d
          /\ e.head[l] = IF i = 0 THEN After(p, j) ELSE h.head[l]
          /\ e.tail[l] = IF j = n THEN Before(p, i) ELSE h.tail[l]
      BY <1>1 DEF Cut
    <2>3. n - d # 0 => /\ q[1] = IF 1 <= i THEN p[1] ELSE p[1 + d]
                       /\ q[n - d] = IF n - d <= i THEN p[n - d] ELSE p[n - d + d]
      <3>1. n - d # 0 => 1 \in 1 .. n - d /\ n - d \in 1 .. n - d
        BY <1>2
      <3>2. QED  BY <1>3, <3>1
    <2>4. e.head[l] = IF n - d = 0 THEN 0 ELSE q[1]
      <3>1. CASE i = 0
        <4>1. e.head[l] = IF j = n THEN 0 ELSE p[j + 1]
          BY <2>2, <3>1 DEF After
        <4>2. (n - d = 0 <=> j = n) /\ 1 + d = j + 1 /\ ~(1 <= i)
          BY <1>2, <3>1
        <4>3. QED  BY <2>3, <4>1, <4>2
      <3>2. CASE i # 0
        <4>1. n # 0 /\ n - d # 0 /\ 1 <= i
          BY <1>2, <3>2
        <4>2. QED  BY <2>1, <2>2, <2>3, <3>2, <4>1
      <3>3. QED  BY <3>1, <3>2
    <2>5. e.tail[l] = IF n - d = 0 THEN 0 ELSE q[n - d]
      <3>1. CASE j = n
        <4>1. e.tail[l] = IF i = 0 THEN 0 ELSE p[i]
          BY <2>2, <3>1 DEF Before
        <4>2. n - d = i
          BY <1>2, <3>1
        <4>3. QED  BY <1>2, <2>3, <4>1, <4>2
      <3>2. CASE j # n
        <4>1. n # 0 /\ n - d # 0 /\ ~(n - d <= i) /\ n - d + d = n
          BY <1>2, <3>2
        <4>2. QED  BY <2>1, <2>2, <2>3, <3>2, <4>1
      <3>3. QED  BY <3>1, <3>2
    <2>6. QED  BY <1>2, <2>2, <2>4, <2>5
  <1>14. Path(e, l, q, r)
    BY <1>3, <1>4, <1>9, <1>10, <1>11, <1>12, <1>13 DEF Path
  <1>15. Own(q) = Own(p) \ Gone(p, i, j)
    <2>1. Own(q) \subseteq Own(p) \ Gone(p, i, j)
      BY <1>3, <1>6, <1>8 DEF Own
    <2>2. ASSUME NEW k \in 1 .. n, p[k] \notin Gone(p, i, j)  PROVE p[k] \in Own(q)
      <3>1. ~(k \in i + 1 .. j)
        BY <2>2 DEF Gone
      <3>2. CASE k <= i
        <4>1. k \in 1 .. n - d /\ q[k] = p[k]
          BY <1>2, <1>3, <3>2
        <4>2. QED  BY <1>3, <4>1 DEF Own
      <3>3. CASE k > j
        <4>1. k - d \in 1 .. n - d /\ q[k - d] = p[k]
          BY <1>2, <1>3, <3>3
        <4>2. QED  BY <1>3, <4>1 DEF Own
      <3>4. QED  BY <1>2, <3>1, <3>2, <3>3
    <2>3. QED  BY <2>1, <2>2 DEF Own
  <1>16. QED  BY <1>14, <1>15

LEMMA CutLaid ==
  ASSUME IsFiniteSet(Object), NEW h, NEW P, NEW c, Laid(h, P, c), c = [k \in Object |-> c[k]],
         NEW e, NEW l \in Object, NEW p, p = P[l], NEW i \in 0 .. Len(p), NEW j \in i .. Len(p),
         Cut(h, e, l, p, i, j)
  PROVE  Laid(e, [P EXCEPT ![l] = Without(p, i, j)], [c EXCEPT ![l] = Without(c[l], i, j)])
  <1> PICK s, q, r : s = c[l] /\ q = Without(p, i, j) /\ r = Without(s, i, j)
    OBVIOUS
  <1>1. h \in Heaps /\ Path(h, l, p, s) /\ Own(p) \subseteq h.used /\ h.used \subseteq Nodes
    <2>1. h \in Heaps /\ Path(h, l, p, s)
      BY DEF Laid
    <2>2. Own(p) \subseteq h.used /\ h.used \subseteq Nodes
      BY PathOwned
    <2>3. QED  BY <2>1, <2>2
  <1>2. Path(e, l, q, r) /\ Own(q) = Own(p) \ Gone(p, i, j)
    <2>1. /\ Path(e, l, Without(p, i, j), Without(s, i, j))
          /\ Own(Without(p, i, j)) = Own(p) \ Gone(p, i, j)
      <3>1. CutFrom(h, e, l, p, s, i, j)
        BY <1>1 DEF CutFrom
      <3>2. QED  BY <3>1, CutPath
    <2>2. QED  BY <2>1
  <1>3. Gone(p, i, j) \subseteq Own(p)
    <2>1. Len(p) \in Nat
      BY <1>1 DEF Path
    <2>2. \A k \in i + 1 .. j : k \in 1 .. Len(p)
      BY <2>1
    <2>3. QED  BY <2>2 DEF Gone, Own
  <1>4. \A k \in Object \ {l} :
          e.head[k] = h.head[k] /\ e.tail[k] = h.tail[k] /\ e.len[k] = h.len[k]
    BY DEF Cut
  <1>5. \A x \in h.used \ Own(p) :
          e.next[x] = h.next[x] /\ e.prior[x] = h.prior[x] /\ e.data[x] = h.data[x]
    <2> TAKE x \in h.used \ Own(p)
    <2>1. x \in Nodes \ Gone(p, i, j)
      BY <1>1, <1>3
    <2>2. i # 0 => x # p[i]
      <3>1. i # 0 => i \in 1 .. Len(p)
        OBVIOUS
      <3>2. QED  BY <3>1 DEF Own
    <2>3. j # Len(p) => x # p[j + 1]
      <3>1. Len(p) \in Nat
        BY <1>1 DEF Path
      <3>2. j # Len(p) => j + 1 \in 1 .. Len(p)
        BY <3>1
      <3>3. QED  BY <3>2 DEF Own
    <2>4. QED  BY <2>1, <2>2, <2>3 DEF Cut
  <1>6. /\ e \in Heaps /\ e.used = h.used \ Gone(p, i, j)
        /\ Own(q) \cap (h.used \ Own(p)) = {} /\ e.used = (h.used \ Own(p)) \union Own(q)
    <2>1. e \in Heaps /\ e.used = h.used \ Gone(p, i, j)
      BY DEF Cut
    <2>2. QED  BY <1>1, <1>2, <1>3, <2>1
  <1>7. Touched(h, e, l, P[l], q)
    BY <1>4, <1>5, <1>6 DEF Touched
  <1>8. Laid(e, [P EXCEPT ![l] = q], [c EXCEPT ![l] = r])
    BY <1>2, <1>7, Relaid
  <1>9. QED  BY <1>8

\* An iterator at the first of the entries that go, and one behind the last.
Ends(p, i, j, first, last) == first = After(p, i) /\ last = After(p, j)

\* The ends of the range [first, last) that a call erases: from p[i + 1] to p[j].
EraseOf(h, P, c, l, p, i, j, first, last) ==
  /\ Laid(h, P, c) /\ l \in Object /\ p = P[l]
  /\ i \in 0 .. Len(p) /\ j \in i .. Len(p) /\ Ends(p, i, j, first, last)

\* The walk of erase meets the entries that go.
LEMMA GoneWalk ==
  ASSUME NEW h, NEW P, NEW c, NEW l, NEW p, NEW i, NEW j, NEW first, NEW last,
         EraseOf(h, P, c, l, p, i, j, first, last), i # Len(p)
  PROVE  \E q : /\ Linked!Walk(h.next, first, last) = q
                /\ Len(q) = j - i /\ Range(q) = Gone(p, i, j)
  <1>1. /\ Laid(h, P, c) /\ l \in Object /\ p = P[l]
        /\ i \in 0 .. Len(p) /\ j \in i .. Len(p) /\ Ends(p, i, j, first, last)
    BY DEF EraseOf
  <1> PICK links : links = h.next
    OBVIOUS
  <1> PICK q, d : q = SubSeq(p, i + 1, j) /\ d = j - i
    OBVIOUS
  <1>2. Path(h, l, p, c[l])
    BY <1>1 DEF Laid
  <1>3. /\ p \in Seq(Nodes) /\ Len(p) \in Nat /\ i \in Nat /\ j \in Nat /\ d \in Nat
        /\ i <= j /\ j <= Len(p) /\ d = j - i /\ i < Len(p)
        /\ \A a, b \in 1 .. Len(p) : p[a] = p[b] => a = b
        /\ \A k \in 1 .. Len(p) : links[p[k]] = IF k = Len(p) THEN 0 ELSE p[k + 1]
    BY <1>1, <1>2 DEF Path
  <1>4. /\ q \in Seq(Nodes) /\ Len(q) = d
        /\ \A k \in 1 .. d : q[k] = p[k + i]
    <2>1. i + 1 \in 1 .. Len(p) + 1 /\ j \in i + 1 - 1 .. Len(p)
      BY <1>3
    <2>2. /\ q \in Seq(Nodes) /\ Len(q) = j - (i + 1) + 1
          /\ \A k \in 1 .. j - (i + 1) + 1 : q[k] = p[i + 1 + k - 1]
      BY <1>3, <2>1, SubSeqIs
    <2>3. j - (i + 1) + 1 = d /\ \A k \in 1 .. d : i + 1 + k - 1 = k + i
      BY <1>3
    <2>4. QED  BY <2>2, <2>3
  <1>5. /\ \A k \in 1 .. Len(p) : p[k] \in Nodes /\ p[k] # 0 /\ p[k] \in Offset
        /\ 0 \in Offset
    <2>1. \A k \in 1 .. Len(p) : p[k] \in Nodes
      BY <1>3
    <2>2. \A x \in Nodes : x # 0 /\ x \in Offset
      BY Numbers DEF Nodes, Offset
    <2>3. 0 \in Offset
      BY Numbers DEF Offset
    <2>4. QED  BY <2>1, <2>2, <2>3
  <1>6. first = p[i + 1] /\ last = IF j = Len(p) THEN 0 ELSE p[j + 1]
    BY <1>1 DEF Ends, After
  <1>7. \A k \in 1 .. d : k + i \in 1 .. Len(p) /\ k + i # j + 1
    BY <1>3
  <1>8. \A k \in 1 .. d : q[k] # last
    <2>1. j # Len(p) => j + 1 \in 1 .. Len(p)
      BY <1>3
    <2>2. QED  BY <1>3, <1>4, <1>5, <1>6, <1>7, <2>1
  <1>9. \A k \in 1 .. d : links[q[k]] = IF k = d THEN last ELSE q[k + 1]
    <2> TAKE k \in 1 .. d
    <2>1. links[q[k]] = IF k + i = Len(p) THEN 0 ELSE p[k + i + 1]
      BY <1>3, <1>4, <1>7
    <2>2. CASE k = d
      <3>1. k + i = j
        BY <1>3, <2>2
      <3>2. QED  BY <1>6, <2>1, <2>2, <3>1
    <2>3. CASE k # d
      <3>1. k + i # Len(p) /\ k + 1 \in 1 .. d /\ k + 1 + i = k + i + 1
        BY <1>3, <2>3
      <3>2. q[k + 1] = p[k + i + 1]
        BY <1>4, <3>1
      <3>3. QED  BY <2>1, <2>3, <3>1, <3>2
    <2>4. QED  BY <2>2, <2>3
  <1>10. last \in Offset
    <2>1. j # Len(p) => j + 1 \in 1 .. Len(p)
      BY <1>3
    <2>2. QED  BY <1>5, <1>6, <2>1
  <1>11. Len(q) <= 2 * MaxLen
    <2>1. Len(p) <= 2 * MaxLen
      BY <1>1, PathLength
    <2>2. QED  BY <1>3, <1>4, <2>1, Numbers
  <1>12. Chain(links, q, last, last)
    BY <1>4, <1>8, <1>9, <1>10, <1>11 DEF Chain
  <1>13. Starts(q, last, first)
    <2>1. CASE d = 0
      <3>1. j = i
        BY <1>3, <2>1
      <3>2. QED  BY <1>3, <1>4, <1>6, <2>1, <3>1 DEF Starts
    <2>2. CASE d # 0
      <3>1. 1 \in 1 .. d /\ 1 + i = i + 1
        BY <1>3, <2>2
      <3>2. q[1] = p[1 + i]
        BY <1>4, <3>1
      <3>3. QED  BY <1>4, <1>6, <2>2, <3>1, <3>2 DEF Starts
    <2>3. QED  BY <2>1, <2>2
  <1>14. Linked!Walk(links, first, last) = q
    BY <1>12, <1>13, WalkIsPath
  <1>15. Range(q) = Gone(p, i, j)
    <2>1. Range(q) = {q[k] : k \in 1 .. d}
      <3>1. DOMAIN q = 1 .. d
        BY <1>4
      <3>2. QED  BY <3>1 DEF Range
    <2>2. {q[k] : k \in 1 .. d} = {p[k + i] : k \in 1 .. d}
      BY <1>4
    <2>3. \A k \in 1 .. d : k + i \in i + 1 .. j
      BY <1>3
    <2>4. \A k \in i + 1 .. j : k - i \in 1 .. d /\ (k - i) + i = k
      BY <1>3
    <2>5. {p[k + i] : k \in 1 .. d} \subseteq {p[k] : k \in i + 1 .. j}
      BY <2>3
    <2>6. {p[k] : k \in i + 1 .. j} \subseteq {p[k + i] : k \in 1 .. d}
      <3> SUFFICES ASSUME NEW k \in i + 1 .. j  PROVE p[k] \in {p[m + i] : m \in 1 .. d}
        OBVIOUS
      <3>1. k - i \in 1 .. d /\ p[(k - i) + i] = p[k]
        BY <2>4
      <3>2. QED  BY <3>1
    <2>7. QED  BY <2>1, <2>2, <2>5, <2>6 DEF Gone
  <1>16. QED  BY <1>4, <1>14, <1>15

-----------------------------------------------------------------------------
(* erase *)

LEMMA SameFree ==
  ASSUME NEW h, NEW S
  PROVE  /\ DList!FreeEntries(h, S) = Linked!FreeEntries(h, S)
         /\ SList!FreeEntries(h, S) = Linked!FreeEntries(h, S)
         /\ \A links, n, last : /\ DList!Walk(links, n, last) = Linked!Walk(links, n, last)
                                /\ SList!Walk(links, n, last) = Linked!Walk(links, n, last)
  <1>1. \A links, n, last : /\ DList!Walk(links, n, last) = Linked!Walk(links, n, last)
                            /\ SList!Walk(links, n, last) = Linked!Walk(links, n, last)
    BY DEF DList!Walk, SList!Walk, Linked!Walk,
       DList!Null, DList!Node, DList!Poison, DList!MaxNode,
       SList!Null, SList!Node, SList!Poison, SList!MaxNode,
       Linked!Null, Linked!Node, Linked!Poison, Linked!MaxNode
  <1>2. /\ DList!FreeEntries(h, S) = Linked!FreeEntries(h, S)
        /\ SList!FreeEntries(h, S) = Linked!FreeEntries(h, S)
    BY SameNumbers, Numbers
    DEF DList!FreeEntries, SList!FreeEntries, Linked!FreeEntries
  <1>3. QED  BY <1>1, <1>2

\* What is left of a field of the entries when those in S are free.
Wiped(f, S) == [n \in Nodes |-> IF n \in S THEN 2 * MaxLen + 1 ELSE f[n]]

LEMMA FreedIs ==
  ASSUME NEW h, h \in Heaps, NEW S
  PROVE  Linked!FreeEntries(h, S) =
           [next |-> Wiped(h.next, S), prior |-> Wiped(h.prior, S), data |-> Wiped(h.data, S),
            used |-> h.used \ S, head |-> h.head, tail |-> h.tail, len |-> h.len]
  <1>1. h = [next |-> h.next, prior |-> h.prior, data |-> h.data, used |-> h.used,
             head |-> h.head, tail |-> h.tail, len |-> h.len]
    BY DEF Heaps
  <1> PICK a, b, d : a = Wiped(h.next, S) /\ b = Wiped(h.prior, S) /\ d = Wiped(h.data, S)
    OBVIOUS
  <1>2. Linked!FreeEntries(h, S) =
          [h EXCEPT !.used = h.used \ S, !.next = a, !.prior = b, !.data = d]
    BY <1>1, Numbers DEF Linked!FreeEntries, Wiped
  <1>3. QED  BY <1>1, <1>2

LEMMA WipedIs ==
  ASSUME NEW h, h \in Heaps, NEW S
  PROVE  /\ Wiped(h.next, S) \in [Nodes -> Offset] /\ Wiped(h.prior, S) \in [Nodes -> Offset]
         /\ Wiped(h.data, S) \in [Nodes -> Value \union {Linked!Poison}]
         /\ \A x \in Nodes \ S : /\ Wiped(h.next, S)[x] = h.next[x]
                                 /\ Wiped(h.prior, S)[x] = h.prior[x]
                                 /\ Wiped(h.data, S)[x] = h.data[x]
  <1>1. 2 * MaxLen + 1 \in Offset /\ Linked!Poison = 2 * MaxLen + 1
    BY Numbers DEF Offset
  <1>2. /\ h.next \in [Nodes -> Offset] /\ h.prior \in [Nodes -> Offset]
        /\ h.data \in [Nodes -> Value \union {Linked!Poison}]
    BY DEF Heaps
  <1>3. QED  BY <1>1, <1>2 DEF Wiped

LEMMA EraseFacts ==
  ASSUME NEW h, NEW P, NEW c, NEW l, NEW p, NEW i, NEW j, NEW first, NEW last,
         EraseOf(h, P, c, l, p, i, j, first, last)
  PROVE  /\ h \in Heaps /\ l \in Object /\ p \in Seq(Nodes) /\ Len(p) \in Nat
         /\ i \in Nat /\ j \in Nat /\ i <= j /\ j <= Len(p) /\ h.len[l] = Len(p)
         /\ Path(h, l, p, c[l])
         /\ \A k \in 1 .. Len(p) : p[k] \in Nodes /\ p[k] # 0 /\ p[k] \in Offset
         /\ \A a, b \in 1 .. Len(p) : p[a] = p[b] => a = b
         /\ first = After(p, i) /\ last = After(p, j)
         /\ After(p, j) \in Offset /\ Before(p, i) \in Offset /\ 0 \in Offset
         /\ (first = 0 <=> i = Len(p)) /\ (last = 0 <=> j = Len(p)) /\ (Before(p, i) = 0 <=> i = 0)
         /\ \A k \in 1 .. Len(p) : ~(k \in i + 1 .. j) => p[k] \notin Gone(p, i, j)
  <1>1. /\ h \in Heaps /\ l \in Object /\ Path(h, l, p, c[l])
        /\ i \in 0 .. Len(p) /\ j \in i .. Len(p) /\ first = After(p, i) /\ last = After(p, j)
    BY DEF EraseOf, Laid, Ends
  <1>2. p \in Seq(Nodes) /\ h.len[l] = Len(p) /\ \A a, b \in 1 .. Len(p) : p[a] = p[b] => a = b
    BY <1>1 DEF Path
  <1>3. Len(p) \in Nat /\ i \in Nat /\ j \in Nat /\ i <= j /\ j <= Len(p)
    BY <1>1, <1>2
  <1>4. \A x \in Nodes : x # 0 /\ x \in Offset
    BY Numbers DEF Nodes, Offset
  <1>5. 0 \in Offset
    BY Numbers DEF Offset
  <1>6. \A k \in 1 .. Len(p) : p[k] \in Nodes /\ p[k] # 0 /\ p[k] \in Offset
    BY <1>2, <1>4
  <1>7. /\ i # Len(p) => i + 1 \in 1 .. Len(p)
        /\ j # Len(p) => j + 1 \in 1 .. Len(p)
        /\ i # 0 => i \in 1 .. Len(p)
        /\ \A k \in i + 1 .. j : k \in 1 .. Len(p)
    BY <1>3
  <1>8. /\ After(p, j) \in Offset /\ Before(p, i) \in Offset
        /\ (first = 0 <=> i = Len(p)) /\ (last = 0 <=> j = Len(p)) /\ (Before(p, i) = 0 <=> i = 0)
    BY <1>1, <1>5, <1>6, <1>7 DEF After, Before
  <1>9. \A k \in 1 .. Len(p) : ~(k \in i + 1 .. j) => p[k] \notin Gone(p, i, j)
    BY <1>2, <1>7 DEF Gone
  <1>10. QED  BY <1>1, <1>2, <1>3, <1>5, <1>6, <1>8, <1>9

\* Nothing is erased at end().
LEMMA CutNothing ==
  ASSUME NEW h, NEW P, NEW c, NEW l, NEW p, NEW i, NEW j, NEW first, NEW last,
         EraseOf(h, P, c, l, p, i, j, first, last), i = Len(p)
  PROVE  Cut(h, h, l, p, i, j)
  <1>1. /\ h \in Heaps /\ l \in Object /\ Len(p) \in Nat /\ i \in Nat /\ j = i
        /\ Path(h, l, p, c[l]) /\ h.len[l] = Len(p)
    BY EraseFacts
  <1>2. Gone(p, i, j) = {}
    BY <1>1 DEF Gone
  <1>3. \A x \in Nodes : h.next[x] = IF i # 0 /\ x = p[i] THEN After(p, j) ELSE h.next[x]
    <2>1. i # 0 => i \in 1 .. Len(p)
      BY <1>1
    <2>2. i # 0 => h.next[p[i]] = 0
      BY <1>1, <2>1 DEF Path
    <2>3. QED  BY <1>1, <2>2 DEF After
  <1>4. /\ h.head[l] = IF i = 0 THEN After(p, j) ELSE h.head[l]
        /\ h.tail[l] = Before(p, i)
    BY <1>1 DEF Path, After, Before
  <1>5. h.len[l] = h.len[l] - (j - i)
    BY <1>1
  <1>6. QED  BY <1>1, <1>2, <1>3, <1>4, <1>5 DEF Cut

\* The fields f with the ends b and last of a gap in the list l joined.
Joined(f, l, b, last, nx, pr, hd, tl) ==
  /\ nx = IF b = 0 THEN f.next ELSE [f.next EXCEPT ![b] = last]
  /\ pr = IF last = 0 THEN f.prior ELSE [f.prior EXCEPT ![last] = b]
  /\ hd = IF b = 0 THEN [f.head EXCEPT ![l] = last] ELSE f.head
  /\ tl = IF last = 0 THEN [f.tail EXCEPT ![l] = b] ELSE f.tail

IsFields(h) == h = Fields(h.next, h.prior, h.data, h.used, h.head, h.tail, h.len)

LEMMA RejoinIs ==
  ASSUME NEW h, IsFields(h), NEW l, NEW b, NEW last,
         NEW nx2, NEW pr2, NEW hd2, NEW tl2, Joined(h, l, b, last, nx2, pr2, hd2, tl2)
  PROVE  DList!Rejoin(h, l, b, last) = Fields(nx2, pr2, h.data, h.used, hd2, tl2, h.len)
  <1>1. PICK nx, pr, da, us, hd, tl, ln :
          /\ nx = h.next /\ pr = h.prior /\ da = h.data /\ us = h.used
          /\ hd = h.head /\ tl = h.tail /\ ln = h.len
    OBVIOUS
  <1>2. h = Fields(nx, pr, da, us, hd, tl, ln)
    BY <1>1 DEF IsFields
  <1>3. /\ nx2 = IF b = 0 THEN nx ELSE [nx EXCEPT ![b] = last]
        /\ pr2 = IF last = 0 THEN pr ELSE [pr EXCEPT ![last] = b]
        /\ hd2 = IF b = 0 THEN [hd EXCEPT ![l] = last] ELSE hd
        /\ tl2 = IF last = 0 THEN [tl EXCEPT ![l] = b] ELSE tl
    BY <1>1 DEF Joined
  <1>4. PICK g : g = IF b = 0 THEN [h EXCEPT !.head[l] = last] ELSE [h EXCEPT !.next[b] = last]
    OBVIOUS
  <1>5. /\ h.head = hd /\ h.next = nx
        /\ \A x : [h EXCEPT !.head = x] = Fields(nx, pr, da, us, x, tl, ln)
        /\ \A x : [h EXCEPT !.next = x] = Fields(x, pr, da, us, hd, tl, ln)
    BY <1>2, FieldsSet
  <1>6. g = Fields(nx2, pr, da, us, hd2, tl, ln)
    <2>1. CASE b = 0
      <3>1. nx2 = nx /\ hd2 = [hd EXCEPT ![l] = last] /\ h.head = hd
        BY <1>3, <2>1, <1>5
      <3>2. g = [h EXCEPT !.head = hd2]
        BY <1>4, <2>1, <3>1
      <3>3. QED  BY <1>5, <3>1, <3>2
    <2>2. CASE b # 0
      <3>1. hd2 = hd /\ nx2 = [nx EXCEPT ![b] = last] /\ h.next = nx
        BY <1>3, <2>2, <1>5
      <3>2. g = [h EXCEPT !.next = nx2]
        BY <1>4, <2>2, <3>1
      <3>3. QED  BY <1>5, <3>1, <3>2
    <2>3. QED  BY <2>1, <2>2
  <1>7. DList!Rejoin(h, l, b, last) =
          IF last = 0 THEN [g EXCEPT !.tail[l] = b] ELSE [g EXCEPT !.prior[last] = b]
    BY Zenon, <1>4, SameNumbers DEF DList!Rejoin
  <1>8. /\ g.tail = tl /\ g.prior = pr
        /\ \A x : [g EXCEPT !.tail = x] = Fields(nx2, pr, da, us, hd2, x, ln)
        /\ \A x : [g EXCEPT !.prior = x] = Fields(nx2, x, da, us, hd2, tl, ln)
    BY <1>6, FieldsSet
  <1>9. DList!Rejoin(h, l, b, last) = Fields(nx2, pr2, da, us, hd2, tl2, ln)
    <2>1. CASE last = 0
      <3>1. tl2 = [tl EXCEPT ![l] = b] /\ pr2 = pr
        BY <1>3, <2>1
      <3>2. DList!Rejoin(h, l, b, last) = [g EXCEPT !.tail = tl2]
        BY <1>7, <1>8, <2>1, <3>1
      <3>3. QED  BY <1>8, <3>1, <3>2
    <2>2. CASE last # 0
      <3>1. tl2 = tl /\ pr2 = [pr EXCEPT ![last] = b]
        BY <1>3, <2>2
      <3>2. DList!Rejoin(h, l, b, last) = [g EXCEPT !.prior = pr2]
        BY <1>7, <1>8, <2>2, <3>1
      <3>3. QED  BY <1>8, <3>1, <3>2
    <2>3. QED  BY <2>1, <2>2
  <1>10. QED  BY <1>9, <1>1

\* What both erase operators make of the entries that go: n of them, in S.
Freed(h, l, S, n, first, last, g, f, w) ==
  /\ g = Linked!Walk(h.next, first, last) /\ f = Linked!FreeEntries(h, Range(g))
  /\ w = [f EXCEPT !.len[l] = @ - Len(g)]
  /\ w = Fields(Wiped(h.next, S), Wiped(h.prior, S), Wiped(h.data, S), h.used \ S,
                h.head, h.tail, [h.len EXCEPT ![l] = @ - n])

LEMMA FreedGone ==
  ASSUME NEW h, NEW P, NEW c, NEW l, NEW p, NEW i, NEW j, NEW first, NEW last,
         EraseOf(h, P, c, l, p, i, j, first, last), i # Len(p)
  PROVE  \E g, f, w : Freed(h, l, Gone(p, i, j), j - i, first, last, g, f, w)
  <1>1. PICK S : S = Gone(p, i, j)
    OBVIOUS
  <1>2. PICK g : /\ Linked!Walk(h.next, first, last) = g
                 /\ Len(g) = j - i /\ Range(g) = Gone(p, i, j)
    BY GoneWalk
  <1>3. PICK f : f = Linked!FreeEntries(h, S)
    OBVIOUS
  <1>4. h \in Heaps
    BY EraseFacts
  <1>5. f = Fields(Wiped(h.next, S), Wiped(h.prior, S), Wiped(h.data, S), h.used \ S,
                   h.head, h.tail, h.len)
    <2>1. Linked!FreeEntries(h, S) =
            [next |-> Wiped(h.next, S), prior |-> Wiped(h.prior, S), data |-> Wiped(h.data, S),
             used |-> h.used \ S, head |-> h.head, tail |-> h.tail, len |-> h.len]
      BY <1>4, FreedIs
    <2>2. QED  BY <1>3, <2>1 DEF Fields
  <1>6. f.len = h.len
    BY <1>5, FieldsSet
  <1>7. PICK ln : ln = [h.len EXCEPT ![l] = @ - (j - i)]
    OBVIOUS
  <1>8. [f EXCEPT !.len[l] = @ - Len(g)] = [f EXCEPT !.len = ln]
    BY <1>2, <1>6, <1>7
  <1>9. [f EXCEPT !.len = ln] =
          Fields(Wiped(h.next, S), Wiped(h.prior, S), Wiped(h.data, S), h.used \ S,
                 h.head, h.tail, ln)
    <2>1. PICK nx, pr, da, us : /\ nx = Wiped(h.next, S) /\ pr = Wiped(h.prior, S)
                                /\ da = Wiped(h.data, S) /\ us = h.used \ S
      OBVIOUS
    <2>2. f = Fields(nx, pr, da, us, h.head, h.tail, h.len)
      BY <1>5, <2>1
    <2>3. [f EXCEPT !.len = ln] = Fields(nx, pr, da, us, h.head, h.tail, ln)
      BY <2>2 DEF Fields
    <2>4. QED  BY <2>1, <2>3
  <1>10. PICK w : w = [f EXCEPT !.len[l] = @ - Len(g)]
    OBVIOUS
  <1>11. Freed(h, l, S, j - i, first, last, g, f, w)
    <2>1. w = Fields(Wiped(h.next, S), Wiped(h.prior, S), Wiped(h.data, S), h.used \ S,
                     h.head, h.tail, [h.len EXCEPT ![l] = @ - (j - i)])
      BY <1>7, <1>8, <1>9, <1>10
    <2>2. Range(g) = S
      BY <1>1, <1>2
    <2>3. QED  BY <1>2, <1>3, <1>10, <2>1, <2>2 DEF Freed
  <1>12. QED  BY <1>1, <1>11

\* The fields of erase, when there is something behind first.
CutTo(h, l, p, i, j, nx, pr, hd, tl) ==
  /\ nx = IF i = 0 THEN Wiped(h.next, Gone(p, i, j))
          ELSE [Wiped(h.next, Gone(p, i, j)) EXCEPT ![Before(p, i)] = After(p, j)]
  /\ pr = IF kind # "list" \/ j = Len(p) THEN Wiped(h.prior, Gone(p, i, j))
          ELSE [Wiped(h.prior, Gone(p, i, j)) EXCEPT ![After(p, j)] = Before(p, i)]
  /\ hd = IF i = 0 THEN [h.head EXCEPT ![l] = After(p, j)] ELSE h.head
  /\ tl = IF j = Len(p) THEN [h.tail EXCEPT ![l] = Before(p, i)] ELSE h.tail

LEMMA CutFields ==
  ASSUME NEW h, NEW P, NEW c, NEW l, NEW p, NEW i, NEW j, NEW first, NEW last,
         EraseOf(h, P, c, l, p, i, j, first, last), NEW nx, NEW pr, NEW hd, NEW tl,
         CutTo(h, l, p, i, j, nx, pr, hd, tl)
  PROVE  Cut(h, Fields(nx, pr, Wiped(h.data, Gone(p, i, j)), h.used \ Gone(p, i, j), hd, tl,
                       [h.len EXCEPT ![l] = @ - (j - i)]), l, p, i, j)
  <1>1. PICK S, a, b, ln, wn, wp, wd :
          /\ S = Gone(p, i, j) /\ a = After(p, j) /\ b = Before(p, i)
          /\ ln = [h.len EXCEPT ![l] = @ - (j - i)]
          /\ wn = Wiped(h.next, S) /\ wp = Wiped(h.prior, S) /\ wd = Wiped(h.data, S)
    OBVIOUS
  <1>2. PICK e : e = Fields(nx, pr, wd, h.used \ S, hd, tl, ln)
    OBVIOUS
  <1>3. /\ nx = IF i = 0 THEN wn ELSE [wn EXCEPT ![b] = a]
        /\ pr = IF kind # "list" \/ j = Len(p) THEN wp ELSE [wp EXCEPT ![a] = b]
        /\ hd = IF i = 0 THEN [h.head EXCEPT ![l] = a] ELSE h.head
        /\ tl = IF j = Len(p) THEN [h.tail EXCEPT ![l] = b] ELSE h.tail
    BY <1>1 DEF CutTo
  <1>4. /\ h \in Heaps /\ l \in Object /\ p \in Seq(Nodes) /\ Len(p) \in Nat
        /\ i \in Nat /\ j \in Nat /\ i <= j /\ j <= Len(p) /\ h.len[l] = Len(p)
        /\ \A k \in 1 .. Len(p) : p[k] \in Nodes
        /\ a \in Offset /\ b \in Offset
    BY <1>1, EraseFacts
  <1>5. /\ wn \in [Nodes -> Offset] /\ wp \in [Nodes -> Offset]
        /\ wd \in [Nodes -> Value \union {Linked!Poison}]
        /\ \A x \in Nodes \ S : wn[x] = h.next[x] /\ wp[x] = h.prior[x] /\ wd[x] = h.data[x]
    <2>1. /\ Wiped(h.next, S) \in [Nodes -> Offset] /\ Wiped(h.prior, S) \in [Nodes -> Offset]
          /\ Wiped(h.data, S) \in [Nodes -> Value \union {Linked!Poison}]
          /\ \A x \in Nodes \ S : /\ Wiped(h.next, S)[x] = h.next[x]
                                  /\ Wiped(h.prior, S)[x] = h.prior[x]
                                  /\ Wiped(h.data, S)[x] = h.data[x]
      <3>1. h \in Heaps
        BY <1>4
      <3>2. QED  BY Zenon, <3>1, WipedIs
    <2>2. QED  BY <1>1, <2>1
  <1>6. /\ h.used \in SUBSET Nodes /\ h.head \in [Object -> Offset]
        /\ h.tail \in [Object -> Offset] /\ h.len \in [Object -> Nat]
    BY <1>4, FieldsHeap
  <1>7. /\ i # 0 => i \in 1 .. Len(p) /\ b = p[i] /\ b \in Nodes
        /\ j # Len(p) => j + 1 \in 1 .. Len(p) /\ a = p[j + 1] /\ a \in Nodes
    BY <1>1, <1>4 DEF After, Before
  <1>8. /\ e.next = nx /\ e.prior = pr /\ e.data = wd /\ e.used = h.used \ S
        /\ e.head = hd /\ e.tail = tl /\ e.len = ln
    BY <1>2, FieldsSet
  <1>9. e \in Heaps
    <2>1. nx \in [Nodes -> Offset] /\ pr \in [Nodes -> Offset]
      BY <1>4, <1>3, <1>5, <1>7
    <2>2. hd \in [Object -> Offset] /\ tl \in [Object -> Offset]
      BY <1>4, <1>3, <1>6
    <2>3. ln \in [Object -> Nat]
      BY <1>1, <1>4, <1>6
    <2>4. h.used \ S \in SUBSET Nodes
      BY <1>6
    <2>5. QED  BY <1>5, <1>2, <2>1, <2>2, <2>4, <2>3 DEF Fields, Heaps
  <1>10. ASSUME NEW x \in Nodes \ S
        PROVE  /\ e.data[x] = h.data[x]
               /\ e.next[x] = IF i # 0 /\ x = p[i] THEN a ELSE h.next[x]
               /\ e.prior[x] = IF kind = "list" /\ j # Len(p) /\ x = p[j + 1] THEN b ELSE h.prior[x]
    <2>1. e.data[x] = h.data[x]
      BY <1>5, <1>8
    <2>2. nx[x] = IF i # 0 /\ x = b THEN a ELSE wn[x]
      BY <1>3, <1>5
    <2>3. pr[x] = IF kind = "list" /\ j # Len(p) /\ x = a THEN b ELSE wp[x]
      BY <1>3, <1>5
    <2>4. QED  BY <1>5, <1>7, <1>8, <2>1, <2>2, <2>3
  <1>11. ASSUME NEW k \in Object
        PROVE  /\ e.head[k] = IF k = l /\ i = 0 THEN a ELSE h.head[k]
               /\ e.tail[k] = IF k = l /\ j = Len(p) THEN b ELSE h.tail[k]
               /\ e.len[k] = IF k = l THEN h.len[k] - (j - i) ELSE h.len[k]
    <2>1. e.head[k] = IF k = l /\ i = 0 THEN a ELSE h.head[k]
      BY <1>3, <1>6, <1>8
    <2>2. e.tail[k] = IF k = l /\ j = Len(p) THEN b ELSE h.tail[k]
      BY <1>3, <1>6, <1>8
    <2>3. e.len[k] = IF k = l THEN h.len[k] - (j - i) ELSE h.len[k]
      BY <1>1, <1>6, <1>8
    <2>4. QED  BY <2>1, <2>2, <2>3
  <1>12. Cut(h, e, l, p, i, j)
    <2>1. \A x \in Nodes \ Gone(p, i, j) :
           /\ e.data[x] = h.data[x]
           /\ e.next[x] = IF i # 0 /\ x = p[i] THEN After(p, j) ELSE h.next[x]
           /\ e.prior[x] = IF kind = "list" /\ j # Len(p) /\ x = p[j + 1] THEN Before(p, i)
                           ELSE h.prior[x]
      BY <1>1, <1>10
    <2>2. \A k \in Object :
           /\ e.head[k] = IF k = l /\ i = 0 THEN After(p, j) ELSE h.head[k]
           /\ e.tail[k] = IF k = l /\ j = Len(p) THEN Before(p, i) ELSE h.tail[k]
           /\ e.len[k] = IF k = l THEN h.len[k] - (j - i) ELSE h.len[k]
      BY <1>1, <1>11
    <2>3. e.used = h.used \ Gone(p, i, j)
      BY <1>1, <1>8
    <2>4. QED  BY <1>9, <2>1, <2>2, <2>3 DEF Cut
  <1>13. QED  BY <1>1, <1>12, <1>2

LEMMA ListCuts ==
  ASSUME NEW h, NEW P, NEW c, NEW l, NEW p, NEW i, NEW j, NEW first, NEW last,
         EraseOf(h, P, c, l, p, i, j, first, last), kind = "list"
  PROVE  Cut(h, DList!Erase(h, l, first, last), l, p, i, j)
  <1>1. PICK S, b : S = Gone(p, i, j) /\ b = Before(p, i)
    OBVIOUS
  <1>2. PICK e : e = DList!Erase(h, l, first, last)
    OBVIOUS
  <1>3. /\ h \in Heaps /\ l \in Object /\ Len(p) \in Nat /\ i \in Nat /\ j \in Nat
        /\ i <= j /\ j <= Len(p) /\ Path(h, l, p, c[l])
        /\ first = After(p, i) /\ last = After(p, j)
        /\ (first = 0 <=> i = Len(p)) /\ (last = 0 <=> j = Len(p)) /\ (b = 0 <=> i = 0)
    BY <1>1, EraseFacts
  <1>4. CASE i = Len(p)
    <2>1. e = h
      BY <1>2, <1>3, <1>4, SameNumbers DEF DList!Erase
    <2>2. QED  BY <1>2, <1>4, <2>1, CutNothing
  <1>5. CASE i # Len(p)
    <2>1. h.prior[first] = b
      <3>1. i + 1 \in 1 .. Len(p) /\ first = p[i + 1]
        BY <1>3, <1>5 DEF After
      <3>2. h.prior[p[i + 1]] = IF i + 1 = 1 THEN 0 ELSE p[i + 1 - 1]
        BY <1>3, <3>1 DEF Path
      <3>3. i + 1 - 1 = i /\ (i + 1 = 1 <=> i = 0)
        BY <1>3
      <3>4. QED  BY <1>1, <3>1, <3>2, <3>3 DEF Before
    <2>2. PICK g, f, w : Freed(h, l, S, j - i, first, last, g, f, w)
      BY <1>1, <1>5, FreedGone
    <2>3. e = DList!Rejoin(w, l, b, last)
      <3>1. \A t : DList!Range(t) = Range(t)
        BY DEF DList!Range, Range
      <3>2. /\ DList!Walk(h.next, first, last) = g
            /\ DList!FreeEntries(h, Range(g)) = f
        BY <2>2, SameFree DEF Freed
      <3>3. first # DList!Null
        BY <1>3, <1>5, SameNumbers
      <3>4. w = [f EXCEPT !.len[l] = @ - Len(g)]
        BY <2>2 DEF Freed
      <3>5. QED  BY Zenon, <1>2, <2>1, <3>1, <3>2, <3>3, <3>4 DEF DList!Erase
    <2>4. /\ w.next = Wiped(h.next, S) /\ w.prior = Wiped(h.prior, S) /\ w.data = Wiped(h.data, S)
          /\ w.used = h.used \ S /\ w.head = h.head /\ w.tail = h.tail
          /\ w.len = [h.len EXCEPT ![l] = @ - (j - i)]
          /\ IsFields(w)
      BY <2>2 DEF Freed, Fields, IsFields
    <2>5. PICK nx, pr, hd, tl : Joined(w, l, b, last, nx, pr, hd, tl)
      BY DEF Joined
    <2>6. e = Fields(nx, pr, w.data, w.used, hd, tl, w.len)
      BY <2>3, <2>4, <2>5, RejoinIs
    <2>7. CutTo(h, l, p, i, j, nx, pr, hd, tl)
      BY <1>1, <1>3, <2>4, <2>5 DEF Joined, CutTo
    <2>8. Cut(h, Fields(nx, pr, Wiped(h.data, Gone(p, i, j)), h.used \ Gone(p, i, j), hd, tl,
                       [h.len EXCEPT ![l] = @ - (j - i)]), l, p, i, j)
      BY <2>7, CutFields
    <2>9. QED  BY <1>1, <1>2, <2>4, <2>6, <2>8
  <1>6. QED  BY <1>4, <1>5

PlaceOf(q, n) == CHOOSE k \in DOMAIN q : q[k] = n

LEMMA SListCuts ==
  ASSUME NEW h, NEW P, NEW c, NEW l, NEW p, NEW i, NEW j, NEW first, NEW last,
         EraseOf(h, P, c, l, p, i, j, first, last), kind # "list"
  PROVE  Cut(h, SList!Erase(h, l, first, last), l, p, i, j)
  <1>1. PICK S, b : S = Gone(p, i, j) /\ b = Before(p, i)
    OBVIOUS
  <1>2. PICK e : e = SList!Erase(h, l, first, last)
    OBVIOUS
  <1>3. /\ h \in Heaps /\ l \in Object /\ Len(p) \in Nat /\ i \in Nat /\ j \in Nat
        /\ i <= j /\ j <= Len(p) /\ Path(h, l, p, c[l]) /\ p \in Seq(Nodes)
        /\ first = After(p, i) /\ last = After(p, j)
        /\ (first = 0 <=> i = Len(p)) /\ (last = 0 <=> j = Len(p)) /\ (b = 0 <=> i = 0)
        /\ \A k, m \in 1 .. Len(p) : p[k] = p[m] => k = m
    BY <1>1, EraseFacts
  <1>4. CASE i = Len(p)
    <2>1. e = h
      BY <1>2, <1>3, <1>4, SameNumbers DEF SList!Erase
    <2>2. QED  BY <1>2, <1>4, <2>1, CutNothing
  <1>5. CASE i # Len(p)
    <2>1. SList!find_prior(h, l, first) = b
      <3>1. i + 1 \in 1 .. Len(p) /\ first = p[i + 1] /\ 1 \in 1 .. Len(p)
        BY <1>3, <1>5 DEF After
      <3>2. h.head[l] = p[1]
        BY <1>3, <3>1 DEF Path
      <3>3. SList!Forward(h, l) = p
        BY ForwardIs, SameIterators DEF EraseOf
      <3>4. first = h.head[l] <=> i = 0
        BY <1>3, <3>1, <3>2
      <3>5. DOMAIN p = 1 .. Len(p)
        BY <1>3
      <3>6. (CHOOSE k \in DOMAIN p : p[k] = first) = i + 1
        <4>1. PICK D, m : D = DOMAIN p /\ m = i + 1
          OBVIOUS
        <4>2. m \in D /\ p[m] = first /\ \A k \in D : p[k] = first => k = m
          BY <1>3, <3>1, <3>5, <4>1
        <4>3. (CHOOSE k \in D : p[k] = first) = m
          BY <4>2
        <4>4. QED  BY <4>1, <4>3
      <3>7. SList!find_prior(h, l, first) = IF first = h.head[l] THEN 0 ELSE p[i + 1 - 1]
        <4>1. SList!find_prior(h, l, first) =
                IF first = h.head[l] THEN SList!Null
                ELSE SList!Forward(h, l)[PlaceOf(SList!Forward(h, l), first) - 1]
          BY DEF SList!find_prior, PlaceOf
        <4>2. PlaceOf(p, first) = i + 1
          BY <3>6 DEF PlaceOf
        <4>3. SList!find_prior(h, l, first) =
                IF first = h.head[l] THEN SList!Null ELSE p[PlaceOf(p, first) - 1]
          BY <3>3, <4>1
        <4>4. PlaceOf(p, first) - 1 = i + 1 - 1 /\ SList!Null = 0
          BY <1>3, <4>2, SameNumbers
        <4>5. QED  BY <4>3, <4>4
      <3>8. i + 1 - 1 = i
        BY <1>3
      <3>9. QED  BY <1>1, <3>4, <3>7, <3>8 DEF Before
    <2>2. PICK g, f, w : Freed(h, l, S, j - i, first, last, g, f, w)
      BY <1>1, <1>5, FreedGone
    <2>3. PICK v : v = IF b = 0 THEN [w EXCEPT !.head[l] = last] ELSE [w EXCEPT !.next[b] = last]
      OBVIOUS
    <2>4. e = IF last = 0 THEN [v EXCEPT !.tail[l] = b] ELSE v
      <3>1. \A t : SList!Range(t) = Range(t)
        BY DEF SList!Range, Range
      <3>2. /\ SList!Walk(h.next, first, last) = g
            /\ SList!FreeEntries(h, Range(g)) = f
        BY <2>2, SameFree DEF Freed
      <3>3. first # 0
        BY <1>3, <1>5
      <3>4. w = [f EXCEPT !.len[l] = @ - Len(g)]
        BY <2>2 DEF Freed
      <3>5. QED  BY Zenon, <1>2, <2>1, <2>3, <3>1, <3>2, <3>3, <3>4, SameNumbers DEF SList!Erase
    <2>5. /\ w.next = Wiped(h.next, S) /\ w.prior = Wiped(h.prior, S) /\ w.data = Wiped(h.data, S)
          /\ w.used = h.used \ S /\ w.head = h.head /\ w.tail = h.tail
          /\ w.len = [h.len EXCEPT ![l] = @ - (j - i)]
          /\ IsFields(w)
      BY <2>2 DEF Freed, Fields, IsFields
    <2>6. PICK nx, hd, tl : /\ nx = IF b = 0 THEN w.next ELSE [w.next EXCEPT ![b] = last]
                            /\ hd = IF b = 0 THEN [w.head EXCEPT ![l] = last] ELSE w.head
                            /\ tl = IF last = 0 THEN [w.tail EXCEPT ![l] = b] ELSE w.tail
      OBVIOUS
    <2>7. PICK pr : pr = w.prior
      OBVIOUS
    <2>8. e = Fields(nx, pr, w.data, w.used, hd, tl, w.len)
      <3>1. v = Fields(nx, pr, w.data, w.used, hd, w.tail, w.len)
        <4>1. w = Fields(w.next, pr, w.data, w.used, w.head, w.tail, w.len)
          BY <2>5, <2>7 DEF IsFields
        <4>2. /\ \A x : [w EXCEPT !.head = x] = Fields(w.next, pr, w.data, w.used, x, w.tail, w.len)
              /\ \A x : [w EXCEPT !.next = x] = Fields(x, pr, w.data, w.used, w.head, w.tail, w.len)
          BY <4>1 DEF Fields
        <4>3. CASE b = 0
          <5>1. nx = w.next /\ v = [w EXCEPT !.head = hd]
            BY <2>3, <2>6, <4>3
          <5>2. QED  BY <4>2, <5>1
        <4>4. CASE b # 0
          <5>1. hd = w.head /\ v = [w EXCEPT !.next = nx]
            BY <2>3, <2>6, <4>4
          <5>2. QED  BY <4>2, <5>1
        <4>5. QED  BY <4>3, <4>4
      <3>2. /\ \A x : [v EXCEPT !.tail = x] = Fields(nx, pr, w.data, w.used, hd, x, w.len)
            /\ v.tail = w.tail
        BY <3>1, FieldsSet
      <3>3. CASE last = 0
        <4>1. e = [v EXCEPT !.tail = tl]
          BY <2>4, <2>6, <3>2, <3>3
        <4>2. QED  BY <3>2, <4>1
      <3>4. CASE last # 0
        BY <2>4, <2>6, <3>1, <3>4
      <3>5. QED  BY <3>3, <3>4
    <2>9. CutTo(h, l, p, i, j, nx, pr, hd, tl)
      BY <1>1, <1>3, <2>5, <2>6, <2>7 DEF CutTo
    <2>10. Cut(h, Fields(nx, pr, Wiped(h.data, Gone(p, i, j)), h.used \ Gone(p, i, j), hd, tl,
                       [h.len EXCEPT ![l] = @ - (j - i)]), l, p, i, j)
      BY <2>9, CutFields
    <2>11. QED  BY <1>1, <1>2, <2>5, <2>8, <2>10
  <1>6. QED  BY <1>4, <1>5

LEMMA IterIs ==
  ASSUME NEW h, NEW P, NEW c, Laid(h, P, c), NEW l \in Object, NEW i \in 0 .. Len(P[l])
  PROVE  Linked!IterAt(h, l, i) = After(P[l], i)
  <1>1. Linked!Forward(h, l) = P[l]
    BY ForwardIs
  <1>2. Len(P[l]) \in Nat
    BY PathOwned
  <1>3. Linked!IterAt(h, l, i) = IF i < Len(P[l]) THEN P[l][i + 1] ELSE 0
    BY <1>1, Numbers DEF Linked!IterAt
  <1>4. i < Len(P[l]) <=> i # Len(P[l])
    BY <1>2
  <1>5. QED  BY <1>3, <1>4 DEF After

Erased(h, l, first, last) ==
  IF kind = "list" THEN DList!Erase(h, l, first, last) ELSE SList!Erase(h, l, first, last)

LEMMA ErasedLaid ==
  ASSUME IsFiniteSet(Object), NEW h, NEW P, NEW c, c = [k \in Object |-> c[k]],
         NEW l, NEW p, NEW i, NEW j, NEW first, NEW last, EraseOf(h, P, c, l, p, i, j, first, last)
  PROVE  Held(Erased(h, l, first, last), [c EXCEPT ![l] = Without(c[l], i, j)])
  <1>1. PICK e : e = Erased(h, l, first, last)
    OBVIOUS
  <1>2. Cut(h, e, l, p, i, j)
    <2>1. CASE kind = "list"
      BY <1>1, <2>1, ListCuts DEF Erased
    <2>2. CASE kind # "list"
      BY <1>1, <2>2, SListCuts DEF Erased
    <2>3. QED  BY <2>1, <2>2
  <1>3. PICK d : d = [c EXCEPT ![l] = Without(c[l], i, j)]
    OBVIOUS
  <1>4. Laid(e, [P EXCEPT ![l] = Without(p, i, j)], [c EXCEPT ![l] = Without(c[l], i, j)])
    <2>1. Laid(h, P, c) /\ l \in Object /\ p = P[l] /\ i \in 0 .. Len(p) /\ j \in i .. Len(p)
      BY DEF EraseOf
    <2>2. QED  BY <1>2, <2>1, CutLaid
  <1>5. d = [k \in Object |-> d[k]]
    BY <1>3
  <1>6. Held(e, d)
    BY <1>3, <1>4, <1>5 DEF Held
  <1>7. QED  BY <1>1, <1>3, <1>6

LEMMA ErasedHeld ==
  ASSUME IsFiniteSet(Object), NEW h, NEW c, Held(h, c), NEW l \in Object,
         NEW i \in 0 .. Len(c[l]), NEW j \in i .. Len(c[l])
  PROVE  Held(Erased(h, l, Linked!IterAt(h, l, i), Linked!IterAt(h, l, j)),
              [c EXCEPT ![l] = Without(c[l], i, j)])
  <1>1. PICK P : Laid(h, P, c) /\ c = [k \in Object |-> c[k]]
    BY DEF Held
  <1>2. PICK p, first, last :
          p = P[l] /\ first = Linked!IterAt(h, l, i) /\ last = Linked!IterAt(h, l, j)
    OBVIOUS
  <1>3. Len(p) = Len(c[l]) /\ Len(p) \in Nat
    BY <1>1, <1>2, PathOwned
  <1>4. first = After(p, i) /\ last = After(p, j)
    <2>1. i \in 0 .. Len(P[l]) /\ j \in 0 .. Len(P[l])
      BY <1>2, <1>3
    <2>2. QED  BY <1>1, <1>2, <2>1, IterIs
  <1>5. EraseOf(h, P, c, l, p, i, j, first, last)
    BY <1>1, <1>2, <1>3, <1>4 DEF EraseOf, Ends
  <1>6. QED  BY <1>1, <1>2, <1>5, ErasedLaid

Destroyed(h, l) == IF kind = "list" THEN DList!Destroy(h, l) ELSE SList!Destroy(h, l)

LEMMA DestroyedHeld ==
  ASSUME IsFiniteSet(Object), NEW h, NEW c, Held(h, c), NEW l \in Object
  PROVE  Held(Destroyed(h, l), [c EXCEPT ![l] = <<>>])
  <1>1. PICK P : Laid(h, P, c) /\ c = [k \in Object |-> c[k]]
    BY DEF Held
  <1>2. PICK p : p = P[l]
    OBVIOUS
  <1>3. /\ Len(p) = Len(c[l]) /\ Len(p) \in Nat /\ h.len[l] = Len(p) /\ c[l] \in Seq(Value)
        /\ Len(p) # 0 => h.head[l] = p[1]
    <2>1. PICK s : s = c[l]
      OBVIOUS
    <2>2. Path(h, l, p, s)
      BY <1>1, <1>2, <2>1 DEF Laid
    <2>3. /\ Len(p) = Len(s) /\ p \in Seq(Nodes) /\ h.len[l] = Len(p) /\ s \in Seq(Value)
          /\ Len(p) # 0 => h.head[l] = p[1]
      BY <2>2 DEF Path
    <2>4. QED  BY <2>1, <2>3
  <1>4. CASE Len(p) = 0
    <2>1. Destroyed(h, l) = h
      <3>1. h.len[l] = 0
        BY <1>3, <1>4
      <3>2. QED  BY Zenon, <3>1 DEF Destroyed, DList!Destroy, SList!Destroy
    <2>2. c[l] = <<>>
      <3>1. PICK s : s = c[l]
        OBVIOUS
      <3>2. s \in Seq(Value) /\ Len(s) = 0
        BY <1>3, <1>4, <3>1
      <3>3. s = <<>>
        BY <3>2
      <3>4. QED  BY <3>1, <3>3
    <2>3. [c EXCEPT ![l] = <<>>] = c
      BY <1>1, <2>2
    <2>4. QED  BY <2>1, <2>3
  <1>5. CASE Len(p) # 0
    <2>1. Destroyed(h, l) = Erased(h, l, h.head[l], 0)
      BY <1>3, <1>5, SameNumbers DEF Destroyed, Erased, DList!Destroy, SList!Destroy
    <2>2. EraseOf(h, P, c, l, p, 0, Len(p), h.head[l], 0)
      BY <1>1, <1>2, <1>3, <1>5 DEF EraseOf, Ends, After
    <2>3. Held(Erased(h, l, h.head[l], 0), [c EXCEPT ![l] = Without(c[l], 0, Len(p))])
      BY <1>1, <2>2, ErasedLaid
    <2>4. Without(c[l], 0, Len(p)) = <<>>
      <3>1. PICK s : s = c[l]
        OBVIOUS
      <3>2. s \in Seq(Value) /\ Len(p) = Len(s) /\ Len(s) \in Nat
        BY <1>3, <3>1
      <3>3. 0 \in 0 .. Len(s) /\ Len(s) \in 0 .. Len(s)
        BY <3>2
      <3>4. /\ Without(s, 0, Len(s)) \in Seq(Value)
            /\ Len(Without(s, 0, Len(s))) = Len(s) - (Len(s) - 0)
        BY <3>2, <3>3, WithoutIs
      <3>5. QED  BY <3>1, <3>2, <3>4
    <2>5. QED  BY <2>1, <2>3, <2>4
  <1>6. QED  BY <1>4, <1>5

-----------------------------------------------------------------------------
(* Copies and moves *)

CopyOf(h, l, m) == IF kind = "list" THEN DList!CopyOf(h, l, m) ELSE SList!CopyOf(h, l, m)

LEMMA CopyHeld ==
  ASSUME IsFiniteSet(Object), NEW h, NEW c, Held(h, c), NEW l \in Object, NEW m \in Object,
         c[l] = <<>>, Count(c) + Len(c[m]) <= 2 * MaxLen
  PROVE  Held(CopyOf(h, l, m), [c EXCEPT ![l] = c[m]])
  <1>1. PICK P : Laid(h, P, c)
    BY DEF Held
  <1>2. PICK t : t = c[m]
    OBVIOUS
  <1>3. t \in Seq(Value)
    <2>1. c \in [Object -> Seq(Value)]
      BY HeldSeqs
    <2>2. QED  BY <1>2, <2>1
  <1>4. Linked!Values(h, Linked!Forward(h, m)) = t
    <2>1. Linked!Forward(h, m) = P[m] /\ Linked!Values(h, P[m]) = c[m]
      BY <1>1, ForwardIs
    <2>2. QED  BY <1>2, <2>1
  <1>5. PICK f, s : /\ s = Linked!Values(h, Linked!Forward(h, m)) /\ Builds(f, h, l, s)
                    /\ kind = "list" => DList!CopyOf(h, l, m) = f[DOMAIN s]
                    /\ kind # "list" => SList!CopyOf(h, l, m) = f[DOMAIN s]
    BY <1>3, <1>4, CopyIs
  <1>6. CopyOf(h, l, m) = f[DOMAIN t] /\ s = t
    BY <1>4, <1>5 DEF CopyOf
  <1>7. Count(c) + Len(t) <= 2 * MaxLen /\ Builds(f, h, l, t)
    BY <1>2, <1>5, <1>6
  <1>8. Held(f[DOMAIN t], [c EXCEPT ![l] = t])
    BY <1>3, <1>7, BuildsHeld
  <1>9. QED  BY <1>2, <1>6, <1>8

Steal(h, l, m) == IF kind = "list" THEN DList!Steal(h, l, m) ELSE SList!Steal(h, l, m)

MovedTo(c, l, m) == [c EXCEPT ![l] = c[m], ![m] = <<>>]

\* e is h when the header of m went over to l.
Stolen(h, e, l, m) ==
  /\ e \in Heaps /\ e.next = h.next /\ e.prior = h.prior /\ e.data = h.data /\ e.used = h.used
  /\ \A k \in Object :
       /\ e.head[k] = IF k = m THEN 0 ELSE IF k = l THEN h.head[m] ELSE h.head[k]
       /\ e.tail[k] = IF k = m THEN 0 ELSE IF k = l THEN h.tail[m] ELSE h.tail[k]
       /\ e.len[k] = IF k = m THEN 0 ELSE IF k = l THEN h.len[m] ELSE h.len[k]

Headers(g, hd, tl, ln) == [g EXCEPT !.head = hd, !.tail = tl, !.len = ln]

LEMMA HeadersSet ==
  ASSUME NEW nx, NEW pr, NEW da, NEW us, NEW ha, NEW ta, NEW na, NEW g,
         g = Fields(nx, pr, da, us, ha, ta, na), NEW hd, NEW tl, NEW ln
  PROVE  Headers(g, hd, tl, ln) = Fields(nx, pr, da, us, hd, tl, ln)
  <1>1. PICK g1 : g1 = [g EXCEPT !.head = hd]
    OBVIOUS
  <1>2. PICK g2 : g2 = [g1 EXCEPT !.tail = tl]
    OBVIOUS
  <1>3. g1 = Fields(nx, pr, da, us, hd, ta, na)
    BY <1>1, FieldsSet
  <1>4. g2 = Fields(nx, pr, da, us, hd, tl, na)
    BY <1>2, <1>3, FieldsSet
  <1>5. [g2 EXCEPT !.len = ln] = Fields(nx, pr, da, us, hd, tl, ln)
    BY <1>4, FieldsSet
  <1>6. [g EXCEPT !.head = hd, !.tail = tl, !.len = ln] = [g2 EXCEPT !.len = ln]
    BY <1>1, <1>2
  <1>7. QED  BY Zenon, <1>5, <1>6 DEF Headers

LEMMA StealIs ==
  ASSUME NEW h, h \in Heaps, NEW l \in Object, NEW m \in Object, l # m
  PROVE  Stolen(h, Steal(h, l, m), l, m)
  <1>1. PICK hd, tl, ln : /\ hd = [[h.head EXCEPT ![l] = h.head[m]] EXCEPT ![m] = 0]
                          /\ tl = [[h.tail EXCEPT ![l] = h.tail[m]] EXCEPT ![m] = 0]
                          /\ ln = [[h.len EXCEPT ![l] = h.len[m]] EXCEPT ![m] = 0]
    OBVIOUS
  <1>2. Steal(h, l, m) = [h EXCEPT !.head = hd, !.tail = tl, !.len = ln]
    BY <1>1, SameNumbers DEF Steal, DList!Steal, SList!Steal
  <1>3. PICK nx, pr, da, us, ha, ta, na :
          /\ nx = h.next /\ pr = h.prior /\ da = h.data /\ us = h.used
          /\ ha = h.head /\ ta = h.tail /\ na = h.len
    OBVIOUS
  <1>4. PICK g : g = Fields(nx, pr, da, us, ha, ta, na)
    OBVIOUS
  <1>5. PICK e : e = Steal(h, l, m)
    OBVIOUS
  <1>6. h = g
    BY <1>3, <1>4, FieldsHeap
  <1>7. e = Fields(nx, pr, da, us, hd, tl, ln)
    <2>1. e = Headers(g, hd, tl, ln)
      BY <1>2, <1>5, <1>6 DEF Headers
    <2>2. Headers(g, hd, tl, ln) = Fields(nx, pr, da, us, hd, tl, ln)
      BY <1>4, HeadersSet
    <2>3. QED  BY <2>1, <2>2
  <1>8. /\ e.next = nx /\ e.prior = pr /\ e.data = da /\ e.used = us
        /\ e.head = hd /\ e.tail = tl /\ e.len = ln
    BY <1>7, FieldsSet
  <1>9. /\ ha \in [Object -> Offset] /\ ta \in [Object -> Offset]
        /\ na \in [Object -> Nat] /\ 0 \in Offset
        /\ nx \in [Nodes -> Offset] /\ pr \in [Nodes -> Offset]
        /\ da \in [Nodes -> Value \union {Linked!Poison}] /\ us \in SUBSET Nodes
    <2>1. 0 \in Offset
      BY Numbers DEF Offset
    <2>2. QED  BY <1>3, <2>1, FieldsHeap
  <1>10. /\ hd = [[ha EXCEPT ![l] = ha[m]] EXCEPT ![m] = 0]
         /\ tl = [[ta EXCEPT ![l] = ta[m]] EXCEPT ![m] = 0]
         /\ ln = [[na EXCEPT ![l] = na[m]] EXCEPT ![m] = 0]
    BY <1>1, <1>3
  <1>11. \A k \in Object :
          /\ hd[k] = IF k = m THEN 0 ELSE IF k = l THEN ha[m] ELSE ha[k]
          /\ tl[k] = IF k = m THEN 0 ELSE IF k = l THEN ta[m] ELSE ta[k]
          /\ ln[k] = IF k = m THEN 0 ELSE IF k = l THEN na[m] ELSE na[k]
    BY <1>9, <1>10
  <1>12. hd \in [Object -> Offset] /\ tl \in [Object -> Offset] /\ ln \in [Object -> Nat]
    BY <1>9, <1>10
  <1>13. e \in Heaps
    BY <1>7, <1>9, <1>12 DEF Fields, Heaps
  <1>14. Stolen(h, e, l, m)
    BY <1>3, <1>8, <1>11, <1>13 DEF Stolen
  <1>15. QED  BY <1>5, <1>14

LEMMA StealHeld ==
  ASSUME IsFiniteSet(Object), NEW h, NEW c, Held(h, c), NEW l \in Object, NEW m \in Object,
         l # m, c[l] = <<>>
  PROVE  Held(Steal(h, l, m), MovedTo(c, l, m))
  <1>1. PICK P : Laid(h, P, c) /\ c = [k \in Object |-> c[k]]
    BY DEF Held
  <1>2. PICK e, d, Q : /\ e = Steal(h, l, m) /\ d = MovedTo(c, l, m)
                       /\ Q = [[P EXCEPT ![l] = P[m]] EXCEPT ![m] = <<>>]
    OBVIOUS
  <1>3. /\ h \in Heaps /\ P \in [Object -> Seq(Nodes)]
        /\ \A k \in Object : Path(h, k, P[k], c[k])
        /\ \A k, n \in Object : k # n => Own(P[k]) \cap Own(P[n]) = {}
        /\ h.used = UNION {Own(P[k]) : k \in Object}
        /\ Cardinality(h.used) = Count(c)
    BY <1>1 DEF Laid
  <1>4. /\ e \in Heaps /\ e.next = h.next /\ e.prior = h.prior /\ e.data = h.data
        /\ e.used = h.used
        /\ \A k \in Object :
             /\ e.head[k] = IF k = m THEN 0 ELSE IF k = l THEN h.head[m] ELSE h.head[k]
             /\ e.tail[k] = IF k = m THEN 0 ELSE IF k = l THEN h.tail[m] ELSE h.tail[k]
             /\ e.len[k] = IF k = m THEN 0 ELSE IF k = l THEN h.len[m] ELSE h.len[k]
    <2>1. Stolen(h, Steal(h, l, m), l, m)
      BY <1>3, StealIs
    <2>2. Stolen(h, e, l, m)
      BY <1>2, <2>1
    <2>3. QED  BY <2>2 DEF Stolen
  <1>5. \A k \in Object :
          /\ Q[k] = IF k = m THEN <<>> ELSE IF k = l THEN P[m] ELSE P[k]
          /\ d[k] = IF k = m THEN <<>> ELSE IF k = l THEN c[m] ELSE c[k]
    BY <1>1, <1>2, <1>3 DEF MovedTo
  <1>6. Q \in [Object -> Seq(Nodes)] /\ d = [k \in Object |-> d[k]]
    <2>1. <<>> \in Seq(Nodes)
      OBVIOUS
    <2>2. Q \in [Object -> Seq(Nodes)]
      BY <1>2, <1>3, <2>1
    <2>3. d = [k \in Object |-> d[k]]
      BY <1>1, <1>2 DEF MovedTo
    <2>4. QED  BY <2>2, <2>3
  <1>7. ASSUME NEW k \in Object  PROVE Path(e, k, Q[k], d[k])
    <2>1. CASE k = m
      <3>1. Q[k] = <<>> /\ d[k] = <<>> /\ e.head[k] = 0 /\ e.tail[k] = 0 /\ e.len[k] = 0
        BY <1>4, <1>5, <2>1
      <3>2. Path(e, k, <<>>, <<>>)
        BY <3>1 DEF Path
      <3>3. QED  BY <3>1, <3>2
    <2>2. CASE k = l
      <3>1. Q[k] = P[m] /\ d[k] = c[m] /\ e.head[k] = h.head[m] /\ e.tail[k] = h.tail[m]
            /\ e.len[k] = h.len[m]
        BY <1>4, <1>5, <2>2
      <3>2. PICK p, s : p = P[m] /\ s = c[m]
        OBVIOUS
      <3>3. Path(h, m, p, s)
        BY <1>3, <3>2
      <3>4. Path(e, k, p, s)
        BY <1>4, <3>1, <3>3 DEF Path
      <3>5. QED  BY <3>1, <3>2, <3>4
    <2>3. CASE k # l /\ k # m
      <3>1. Q[k] = P[k] /\ d[k] = c[k] /\ e.head[k] = h.head[k] /\ e.tail[k] = h.tail[k]
            /\ e.len[k] = h.len[k]
        BY <1>4, <1>5, <2>3
      <3>2. PICK p, s : p = P[k] /\ s = c[k]
        OBVIOUS
      <3>3. Path(h, k, p, s)
        BY <1>3, <3>2
      <3>4. Path(e, k, p, s)
        BY <1>4, <3>1, <3>3 DEF Path
      <3>5. QED  BY <3>1, <3>2, <3>4
    <2>4. QED  BY <2>1, <2>2, <2>3
  <1>8. Own(<<>>) = {} /\ Own(P[l]) = {}
    <2>1. Own(<<>>) = {}
      BY DEF Own
    <2>2. Len(P[l]) = Len(c[l])
      BY <1>1, PathOwned
    <2>3. P[l] = <<>>
      BY <1>3, <2>2
    <2>4. QED  BY <2>1, <2>3
  <1>9. \A k \in Object : Own(Q[k]) = IF k = m THEN {} ELSE IF k = l THEN Own(P[m]) ELSE Own(P[k])
    BY <1>5, <1>8
  <1>10. \A k, n \in Object : k # n => Own(Q[k]) \cap Own(Q[n]) = {}
    BY <1>3, <1>9
  <1>11. e.used = UNION {Own(Q[k]) : k \in Object}
    <2>1. ASSUME NEW x, NEW k \in Object, x \in Own(P[k])
          PROVE  \E n \in Object : x \in Own(Q[n])
      <3>1. CASE k = m
        <4>1. Own(Q[l]) = Own(P[m])
          BY <1>9
        <4>2. QED  BY <2>1, <3>1, <4>1
      <3>2. CASE k # m
        <4>1. k # l
          BY <1>8, <2>1
        <4>2. Own(Q[k]) = Own(P[k])
          BY <1>9, <3>2, <4>1
        <4>3. QED  BY <2>1, <4>2
      <3>3. QED  BY <3>1, <3>2
    <2>2. ASSUME NEW x, NEW k \in Object, x \in Own(Q[k])
          PROVE  \E n \in Object : x \in Own(P[n])
      <3>1. CASE k = m
        BY <1>9, <2>2, <3>1
      <3>2. CASE k = l /\ k # m
        <4>1. Own(Q[k]) = Own(P[m])
          BY <1>9, <3>2
        <4>2. QED  BY <2>2, <4>1
      <3>3. CASE k # l /\ k # m
        <4>1. Own(Q[k]) = Own(P[k])
          BY <1>9, <3>3
        <4>2. QED  BY <2>2, <4>1
      <3>4. QED  BY <3>1, <3>2, <3>3
    <2>3. h.used = UNION {Own(P[k]) : k \in Object} /\ e.used = h.used
      BY <1>3, <1>4
    <2>4. UNION {Own(P[k]) : k \in Object} = UNION {Own(Q[k]) : k \in Object}
      BY <2>1, <2>2
    <2>5. QED  BY <2>3, <2>4
  <1>12. Count(d) = Count(c)
    <2>1. Seqs(c)
      BY HeldSeqs
    <2>2. PICK s, b : s = c[m] /\ b = [c EXCEPT ![l] = s]
      OBVIOUS
    <2>3. Len(s) \in Nat /\ Len(c[l]) = 0
      BY <2>1, <2>2 DEF Seqs
    <2>4. Seqs(b) /\ Count(c) \in Nat /\ Count(b) = Count(c) - Len(c[l]) + Len(s)
      <3>1. /\ Seqs([c EXCEPT ![l] = s]) /\ Count(c) \in Nat
            /\ Count([c EXCEPT ![l] = s]) = Count(c) - Len(c[l]) + Len(s)
        BY <2>1, <2>3, CountSet
      <3>2. QED  BY <2>2, <3>1
    <2>5. b[m] = s
      BY <2>1, <2>2 DEF Seqs
    <2>6. PICK z : z = <<>>
      OBVIOUS
    <2>7. Len(z) = 0
      BY <2>6
    <2>8. Count([b EXCEPT ![m] = z]) = Count(b) - Len(b[m]) + Len(z)
      BY <2>4, <2>7, CountSet
    <2>9. d = [b EXCEPT ![m] = z]
      BY <1>2, <2>2, <2>6 DEF MovedTo
    <2>10. QED  BY <2>3, <2>4, <2>5, <2>7, <2>8, <2>9
  <1>13. Laid(e, Q, d)
    BY <1>3, <1>4, <1>6, <1>7, <1>10, <1>11, <1>12 DEF Laid
  <1>14. QED  BY <1>2, <1>6, <1>13 DEF Held

Empty(c, l) == [c EXCEPT ![l] = <<>>]
Given(c, l, m) == [c EXCEPT ![l] = c[m]]

LEMMA EmptyIs ==
  ASSUME IsFiniteSet(Object), NEW c, Seqs(c), NEW l \in Object, NEW m \in Object, l # m
  PROVE  /\ Seqs(Empty(c, l)) /\ Empty(c, l)[l] = <<>> /\ Empty(c, l)[m] = c[m]
         /\ Given(Empty(c, l), l, m) = Given(c, l, m)
         /\ MovedTo(Empty(c, l), l, m) = MovedTo(c, l, m)
         /\ Empty(Given(c, l, m), m) = MovedTo(c, l, m)
         /\ Given(c, l, m)[m] = c[m]
         /\ Len(c[m]) \in Nat /\ Len(c[m]) <= Count(Empty(c, l)) /\ Count(Empty(c, l)) \in Nat
         /\ Count(Given(c, l, m)) = Count(Empty(c, l)) + Len(c[m])
         /\ Count(MovedTo(c, l, m)) = Count(Empty(c, l))
  <1>1. PICK z, s : z = <<>> /\ s = c[m]
    OBVIOUS
  <1>2. Len(z) = 0 /\ Len(s) \in Nat
    BY <1>1 DEF Seqs
  <1>3. PICK d : d = [c EXCEPT ![l] = z]
    OBVIOUS
  <1>4. PICK g : g = [d EXCEPT ![l] = s]
    OBVIOUS
  <1>5. PICK w : w = [g EXCEPT ![m] = z]
    OBVIOUS
  <1>6. c = [k \in Object |-> c[k]]
    BY DEF Seqs
  <1>7. d[l] = z /\ d[m] = s /\ g = [c EXCEPT ![l] = s] /\ g[m] = s
    BY <1>1, <1>3, <1>4, <1>6
  <1>8. d = Empty(c, l) /\ g = Given(c, l, m) /\ g = Given(d, l, m)
    BY <1>1, <1>3, <1>4, <1>7 DEF Empty, Given
  <1>9. w = MovedTo(c, l, m) /\ w = MovedTo(d, l, m) /\ w = Empty(g, m)
    BY <1>1, <1>4, <1>5, <1>7 DEF MovedTo, Empty
  <1>10. Seqs(d)
    <2>1. Seqs([c EXCEPT ![l] = z])
      BY <1>2, CountSet
    <2>2. QED  BY <1>3, <2>1
  <1>11. Seqs(g) /\ Count(d) \in Nat /\ Count(g) = Count(d) - Len(d[l]) + Len(s)
    <2>1. /\ Seqs([d EXCEPT ![l] = s]) /\ Count(d) \in Nat
          /\ Count([d EXCEPT ![l] = s]) = Count(d) - Len(d[l]) + Len(s)
      BY <1>2, <1>10, CountSet
    <2>2. QED  BY <1>4, <2>1
  <1>12. Count(w) = Count(g) - Len(g[m]) + Len(z)
    <2>1. Seqs(g) /\ Len(z) \in Nat
      BY <1>2, <1>11
    <2>2. Count([g EXCEPT ![m] = z]) = Count(g) - Len(g[m]) + Len(z)
      BY <2>1, CountSet
    <2>3. QED  BY <1>5, <2>2
  <1>13. Len(d[m]) <= Count(d)
    BY <1>2, <1>10, CountSet
  <1>14. /\ Len(s) <= Count(d) /\ Count(g) = Count(d) + Len(s) /\ Count(w) = Count(d)
    BY <1>2, <1>7, <1>11, <1>12, <1>13
  <1>15. QED  BY <1>1, <1>2, <1>7, <1>8, <1>9, <1>10, <1>11, <1>14

LEMMA LoadHeld ==
  ASSUME IsFiniteSet(Object), NEW h, NEW c, Held(h, c), NEW l \in Object, NEW m \in Object, l # m,
         c[l] = <<>>, Count(Given(c, l, m)) <= 2 * MaxLen
  PROVE  Held(CopyOf(h, l, m), Given(c, l, m))
  <1>1. Seqs(c)
    BY HeldSeqs
  <1>2. Empty(c, l) = c
    BY <1>1 DEF Seqs, Empty
  <1>3. Count(Given(c, l, m)) = Count(c) + Len(c[m])
    BY <1>1, <1>2, EmptyIs
  <1>4. Count(c) + Len(c[m]) <= 2 * MaxLen
    BY <1>3
  <1>5. Held(CopyOf(h, l, m), [c EXCEPT ![l] = c[m]])
    BY <1>4, CopyHeld
  <1>6. QED  BY <1>5 DEF Given

LEMMA DestroyFirst ==
  ASSUME IsFiniteSet(Object), NEW h, NEW c, Held(h, c), NEW l \in Object
  PROVE  Held(Destroyed(h, l), Empty(c, l))
  <1>1. Held(Destroyed(h, l), [c EXCEPT ![l] = <<>>])
    BY DestroyedHeld
  <1>2. QED  BY <1>1 DEF Empty

LEMMA CopiedHeld ==
  ASSUME IsFiniteSet(Object), NEW h, NEW c, Held(h, c), NEW l \in Object, NEW m \in Object, l # m,
         Count(Given(c, l, m)) <= 2 * MaxLen
  PROVE  Held(CopyOf(Destroyed(h, l), l, m), Given(c, l, m))
  <1>1. PICK d, g : d = Empty(c, l) /\ g = Destroyed(h, l)
    OBVIOUS
  <1>2. Held(g, d)
    BY <1>1, DestroyFirst
  <1>3. Seqs(c)
    BY HeldSeqs
  <1>4. Given(d, l, m) = Given(c, l, m) /\ d[l] = <<>>
    BY <1>1, <1>3, EmptyIs
  <1>5. Held(CopyOf(g, l, m), Given(d, l, m))
    <2>1. Count(Given(d, l, m)) <= 2 * MaxLen
      BY <1>4
    <2>2. QED  BY <1>2, <1>4, <2>1, LoadHeld
  <1>6. QED  BY <1>1, <1>4, <1>5

Moves(h, l, m) ==
  IF same THEN Steal(Destroyed(h, l), l, m)
  ELSE Destroyed(CopyOf(Destroyed(h, l), l, m), m)

LEMMA MoveHeld ==
  ASSUME IsFiniteSet(Object), NEW h, NEW c, Held(h, c), NEW l \in Object, NEW m \in Object, l # m,
         Count(MovedTo(c, l, m)) <= MaxLen
  PROVE  Held(Moves(h, l, m), MovedTo(c, l, m))
  <1>1. PICK d, g, w, z : /\ d = Empty(c, l) /\ g = Destroyed(h, l) /\ w = MovedTo(c, l, m)
                          /\ z = Given(c, l, m)
    OBVIOUS
  <1>2. Seqs(c)
    BY HeldSeqs
  <1>3. /\ d[l] = <<>> /\ w = MovedTo(d, l, m) /\ w = Empty(z, m)
        /\ Len(c[m]) \in Nat /\ Len(c[m]) <= Count(d) /\ Count(d) \in Nat
        /\ Count(z) = Count(d) + Len(c[m]) /\ Count(w) = Count(d)
    BY <1>1, <1>2, EmptyIs
  <1>4. CASE same
    <2>1. Held(g, d)
      BY <1>1, DestroyFirst
    <2>2. Held(Steal(g, l, m), MovedTo(d, l, m))
      BY <1>3, <2>1, StealHeld
    <2>3. Moves(h, l, m) = Steal(g, l, m)
      BY <1>1, <1>4 DEF Moves
    <2>4. QED  BY <1>1, <1>3, <2>2, <2>3
  <1>5. CASE ~same
    <2>1. Count(z) <= 2 * MaxLen
      BY <1>1, <1>3, ContainerAssumption
    <2>2. PICK e : e = CopyOf(g, l, m)
      OBVIOUS
    <2>3. Held(e, z)
      <3>1. Count(Given(c, l, m)) <= 2 * MaxLen
        BY <1>1, <2>1
      <3>2. Held(CopyOf(Destroyed(h, l), l, m), Given(c, l, m))
        BY <3>1, CopiedHeld
      <3>3. QED  BY <1>1, <2>2, <3>2
    <2>4. Held(Destroyed(e, m), Empty(z, m))
      BY <2>3, DestroyFirst
    <2>5. Moves(h, l, m) = Destroyed(e, m)
      BY <1>1, <1>5, <2>2 DEF Moves
    <2>6. QED  BY <1>1, <1>3, <2>4, <2>5
  <1>6. QED  BY <1>4, <1>5

-----------------------------------------------------------------------------
(* The first entry with a value *)

Hits(s, v)  == {i \in 1 .. Len(s) : s[i] = v}
First(s, v) == CHOOSE i \in Hits(s, v) : \A k \in Hits(s, v) : i <= k

LEMMA FirstIs ==
  ASSUME NEW s, NEW v, Hits(s, v) # {}
  PROVE  First(s, v) \in 1 .. Len(s) /\ s[First(s, v)] = v
  <1>1. Hits(s, v) \subseteq Nat
    BY DEF Hits
  <1>2. \E i \in Hits(s, v) : \A k \in Hits(s, v) : i <= k
    BY <1>1, LeastNumber
  <1>3. First(s, v) \in Hits(s, v)
    BY <1>2 DEF First
  <1>4. QED  BY <1>3 DEF Hits

LEMMA FirstRemovedIs ==
  ASSUME NEW s, NEW v
  PROVE  /\ Contains(s, v) <=> Hits(s, v) # {}
         /\ Hits(s, v) # {} => RemoveFirst(s, v) = Without(s, First(s, v) - 1, First(s, v))
  <1>1. Contains(s, v) <=> Hits(s, v) # {}
    BY DEF Contains, Hits
  <1>2. ASSUME Hits(s, v) # {}
        PROVE  RemoveFirst(s, v) = Without(s, First(s, v) - 1, First(s, v))
    <2>1. SelectInSeq(s, LAMBDA x : x = v) = First(s, v)
      <3>1. SelectInSeq(s, LAMBDA x : x = v) = IF Hits(s, v) # {} THEN Min(Hits(s, v)) ELSE 0
        BY DEF SelectInSeq, Hits
      <3>2. Min(Hits(s, v)) = First(s, v)
        BY DEF Min, First
      <3>3. QED  BY <1>2, <3>1, <3>2
    <2>2. \E i \in 1 .. Len(s) : s[i] = v
      BY <1>2 DEF Hits
    <2>3. RemoveFirst(s, v) = RemoveAt(s, SelectInSeq(s, LAMBDA x : x = v))
      BY <2>2 DEF RemoveFirst
    <2>4. RemoveFirst(s, v) = RemoveAt(s, First(s, v))
      BY <2>1, <2>3
    <2>5. RemoveAt(s, First(s, v)) = Without(s, First(s, v) - 1, First(s, v))
      BY DEF RemoveAt, Without
    <2>6. QED  BY <2>4, <2>5
  <1>3. QED  BY <1>1, <1>2

LEMMA FindIs ==
  ASSUME NEW h, NEW P, NEW c, Laid(h, P, c), NEW l \in Object, NEW v
  PROVE  Linked!Find(h, l, v) = IF Hits(c[l], v) = {} THEN 0 ELSE P[l][First(c[l], v)]
  <1>1. PICK p, s : p = P[l] /\ s = c[l]
    OBVIOUS
  <1>2. Path(h, l, p, s)
    BY <1>1 DEF Laid
  <1>3. /\ p \in Seq(Nodes) /\ s \in Seq(Value) /\ Len(p) = Len(s)
        /\ \A i \in 1 .. Len(p) : h.data[p[i]] = s[i]
    BY <1>2 DEF Path
  <1>4. DOMAIN p = 1 .. Len(s)
    BY <1>3
  <1>5. {i \in DOMAIN p : h.data[p[i]] = v} = Hits(s, v)
    BY <1>3, <1>4 DEF Hits
  <1>6. Linked!Forward(h, l) = p
    BY <1>1, ForwardIs
  <1>7. Linked!Min(Hits(s, v)) = First(s, v)
    BY DEF Linked!Min, First
  <1>8. Linked!Find(h, l, v) = IF Hits(s, v) = {} THEN 0 ELSE p[Linked!Min(Hits(s, v))]
    BY <1>5, <1>6, Numbers DEF Linked!Find
  <1>9. QED  BY <1>1, <1>7, <1>8

ValueErased(h, l, v) ==
  Erased(h, l, Linked!Find(h, l, v),
         IF Linked!Find(h, l, v) = 0 THEN 0 ELSE h.next[Linked!Find(h, l, v)])

LeftOf(s, v) == IF Contains(s, v) THEN RemoveFirst(s, v) ELSE s

LEMMA ValueHeld ==
  ASSUME IsFiniteSet(Object), NEW h, NEW c, Held(h, c), NEW l \in Object, NEW v
  PROVE  Held(ValueErased(h, l, v), [c EXCEPT ![l] = LeftOf(c[l], v)])
  <1>1. PICK P : Laid(h, P, c) /\ c = [k \in Object |-> c[k]]
    BY DEF Held
  <1>2. PICK p, s, a, b : /\ p = P[l] /\ s = c[l] /\ a = Linked!Find(h, l, v)
                          /\ b = IF a = 0 THEN 0 ELSE h.next[a]
    OBVIOUS
  <1>3. a = IF Hits(s, v) = {} THEN 0 ELSE p[First(s, v)]
    BY <1>1, <1>2, FindIs
  <1>4. ValueErased(h, l, v) = Erased(h, l, a, b)
    BY <1>2 DEF ValueErased
  <1>5. CASE Hits(s, v) = {}
    <2>1. a = 0
      BY <1>3, <1>5
    <2>2. Erased(h, l, 0, b) = h
      BY SameNumbers DEF Erased, DList!Erase, SList!Erase
    <2>3. LeftOf(s, v) = s
      BY <1>5, FirstRemovedIs DEF LeftOf
    <2>4. [c EXCEPT ![l] = LeftOf(c[l], v)] = c
      BY <1>1, <1>2, <2>3
    <2>5. QED  BY <1>4, <2>1, <2>2, <2>4
  <1>6. CASE Hits(s, v) # {}
    <2>1. PICK m : m = First(s, v)
      OBVIOUS
    <2>2. Path(h, l, p, s)
      BY <1>1, <1>2 DEF Laid
    <2>3. /\ p \in Seq(Nodes) /\ Len(p) = Len(s) /\ Len(p) \in Nat
          /\ \A i \in 1 .. Len(p) : h.next[p[i]] = IF i = Len(p) THEN 0 ELSE p[i + 1]
      BY <2>2 DEF Path
    <2>4. m \in 1 .. Len(p) /\ m - 1 \in 0 .. Len(p) /\ m \in m - 1 .. Len(p) /\ m - 1 # Len(p)
          /\ m - 1 + 1 = m
      BY <1>6, <2>1, <2>3, FirstIs
    <2>5. a = p[m] /\ a # 0
      <3>1. p[m] \in Nodes
        BY <2>3, <2>4
      <3>2. QED  BY <1>3, <1>6, <2>1, <3>1 DEF Nodes
    <2>6. a = After(p, m - 1)
      BY <2>4, <2>5 DEF After
    <2>7. b = After(p, m)
      BY <1>2, <2>3, <2>4, <2>5 DEF After
    <2>8. EraseOf(h, P, c, l, p, m - 1, m, a, b)
      BY <1>1, <1>2, <2>4, <2>6, <2>7 DEF EraseOf, Ends
    <2>9. Held(Erased(h, l, a, b), [c EXCEPT ![l] = Without(c[l], m - 1, m)])
      BY <1>1, <2>8, ErasedLaid
    <2>10. LeftOf(s, v) = Without(s, m - 1, m)
      BY <1>6, <2>1, FirstRemovedIs DEF LeftOf
    <2>11. [c EXCEPT ![l] = LeftOf(c[l], v)] = [c EXCEPT ![l] = Without(c[l], m - 1, m)]
      BY <1>2, <2>10
    <2>12. QED  BY <1>4, <2>9, <2>11
  <1>7. QED  BY <1>5, <1>6

-----------------------------------------------------------------------------
(* A new entry at the front of a singly linked list *)

Prepended(h, e, l, n, v) ==
  /\ e \in Heaps /\ n \in Nodes /\ n \notin h.used /\ h.len[l] # 0
  /\ e.used = h.used \union {n}
  /\ \A x \in Nodes :
       /\ e.data[x] = IF x = n THEN v ELSE h.data[x]
       /\ e.next[x] = IF x = n THEN h.head[l] ELSE h.next[x]
       /\ e.prior[x] = h.prior[x]
  /\ \A k \in Object :
       /\ e.head[k] = IF k = l THEN n ELSE h.head[k]
       /\ e.tail[k] = h.tail[k]
       /\ e.len[k] = IF k = l THEN h.len[k] + 1 ELSE h.len[k]

Before1(x, s) == <<x>> \o s

LEMMA FrontSeq ==
  ASSUME NEW S, NEW s \in Seq(S), NEW x \in S
  PROVE  /\ Before1(x, s) \in Seq(S) /\ Len(Before1(x, s)) = Len(s) + 1 /\ Before1(x, s)[1] = x
         /\ \A i \in 1 .. Len(s) : Before1(x, s)[i + 1] = s[i]
  BY DEF Before1

FrontOf(h, e, l, n, v, p, s) ==
  /\ h \in Heaps /\ l \in Object /\ v \in Value /\ Path(h, l, p, s) /\ Own(p) \subseteq h.used
  /\ Prepended(h, e, l, n, v) /\ kind # "list"

LEMMA PrependPath ==
  ASSUME NEW h, NEW e, NEW l, NEW n, NEW v, NEW p, NEW s, FrontOf(h, e, l, n, v, p, s)
  PROVE  /\ Path(e, l, Before1(n, p), Before1(v, s))
         /\ Own(Before1(n, p)) = Own(p) \union {n}
  <1> USE DEF FrontOf
  <1>1. PICK q, r : q = Before1(n, p) /\ r = Before1(v, s)
    OBVIOUS
  <1>2. /\ n \in Nodes /\ p \in Seq(Nodes) /\ s \in Seq(Value) /\ Len(p) = Len(s)
        /\ Len(p) \in Nat
    BY DEF Prepended, Path
  <1>3. /\ q \in Seq(Nodes) /\ Len(q) = Len(p) + 1 /\ q[1] = n
        /\ \A i \in 1 .. Len(p) : q[i + 1] = p[i]
    <2>1. p \in Seq(Nodes) /\ n \in Nodes
      BY <1>2
    <2>2. /\ Before1(n, p) \in Seq(Nodes) /\ Len(Before1(n, p)) = Len(p) + 1
          /\ Before1(n, p)[1] = n
          /\ \A i \in 1 .. Len(p) : Before1(n, p)[i + 1] = p[i]
      BY <2>1, FrontSeq
    <2>3. QED  BY <1>1, <1>2, <2>2
  <1>4. /\ r \in Seq(Value) /\ Len(r) = Len(p) + 1 /\ r[1] = v
        /\ \A i \in 1 .. Len(p) : r[i + 1] = s[i]
    <2>1. s \in Seq(Value) /\ v \in Value
      BY <1>2
    <2>2. /\ Before1(v, s) \in Seq(Value) /\ Len(Before1(v, s)) = Len(s) + 1
          /\ Before1(v, s)[1] = v
          /\ \A i \in 1 .. Len(s) : Before1(v, s)[i + 1] = s[i]
      BY <2>1, FrontSeq
    <2>3. QED  BY <1>1, <1>2, <2>2
  <1>5. \A i \in 1 .. Len(p) : p[i] \in Nodes /\ p[i] # n
    BY <1>2 DEF Own, Prepended
  <1>6. /\ h.len[l] = Len(p) /\ Len(p) # 0 /\ h.tail[l] = p[Len(p)] /\ h.head[l] = p[1]
    BY DEF Path, Prepended
  <1>7. \A i \in 1 .. Len(q) : i = 1 \/ (i - 1 \in 1 .. Len(p) /\ q[i] = p[i - 1])
    <2>1. ASSUME NEW i \in 1 .. Len(q), i # 1  PROVE i - 1 \in 1 .. Len(p) /\ q[i] = p[i - 1]
      <3>1. i - 1 \in 1 .. Len(p) /\ (i - 1) + 1 = i
        BY <1>2, <1>3, <2>1
      <3>2. q[(i - 1) + 1] = p[i - 1]
        BY <1>3, <3>1
      <3>3. QED  BY <3>1, <3>2
    <2>2. QED  BY <2>1
  <1>8. \A i \in 1 .. Len(q) : i = 1 \/ r[i] = s[i - 1]
    <2>1. ASSUME NEW i \in 1 .. Len(q), i # 1  PROVE r[i] = s[i - 1]
      <3>1. i - 1 \in 1 .. Len(p) /\ (i - 1) + 1 = i
        BY <1>2, <1>3, <2>1
      <3>2. r[(i - 1) + 1] = s[i - 1]
        BY <1>4, <3>1
      <3>3. QED  BY <3>1, <3>2
    <2>2. QED  BY <2>1
  <1>9. \A i, j \in 1 .. Len(q) : q[i] = q[j] => i = j
    <2>1. \A i, j \in 1 .. Len(p) : p[i] = p[j] => i = j
      BY DEF Path
    <2>2. ASSUME NEW i \in 1 .. Len(q), NEW j \in 1 .. Len(q), q[i] = q[j]  PROVE i = j
      <3>1. CASE i = 1 \/ j = 1
        BY <1>3, <1>5, <1>7, <2>2, <3>1
      <3>2. CASE i # 1 /\ j # 1
        <4>1. i - 1 \in 1 .. Len(p) /\ j - 1 \in 1 .. Len(p) /\ p[i - 1] = p[j - 1]
          BY <1>7, <2>2, <3>2
        <4>2. i - 1 = j - 1
          BY <2>1, <4>1
        <4>3. QED  BY <4>2
      <3>3. QED  BY <3>1, <3>2
    <2>3. QED  BY <2>2
  <1>10. \A i \in 1 .. Len(q) : e.data[q[i]] = r[i]
    <2>1. \A i \in 1 .. Len(p) : h.data[p[i]] = s[i]
      BY DEF Path
    <2>2. \A x \in Nodes : e.data[x] = IF x = n THEN v ELSE h.data[x]
      BY DEF Prepended
    <2>3. ASSUME NEW i \in 1 .. Len(q)  PROVE e.data[q[i]] = r[i]
      <3>1. CASE i = 1
        BY <1>2, <1>3, <1>4, <2>2, <3>1
      <3>2. CASE i # 1
        BY <1>5, <1>7, <1>8, <2>1, <2>2, <3>2
      <3>3. QED  BY <3>1, <3>2
    <2>4. QED  BY <2>3
  <1>11. \A i \in 1 .. Len(q) : e.next[q[i]] = IF i = Len(q) THEN 0 ELSE q[i + 1]
    <2>1. \A i \in 1 .. Len(p) : h.next[p[i]] = IF i = Len(p) THEN 0 ELSE p[i + 1]
      BY DEF Path
    <2>2. \A x \in Nodes : e.next[x] = IF x = n THEN h.head[l] ELSE h.next[x]
      BY DEF Prepended
    <2>3. ASSUME NEW i \in 1 .. Len(q)
          PROVE  e.next[q[i]] = IF i = Len(q) THEN 0 ELSE q[i + 1]
      <3>1. CASE i = 1
        <4>1. e.next[q[i]] = p[1]
          BY <1>2, <1>3, <1>6, <2>2, <3>1
        <4>2. q[1 + 1] = p[1] /\ Len(q) # 1
          BY <1>2, <1>3, <1>6
        <4>3. QED  BY <3>1, <4>1, <4>2
      <3>2. CASE i # 1
        <4>1. PICK k : k = i - 1
          OBVIOUS
        <4>2. k \in 1 .. Len(p) /\ q[i] = p[k] /\ k + 1 = i /\ (k = Len(p) <=> i = Len(q))
          BY <1>2, <1>3, <1>7, <3>2, <4>1
        <4>3. e.next[q[i]] = IF k = Len(p) THEN 0 ELSE p[k + 1]
          BY <1>5, <2>1, <2>2, <4>2
        <4>4. k # Len(p) => k + 1 \in 1 .. Len(p)
          BY <1>2, <4>2
        <4>5. k # Len(p) => q[i + 1] = p[k + 1]
          BY <1>3, <4>2, <4>4
        <4>6. QED  BY <4>2, <4>3, <4>5
      <3>3. QED  BY <3>1, <3>2
    <2>4. QED  BY <2>3
  <1>12. e.len[l] = Len(q) /\ e.tail[l] = q[Len(q)] /\ e.head[l] = q[1] /\ Len(q) # 0
    <2>1. e.len[l] = h.len[l] + 1 /\ e.tail[l] = h.tail[l] /\ e.head[l] = n
      BY DEF Prepended
    <2>2. q[Len(p) + 1] = p[Len(p)]
      BY <1>2, <1>3, <1>6
    <2>3. e.len[l] = Len(q) /\ Len(q) # 0 /\ e.head[l] = q[1]
      BY <1>2, <1>3, <1>6, <2>1
    <2>4. e.tail[l] = p[Len(p)] /\ Len(q) = Len(p) + 1
      BY <1>3, <1>6, <2>1
    <2>5. e.tail[l] = q[Len(q)]
      BY <2>2, <2>4
    <2>6. QED  BY <2>3, <2>5
  <1>13. Path(e, l, q, r)
    <2>1. e.head[l] = (IF Len(q) = 0 THEN 0 ELSE q[1])
          /\ e.tail[l] = IF Len(q) = 0 THEN 0 ELSE q[Len(q)]
      BY <1>12
    <2>2. q \in Seq(Nodes) /\ r \in Seq(Value) /\ Len(q) = Len(r) /\ e.len[l] = Len(q)
      BY <1>3, <1>4, <1>12
    <2>3. QED  BY <1>9, <1>10, <1>11, <2>1, <2>2 DEF Path
  <1>14. Own(q) = Own(p) \union {n}
    <2>1. Own(q) \subseteq Own(p) \union {n}
      BY <1>3, <1>7 DEF Own
    <2>2. n \in Own(q)
      <3>1. 1 \in 1 .. Len(q)
        BY <1>2, <1>3
      <3>2. QED  BY <1>3, <3>1 DEF Own
    <2>3. ASSUME NEW i \in 1 .. Len(p)  PROVE p[i] \in Own(q)
      <3>1. i + 1 \in 1 .. Len(q) /\ q[i + 1] = p[i]
        BY <1>2, <1>3
      <3>2. QED  BY <3>1 DEF Own
    <2>4. Own(p) \subseteq Own(q)
      BY <2>3 DEF Own
    <2>5. QED  BY <2>1, <2>2, <2>4
  <1>15. QED  BY <1>1, <1>13, <1>14

\* The object l gets the value v at its front.
Fronted(c, l, v) == [c EXCEPT ![l] = Before1(v, c[l])]

LEMMA PrependLaid ==
  ASSUME IsFiniteSet(Object), NEW h, NEW P, NEW c, Laid(h, P, c), c = [k \in Object |-> c[k]],
         NEW e, NEW l \in Object, NEW n, NEW v \in Value, Prepended(h, e, l, n, v), kind # "list"
  PROVE  Laid(e, [P EXCEPT ![l] = Before1(n, P[l])], Fronted(c, l, v))
  <1>1. PICK p, q, s, r : p = P[l] /\ q = Before1(n, p) /\ s = c[l] /\ r = Before1(v, s)
    OBVIOUS
  <1>2. /\ h \in Heaps /\ Path(h, l, p, s) /\ Own(p) \subseteq h.used /\ h.used \subseteq Nodes
    <2>1. h \in Heaps
      BY DEF Laid
    <2>2. Path(h, l, p, c[l]) /\ Own(p) \subseteq h.used /\ h.used \subseteq Nodes
      BY <1>1, PathOwned
    <2>3. QED  BY <1>1, <2>1, <2>2
  <1>3. Path(e, l, q, r) /\ Own(q) = Own(p) \union {n}
    <2>1. Path(e, l, Before1(n, p), Before1(v, s)) /\ Own(Before1(n, p)) = Own(p) \union {n}
      <3>1. FrontOf(h, e, l, n, v, p, s)
        BY <1>2 DEF FrontOf
      <3>2. QED  BY <3>1, PrependPath
    <2>2. QED  BY <1>1, <2>1
  <1>4. e \in Heaps /\ n \notin h.used /\ e.used = h.used \union {n}
    BY DEF Prepended
  <1>5. \A k \in Object \ {l} :
          e.head[k] = h.head[k] /\ e.tail[k] = h.tail[k] /\ e.len[k] = h.len[k]
    BY DEF Prepended
  <1>6. \A x \in h.used \ Own(p) :
          e.next[x] = h.next[x] /\ e.prior[x] = h.prior[x] /\ e.data[x] = h.data[x]
    <2>1. \A x \in h.used \ Own(p) : x \in Nodes /\ x # n
      BY <1>2, <1>4
    <2>2. QED  BY <2>1 DEF Prepended
  <1>7. Own(q) \cap (h.used \ Own(p)) = {} /\ e.used = (h.used \ Own(p)) \union Own(q)
    BY <1>2, <1>3, <1>4
  <1>8. Touched(h, e, l, p, q)
    BY <1>4, <1>5, <1>6, <1>7 DEF Touched
  <1>9. Laid(e, [P EXCEPT ![l] = q], [c EXCEPT ![l] = r])
    <2>1. Touched(h, e, l, P[l], q)
      BY <1>1, <1>8
    <2>2. QED  BY <1>3, <2>1, Relaid
  <1>10. Fronted(c, l, v) = [c EXCEPT ![l] = r]
    BY <1>1 DEF Fronted
  <1>11. [P EXCEPT ![l] = Before1(n, P[l])] = [P EXCEPT ![l] = q]
    BY <1>1
  <1>12. QED  BY <1>9, <1>10, <1>11

LEMMA SListPrepends ==
  ASSUME NEW h, NEW l \in Object, Room(h, l), h.len[l] # 0, NEW v \in Value
  PROVE  Prepended(h, SList!Emplace(h, l, h.head[l], v), l, Linked!Fresh(h), v)
  <1>1. PICK n, g, e : /\ n = Linked!Fresh(h)
                       /\ g = [SList!Create(h, v) EXCEPT !.len[l] = @ + 1]
                       /\ e = SList!Emplace(h, l, h.head[l], v)
    OBVIOUS
  <1>2. h \in Heaps /\ n \in Nodes /\ n \notin h.used /\ SList!Fresh(h) = n
    BY <1>1, FreshIs DEF Room, Heaps
  <1>3. n \in Offset /\ 0 \in Offset
    BY <1>2, Numbers DEF Nodes, Offset
  <1>4. PICK d, k, f : /\ d = [h.data EXCEPT ![n] = v] /\ k = [h.len EXCEPT ![l] = @ + 1]
                       /\ f = [h.next EXCEPT ![n] = h.head[l]]
    OBVIOUS
  <1>5. g = [next |-> h.next, prior |-> h.prior, data |-> d, used |-> h.used \union {n},
             head |-> h.head, tail |-> h.tail, len |-> k]
    <2>1. h = [next |-> h.next, prior |-> h.prior, data |-> h.data, used |-> h.used,
               head |-> h.head, tail |-> h.tail, len |-> h.len]
      BY <1>2 DEF Heaps
    <2>2. QED  BY <1>1, <1>2, <1>4, <2>1 DEF SList!Create
  <1>6. g = [next |-> g.next, prior |-> g.prior, data |-> g.data, used |-> g.used,
             head |-> g.head, tail |-> g.tail, len |-> g.len]
    BY <1>5
  <1>7. /\ g.next = h.next /\ g.prior = h.prior /\ g.data = d /\ g.used = h.used \union {n}
        /\ g.head = h.head /\ g.tail = h.tail /\ g.len = k
    BY <1>5
  <1>8. e = [g EXCEPT !.next[n] = h.head[l], !.head[l] = n]
    BY Zenon, <1>1, <1>2 DEF SList!Emplace
  <1>9. e = [next |-> f, prior |-> h.prior, data |-> d, used |-> h.used \union {n},
             head |-> [h.head EXCEPT ![l] = n], tail |-> h.tail, len |-> k]
    <2>1. e = [next |-> [g.next EXCEPT ![n] = h.head[l]], prior |-> g.prior, data |-> g.data,
               used |-> g.used, head |-> [g.head EXCEPT ![l] = n], tail |-> g.tail,
               len |-> g.len]
      BY <1>6, <1>8
    <2>2. QED  BY <1>4, <1>7, <2>1
  <1>10. e \in Heaps
    BY <1>2, <1>3, <1>4, <1>9 DEF Heaps
  <1>11. Prepended(h, e, l, n, v)
    <2>1. /\ e.next = f /\ e.prior = h.prior /\ e.data = d /\ e.used = h.used \union {n}
          /\ e.head = [h.head EXCEPT ![l] = n] /\ e.tail = h.tail /\ e.len = k
      BY <1>9
    <2>2. /\ h.next \in [Nodes -> Offset] /\ h.data \in [Nodes -> Value \union {Linked!Poison}]
          /\ h.head \in [Object -> Offset] /\ h.len \in [Object -> Nat]
      BY <1>2 DEF Heaps
    <2>3. \A x \in Nodes : /\ e.data[x] = IF x = n THEN v ELSE h.data[x]
                           /\ e.next[x] = IF x = n THEN h.head[l] ELSE h.next[x]
                           /\ e.prior[x] = h.prior[x]
      BY <1>4, <2>1, <2>2
    <2>4. \A x \in Object : /\ e.head[x] = IF x = l THEN n ELSE h.head[x]
                            /\ e.tail[x] = h.tail[x]
                            /\ e.len[x] = IF x = l THEN h.len[x] + 1 ELSE h.len[x]
      BY <1>4, <2>1, <2>2
    <2>5. QED  BY <1>2, <1>10, <2>1, <2>3, <2>4 DEF Prepended
  <1>12. QED  BY <1>1, <1>11

LEMMA FrontHeld ==
  ASSUME IsFiniteSet(Object), NEW h, NEW c, Held(h, c), Count(c) < 2 * MaxLen,
         NEW l \in Object, c[l] # <<>>, NEW v \in Value, kind # "list"
  PROVE  Held(SList!Emplace(h, l, h.head[l], v), Fronted(c, l, v))
  <1>1. PICK P : Laid(h, P, c) /\ c = [k \in Object |-> c[k]]
    BY DEF Held
  <1>2. PICK n, e : n = Linked!Fresh(h) /\ e = SList!Emplace(h, l, h.head[l], v)
    OBVIOUS
  <1>3. h.len[l] # 0
    <2>1. PICK s, p : s = c[l] /\ p = P[l]
      OBVIOUS
    <2>2. s \in Seq(Value)
      <3>1. c \in [Object -> Seq(Value)]
        BY HeldSeqs
      <3>2. QED  BY <2>1, <3>1
    <2>3. h.len[l] = Len(p) /\ Len(c[l]) = Len(p)
      BY <1>1, <2>1, PathOwned
    <2>4. s # <<>>
      BY <2>1
    <2>5. Len(s) # 0
      BY <2>2, <2>4
    <2>6. QED  BY <2>1, <2>3, <2>5
  <1>4. Room(h, l)
    BY <1>1, RoomIs
  <1>5. Prepended(h, e, l, n, v)
    BY <1>2, <1>3, <1>4, SListPrepends
  <1>6. Laid(e, [P EXCEPT ![l] = Before1(n, P[l])], Fronted(c, l, v))
    BY <1>1, <1>5, PrependLaid
  <1>7. Fronted(c, l, v) = [k \in Object |-> Fronted(c, l, v)[k]]
    BY <1>1 DEF Fronted
  <1>8. QED  BY <1>2, <1>6, <1>7 DEF Held

-----------------------------------------------------------------------------
(* The calls, and what they promise *)

LEMMA SameCalls ==
  ASSUME IsFiniteSet(Object), NEW h, NEW c
  PROVE  /\ DList!Call(h, c) => /\ heap' = h /\ content' = c /\ Count(c) <= MaxLen /\ kind' = kind
                                /\ same' = same
         /\ SList!Call(h, c) => /\ heap' = h /\ content' = c /\ Count(c) <= MaxLen /\ kind' = kind
                                /\ same' = same
  <1>1. DList!Fits(c) <=> Fits(c)
    BY DEF DList!Fits, Fits, DList!MapThenSumSet, MapThenSumSet, DList!MapThenFoldSet,
           MapThenFoldSet
  <1>2. SList!Fits(c) <=> Fits(c)
    BY DEF SList!Fits, Fits, SList!MapThenSumSet, MapThenSumSet, SList!MapThenFoldSet,
           MapThenFoldSet
  <1>3. Fits(c) <=> Count(c) <= MaxLen
    BY FitsIs
  <1>4. QED
    BY <1>1, <1>2, <1>3 DEF DList!Call, DList!Becomes, SList!Call, SList!Becomes

LEMMA ListPromises ==
  /\ \A l, i, v : DList!Inserted(l, i, v) = [content EXCEPT ![l] = InsertAt(content[l], i + 1, v)]
  /\ \A l, i, j : DList!Removed(l, i, j) = [content EXCEPT ![l] = Without(content[l], i, j)]
  /\ \A l, v : DList!FirstRemoved(l, v) = [content EXCEPT ![l] = LeftOf(content[l], v)]
  /\ \A l : DList!Emptied(l) = Empty(content, l)
  /\ \A l, m : DList!Copied(l, m) = Given(content, l, m)
  /\ \A l, m : DList!Moved(l, m) = MovedTo(content, l, m)
  <1>1. \A s, i, v : DList!InsertAt(s, i, v) = InsertAt(s, i, v)
    BY DEF DList!InsertAt, InsertAt
  <1>2. \A s, v : DList!Contains(s, v) <=> Contains(s, v)
    BY DEF DList!Contains, Contains
  <1>3. \A s, v : DList!RemoveFirst(s, v) = RemoveFirst(s, v)
    BY DEF DList!RemoveFirst, RemoveFirst, DList!RemoveAt, RemoveAt, DList!SelectInSeq, SelectInSeq,
           DList!Min, Min
  <1>4. QED
    BY <1>1, <1>2, <1>3
    DEF DList!Inserted, DList!Removed, DList!FirstRemoved, DList!Emptied, DList!Copied, DList!Moved,
        DList!Holds, Without, LeftOf, Empty, Given, MovedTo

LEMMA SListPromises ==
  /\ \A l, i, v : SList!Inserted(l, i, v) = [content EXCEPT ![l] = InsertAt(content[l], i + 1, v)]
  /\ \A l, i, j : SList!Removed(l, i, j) = [content EXCEPT ![l] = Without(content[l], i, j)]
  /\ \A l, v : SList!FirstRemoved(l, v) = [content EXCEPT ![l] = LeftOf(content[l], v)]
  /\ \A l : SList!Emptied(l) = Empty(content, l)
  /\ \A l, m : SList!Copied(l, m) = Given(content, l, m)
  /\ \A l, m : SList!Moved(l, m) = MovedTo(content, l, m)
  <1>1. \A s, i, v : SList!InsertAt(s, i, v) = InsertAt(s, i, v)
    BY DEF SList!InsertAt, InsertAt
  <1>2. \A s, v : SList!Contains(s, v) <=> Contains(s, v)
    BY DEF SList!Contains, Contains
  <1>3. \A s, v : SList!RemoveFirst(s, v) = RemoveFirst(s, v)
    BY DEF SList!RemoveFirst, RemoveFirst, SList!RemoveAt, RemoveAt, SList!SelectInSeq, SelectInSeq,
           SList!Min, Min
  <1>4. QED
    BY <1>1, <1>2, <1>3
    DEF SList!Inserted, SList!Removed, SList!FirstRemoved, SList!Emptied, SList!Copied, SList!Moved,
        SList!Holds, Without, LeftOf, Empty, Given, MovedTo

LEMMA InsertedIs ==
  ASSUME NEW S, NEW s \in Seq(S), NEW v \in S
  PROVE  InsertAt(s, Len(s) + 1, v) = Append(s, v) /\ InsertAt(s, 1, v) = Before1(v, s)
  <1>1. Len(s) \in Nat
    OBVIOUS
  <1>2. SubSeq(s, 1, Len(s)) = s
    BY <1>1, SubSeqFull
  <1>3. SubSeq(s, Len(s) + 1, Len(s)) = <<>>
    BY <1>1, SubSeqEmpty
  <1>4. SubSeq(s, 1, 0) = <<>>
    BY <1>1, SubSeqEmpty
  <1>5. InsertAt(s, Len(s) + 1, v) = (s \o <<v>>) \o <<>>
    <2>1. PICK n : n = Len(s) + 1
      OBVIOUS
    <2>2. n - 1 = Len(s)
      BY <1>1, <2>1
    <2>3. InsertAt(s, n, v) = SubSeq(s, 1, n - 1) \o <<v>> \o SubSeq(s, n, Len(s))
      BY DEF InsertAt
    <2>4. SubSeq(s, 1, n - 1) = s /\ SubSeq(s, n, Len(s)) = <<>>
      BY <1>2, <1>3, <2>1, <2>2
    <2>5. QED  BY Zenon, <2>1, <2>3, <2>4
  <1>6. InsertAt(s, 1, v) = (<<>> \o <<v>>) \o s
    <2>1. InsertAt(s, 1, v) = SubSeq(s, 1, 1 - 1) \o <<v>> \o SubSeq(s, 1, Len(s))
      BY DEF InsertAt
    <2>2. 1 - 1 = 0
      OBVIOUS
    <2>3. QED  BY <1>2, <1>4, <2>1, <2>2
  <1>7. (s \o <<v>>) \o <<>> = Append(s, v)
    OBVIOUS
  <1>8. (<<>> \o <<v>>) \o s = <<v>> \o s
    OBVIOUS
  <1>9. QED  BY <1>5, <1>6, <1>7, <1>8 DEF Before1

-----------------------------------------------------------------------------
(* The steps of the lists *)

\* A step that leaves the heap at h and the promises at c, which h holds.
Kept == Held(heap', content') /\ Count(content') <= MaxLen /\ kind' = kind /\ same' = same

LEMMA SameErase ==
  ASSUME NEW h, NEW l
  PROVE  /\ kind = "list" =>
              /\ \A a, b : DList!Erase(h, l, a, b) = Erased(h, l, a, b)
              /\ DList!Destroy(h, l) = Destroyed(h, l)
              /\ \A m : DList!CopyOf(h, l, m) = CopyOf(h, l, m)
              /\ \A m : DList!Steal(h, l, m) = Steal(h, l, m)
              /\ \A v : DList!Emplace(h, l, 0, v) = Step(h, l, v)
         /\ kind # "list" =>
              /\ \A a, b : SList!Erase(h, l, a, b) = Erased(h, l, a, b)
              /\ SList!Destroy(h, l) = Destroyed(h, l)
              /\ \A m : SList!CopyOf(h, l, m) = CopyOf(h, l, m)
              /\ \A m : SList!Steal(h, l, m) = Steal(h, l, m)
              /\ \A v : SList!Emplace(h, l, 0, v) = Step(h, l, v)
  BY DEF Erased, Destroyed, CopyOf, Steal, Step

\* The calls, of either kind of list.
Called(h, c) ==
  /\ heap' = h /\ content' = c /\ Count(c) <= MaxLen /\ kind' = kind /\ same' = same

LEMMA CalledKept ==
  ASSUME NEW h, NEW c, Called(h, c), Held(h, c)
  PROVE  Kept
  BY DEF Called, Kept

Links == Held(heap, content) /\ Count(content) <= MaxLen

LEMMA PushKept ==
  ASSUME IsFiniteSet(Object), Links, NEW l \in Object, NEW v \in Value,
         Called(Step(heap, l, v), Pushed(content, l, v))
  PROVE  Kept
  <1>1. Held(heap, content) /\ Seqs(content) /\ content \in [Object -> Seq(Value)]
    BY HeldSeqs DEF Links
  <1>2. PICK s, r : s = content[l] /\ r = Append(s, v)
    OBVIOUS
  <1>3. s \in Seq(Value)
    BY <1>1, <1>2
  <1>4. Len(r) = Len(s) + 1 /\ Len(s) \in Nat /\ Len(r) \in Nat
    BY <1>2, <1>3
  <1>5. /\ Count(content) \in Nat
        /\ Count([content EXCEPT ![l] = r]) = Count(content) - Len(content[l]) + Len(r)
    BY <1>1, <1>4, CountSet
  <1>6. Pushed(content, l, v) = [content EXCEPT ![l] = r]
    BY <1>2 DEF Pushed
  <1>7. Count(content) + 1 <= MaxLen
    <2>1. Count(Pushed(content, l, v)) <= MaxLen
      BY DEF Called
    <2>2. QED  BY <1>2, <1>4, <1>5, <1>6, <2>1
  <1>8. Count(content) < 2 * MaxLen
    BY <1>5, <1>7, ContainerAssumption
  <1>9. Held(Step(heap, l, v), Pushed(content, l, v))
    BY <1>1, <1>8, StepHeld
  <1>10. QED  BY <1>9, CalledKept

LEMMA FrontKept ==
  ASSUME IsFiniteSet(Object), Links, NEW l \in Object, NEW v \in Value, kind # "list",
         content[l] # <<>>,
         Called(SList!Emplace(heap, l, heap.head[l], v), Fronted(content, l, v))
  PROVE  Kept
  <1>1. Held(heap, content) /\ Seqs(content) /\ content \in [Object -> Seq(Value)]
    BY HeldSeqs DEF Links
  <1>2. PICK s, r : s = content[l] /\ r = Before1(v, s)
    OBVIOUS
  <1>3. s \in Seq(Value)
    BY <1>1, <1>2
  <1>4. Len(r) = Len(s) + 1 /\ Len(s) \in Nat /\ Len(r) \in Nat
    <2>1. Len(Before1(v, s)) = Len(s) + 1
      BY <1>3, FrontSeq
    <2>2. Len(s) \in Nat
      BY <1>3
    <2>3. QED  BY <1>2, <2>1, <2>2
  <1>5. /\ Count(content) \in Nat
        /\ Count([content EXCEPT ![l] = r]) = Count(content) - Len(content[l]) + Len(r)
    BY <1>1, <1>4, CountSet
  <1>6. Fronted(content, l, v) = [content EXCEPT ![l] = r]
    BY <1>2 DEF Fronted
  <1>7. Count(content) + 1 <= MaxLen
    <2>1. Count(Fronted(content, l, v)) <= MaxLen
      BY DEF Called
    <2>2. QED  BY <1>2, <1>4, <1>5, <1>6, <2>1
  <1>8. Count(content) < 2 * MaxLen
    BY <1>5, <1>7, ContainerAssumption
  <1>9. Held(SList!Emplace(heap, l, heap.head[l], v), Fronted(content, l, v))
    BY <1>1, <1>8, FrontHeld
  <1>10. QED  BY <1>9, CalledKept

LEMMA RangeKept ==
  ASSUME IsFiniteSet(Object), Links, NEW l \in Object,
         NEW i \in 0 .. Len(content[l]), NEW j \in i .. Len(content[l]),
         Called(Erased(heap, l, Linked!IterAt(heap, l, i), Linked!IterAt(heap, l, j)),
                [content EXCEPT ![l] = Without(content[l], i, j)])
  PROVE  Kept
  <1>1. Held(Erased(heap, l, Linked!IterAt(heap, l, i), Linked!IterAt(heap, l, j)),
             [content EXCEPT ![l] = Without(content[l], i, j)])
    BY ErasedHeld DEF Links
  <1>2. QED  BY <1>1, CalledKept

LEMMA ValueKept ==
  ASSUME IsFiniteSet(Object), Links, NEW l \in Object, NEW v,
         Called(ValueErased(heap, l, v), [content EXCEPT ![l] = LeftOf(content[l], v)])
  PROVE  Kept
  <1>1. Held(ValueErased(heap, l, v), [content EXCEPT ![l] = LeftOf(content[l], v)])
    BY ValueHeld DEF Links
  <1>2. QED  BY <1>1, CalledKept

LEMMA ClearKept ==
  ASSUME IsFiniteSet(Object), Links, NEW l \in Object,
         Called(Destroyed(heap, l), Empty(content, l))
  PROVE  Kept
  <1>1. Held(Destroyed(heap, l), Empty(content, l))
    BY DestroyFirst DEF Links
  <1>2. QED  BY <1>1, CalledKept

LEMMA Bounded ==
  ASSUME NEW h, NEW c, Called(h, c), IsFiniteSet(Object), Seqs(c)
  PROVE  Count(c) <= 2 * MaxLen
  <1>1. Object = {} \/ \E k \in Object : TRUE
    OBVIOUS
  <1>2. Count(c) \in Nat
    <2>1. CASE Object = {}
      <3>1. Count(c) = 0
        BY <2>1, CountNone
      <3>2. QED  BY <3>1
    <2>2. CASE \E k \in Object : TRUE
      <3>1. PICK k \in Object : TRUE
        BY <2>2
      <3>2. PICK n : n = 0
        OBVIOUS
      <3>3. QED
        <4>1. \A z : Len(z) \in Nat => Count(c) \in Nat
          BY <3>1, CountSet
        <4>2. Len(<<>>) \in Nat
          OBVIOUS
        <4>3. QED  BY <4>1, <4>2
    <2>3. QED  BY <1>1, <2>1, <2>2
  <1>3. QED  BY <1>2, ContainerAssumption DEF Called

LEMMA GivenSeqs ==
  ASSUME NEW c, Seqs(c), NEW l \in Object, NEW m \in Object
  PROVE  Seqs(Given(c, l, m))
  <1>1. PICK d, s : s = c[m] /\ d = [c EXCEPT ![l] = s]
    OBVIOUS
  <1>2. d = [k \in Object |-> d[k]] /\ \A k \in Object : d[k] = IF k = l THEN s ELSE c[k]
    BY <1>1 DEF Seqs
  <1>3. Seqs(d)
    BY <1>1, <1>2 DEF Seqs
  <1>4. QED  BY <1>1, <1>3 DEF Given

LEMMA LoadKept ==
  ASSUME IsFiniteSet(Object), Links, NEW l \in Object, NEW m \in Object, l # m,
         content[l] = <<>>, Called(CopyOf(heap, l, m), Given(content, l, m))
  PROVE  Kept
  <1>1. Held(heap, content) /\ Seqs(content)
    BY HeldSeqs DEF Links
  <1>2. Count(Given(content, l, m)) <= 2 * MaxLen
    BY <1>1, GivenSeqs, Bounded
  <1>3. Held(CopyOf(heap, l, m), Given(content, l, m))
    BY <1>1, <1>2, LoadHeld
  <1>4. QED  BY <1>3, CalledKept

LEMMA CopyKept ==
  ASSUME IsFiniteSet(Object), Links, NEW l \in Object, NEW m \in Object, l # m,
         Called(CopyOf(Destroyed(heap, l), l, m), Given(content, l, m))
  PROVE  Kept
  <1>1. Held(heap, content) /\ Seqs(content)
    BY HeldSeqs DEF Links
  <1>2. Count(Given(content, l, m)) <= 2 * MaxLen
    BY <1>1, GivenSeqs, Bounded
  <1>3. Held(CopyOf(Destroyed(heap, l), l, m), Given(content, l, m))
    BY <1>1, <1>2, CopiedHeld
  <1>4. QED  BY <1>3, CalledKept

LEMMA MoveKept ==
  ASSUME IsFiniteSet(Object), Links, NEW l \in Object, NEW m \in Object, l # m,
         Called(Moves(heap, l, m), MovedTo(content, l, m))
  PROVE  Kept
  <1>1. Held(heap, content)
    BY DEF Links
  <1>2. Count(MovedTo(content, l, m)) <= MaxLen
    BY DEF Called
  <1>3. Held(Moves(heap, l, m), MovedTo(content, l, m))
    BY <1>1, <1>2, MoveHeld
  <1>4. QED  BY <1>3, CalledKept

LEMMA EndsAt ==
  ASSUME NEW h, NEW c, Held(h, c), NEW l \in Object
  PROVE  /\ Linked!IterAt(h, l, Len(c[l])) = 0
         /\ c[l] # <<>> => Linked!IterAt(h, l, 0) = h.head[l]
  <1>1. PICK P : Laid(h, P, c)
    BY DEF Held
  <1>2. PICK p, s : p = P[l] /\ s = c[l]
    OBVIOUS
  <1>3. Path(h, l, p, s)
    BY <1>1, <1>2 DEF Laid
  <1>4. /\ s \in Seq(Value) /\ Len(p) = Len(s) /\ Len(p) \in Nat
        /\ Len(p) # 0 => h.head[l] = p[1]
    BY <1>3 DEF Path
  <1>5. \A i \in 0 .. Len(p) : Linked!IterAt(h, l, i) = After(p, i)
    BY <1>1, <1>2, IterIs
  <1>6. Linked!IterAt(h, l, Len(p)) = 0
    BY <1>4, <1>5 DEF After
  <1>7. ASSUME s # <<>>  PROVE Linked!IterAt(h, l, 0) = h.head[l]
    <2>1. Len(p) # 0
      BY <1>4, <1>7
    <2>2. QED  BY <1>4, <1>5, <2>1 DEF After
  <1>8. QED  BY <1>2, <1>4, <1>6, <1>7

LEMMA ListKept ==
  ASSUME IsFiniteSet(Object), Links, kind = "list", kind \notin Middles, kind \notin Fronts,
         DList!Next
  PROVE  Kept
  <1>1. Held(heap, content) /\ Seqs(content) /\ content \in [Object -> Seq(Value)]
    BY HeldSeqs DEF Links
  <1>2. \A h, c : DList!Call(h, c) => Called(h, c)
    BY SameCalls DEF Called
  <1>3. PICK l \in Object :
          \/ \E i \in 0 .. Len(content[l]), v \in Value : DList!EmplaceAt(l, i, v)
          \/ \E v \in Value : DList!EraseValue(l, v)
          \/ \E i, j \in 0 .. Len(content[l]) : i <= j /\ DList!EraseRange(l, i, j)
          \/ DList!clear(l)
          \/ \E m \in Object : DList!Copy(l, m) \/ DList!Load(l, m) \/ DList!Move(l, m)
    BY DEF DList!Next
  <1>4. ASSUME NEW i \in 0 .. Len(content[l]), NEW v \in Value, DList!EmplaceAt(l, i, v)
        PROVE  Kept
    <2>1. /\ i = 0 /\ content[l] # <<>> => kind \in Fronts
          /\ i \in 1 .. Len(content[l]) - 1 => kind \in Middles
          /\ Called(DList!Emplace(heap, l, DList!IterAt(heap, l, i), v), DList!Inserted(l, i, v))
      BY <1>2, <1>4 DEF DList!EmplaceAt
    <2>2. PICK s : s = content[l]
      OBVIOUS
    <2>3. s \in Seq(Value) /\ Len(s) \in Nat
      BY <1>1, <2>2
    <2>4. DList!IterAt(heap, l, i) = Linked!IterAt(heap, l, i)
      BY SameIterators
    <2>5. DList!Inserted(l, i, v) = [content EXCEPT ![l] = InsertAt(s, i + 1, v)]
      BY <2>2, ListPromises
    <2>6. CASE i = Len(s)
      <3>1. Linked!IterAt(heap, l, i) = 0
        BY <1>1, <2>2, <2>6, EndsAt
      <3>2. InsertAt(s, i + 1, v) = Append(s, v)
        BY <2>3, <2>6, InsertedIs
      <3>3. DList!Inserted(l, i, v) = Pushed(content, l, v)
        BY <2>2, <2>5, <3>2 DEF Pushed
      <3>4. DList!Emplace(heap, l, 0, v) = Step(heap, l, v)
        BY SameErase
      <3>5. Called(Step(heap, l, v), Pushed(content, l, v))
        BY <2>1, <2>4, <3>1, <3>3, <3>4
      <3>6. QED  BY <3>5, PushKept
    <2>7. i = Len(s)
      <3>1. i \in 0 .. Len(s) /\ (i = 0 \/ i \in 1 .. Len(s) - 1 \/ i = Len(s))
        BY <2>2, <2>3
      <3>2. i = 0 => s = <<>>
        BY <2>1, <2>2
      <3>3. QED  BY <2>1, <2>2, <3>1, <3>2
    <2>8. QED  BY <2>6, <2>7
  <1>5. ASSUME NEW v \in Value, DList!EraseValue(l, v)  PROVE Kept
    <2>1. PICK a, b : /\ a = Linked!Find(heap, l, v)
                      /\ b = IF a = 0 THEN 0 ELSE heap.next[a]
      OBVIOUS
    <2>2. DList!Find(heap, l, v) = a /\ DList!Null = 0
      BY <2>1, SameIterators, SameNumbers
    <2>3. DList!Call(DList!Erase(heap, l, a, b), DList!FirstRemoved(l, v))
      BY <1>5, <2>1, <2>2 DEF DList!EraseValue
    <2>4. DList!Erase(heap, l, a, b) = ValueErased(heap, l, v)
      <3>1. DList!Erase(heap, l, a, b) = Erased(heap, l, a, b)
        BY SameErase
      <3>2. QED  BY <2>1, <3>1 DEF ValueErased
    <2>5. DList!FirstRemoved(l, v) = [content EXCEPT ![l] = LeftOf(content[l], v)]
      BY ListPromises
    <2>6. Called(ValueErased(heap, l, v), [content EXCEPT ![l] = LeftOf(content[l], v)])
      BY <1>2, <2>3, <2>4, <2>5
    <2>7. QED  BY <2>6, ValueKept
  <1>6. ASSUME NEW i \in 0 .. Len(content[l]), NEW j \in 0 .. Len(content[l]), i <= j,
               DList!EraseRange(l, i, j)
        PROVE  Kept
    <2>1. PICK a, b : a = Linked!IterAt(heap, l, i) /\ b = Linked!IterAt(heap, l, j)
      OBVIOUS
    <2>2. DList!IterAt(heap, l, i) = a /\ DList!IterAt(heap, l, j) = b
      BY <2>1, SameIterators
    <2>3. DList!Call(DList!Erase(heap, l, a, b), DList!Removed(l, i, j))
      BY <1>6, <2>2 DEF DList!EraseRange
    <2>4. DList!Erase(heap, l, a, b) = Erased(heap, l, a, b)
      BY SameErase
    <2>5. DList!Removed(l, i, j) = [content EXCEPT ![l] = Without(content[l], i, j)]
      BY ListPromises
    <2>6. Called(Erased(heap, l, a, b), [content EXCEPT ![l] = Without(content[l], i, j)])
      BY <1>2, <2>3, <2>4, <2>5
    <2>7. j \in i .. Len(content[l])
      <3>1. i \in Int /\ j \in Int /\ j <= Len(content[l])
        OBVIOUS
      <3>2. QED  BY <1>6, <3>1
    <2>8. QED  BY <2>1, <2>6, <2>7, RangeKept
  <1>7. ASSUME DList!clear(l)  PROVE Kept
    <2>1. DList!Call(DList!Destroy(heap, l), DList!Emptied(l))
      BY <1>7 DEF DList!clear
    <2>2. DList!Destroy(heap, l) = Destroyed(heap, l) /\ DList!Emptied(l) = Empty(content, l)
      BY SameErase, ListPromises
    <2>3. Called(Destroyed(heap, l), Empty(content, l))
      BY <1>2, <2>1, <2>2
    <2>4. QED  BY <2>3, ClearKept
  <1>8. ASSUME NEW m \in Object, DList!Copy(l, m)  PROVE Kept
    <2>1. l # m /\ DList!Call(DList!CopyOf(DList!Destroy(heap, l), l, m), DList!Copied(l, m))
      BY <1>8 DEF DList!Copy
    <2>2. DList!Destroy(heap, l) = Destroyed(heap, l) /\ DList!Copied(l, m) = Given(content, l, m)
      BY SameErase, ListPromises
    <2>3. DList!CopyOf(Destroyed(heap, l), l, m) = CopyOf(Destroyed(heap, l), l, m)
      BY SameErase
    <2>4. Called(CopyOf(Destroyed(heap, l), l, m), Given(content, l, m))
      BY <1>2, <2>1, <2>2, <2>3
    <2>5. QED  BY <2>1, <2>4, CopyKept
  <1>9. ASSUME NEW m \in Object, DList!Load(l, m)  PROVE Kept
    <2>1. l # m /\ content[l] = <<>> /\ DList!Call(DList!CopyOf(heap, l, m), DList!Copied(l, m))
      BY <1>9 DEF DList!Load
    <2>2. DList!CopyOf(heap, l, m) = CopyOf(heap, l, m) /\ DList!Copied(l, m) = Given(content, l, m)
      BY SameErase, ListPromises
    <2>3. Called(CopyOf(heap, l, m), Given(content, l, m))
      BY <1>2, <2>1, <2>2
    <2>4. QED  BY <2>1, <2>3, LoadKept
  <1>10. ASSUME NEW m \in Object, DList!Move(l, m)  PROVE Kept
    <2>1. l # m /\ DList!Call(DList!MoveOf(l, m), DList!Moved(l, m))
      BY <1>10 DEF DList!Move
    <2>2. PICK g, f : g = Destroyed(heap, l) /\ f = CopyOf(g, l, m)
      OBVIOUS
    <2>3. DList!Destroy(heap, l) = g
      BY <2>2, SameErase
    <2>4. DList!CopyOf(g, l, m) = f /\ DList!Steal(g, l, m) = Steal(g, l, m)
      BY <2>2, SameErase
    <2>5. DList!Destroy(f, m) = Destroyed(f, m)
      BY SameErase
    <2>6. DList!MoveOf(l, m) = IF same THEN Steal(g, l, m) ELSE Destroyed(f, m)
      BY <2>3, <2>4, <2>5 DEF DList!MoveOf
    <2>7. DList!MoveOf(l, m) = Moves(heap, l, m)
      BY <2>2, <2>6 DEF Moves
    <2>8. DList!Moved(l, m) = MovedTo(content, l, m)
      BY ListPromises
    <2>9. Called(Moves(heap, l, m), MovedTo(content, l, m))
      BY <1>2, <2>1, <2>7, <2>8
    <2>10. QED  BY <2>1, <2>9, MoveKept
  <1>11. QED  BY <1>3, <1>4, <1>5, <1>6, <1>7, <1>8, <1>9, <1>10

LEMMA SListKept ==
  ASSUME IsFiniteSet(Object), Links, kind # "list", kind \notin Middles, SList!Next
  PROVE  Kept
  <1>1. Held(heap, content) /\ Seqs(content) /\ content \in [Object -> Seq(Value)]
    BY HeldSeqs DEF Links
  <1>2. \A h, c : SList!Call(h, c) => Called(h, c)
    BY SameCalls DEF Called
  <1>3. PICK l \in Object :
          \/ \E i \in 0 .. Len(content[l]), v \in Value : SList!EmplaceAt(l, i, v)
          \/ \E v \in Value : SList!EraseValue(l, v)
          \/ \E i, j \in 0 .. Len(content[l]) : i <= j /\ SList!EraseRange(l, i, j)
          \/ SList!clear(l)
          \/ \E m \in Object : SList!Copy(l, m) \/ SList!Load(l, m) \/ SList!Move(l, m)
    BY DEF SList!Next
  <1>4. ASSUME NEW i \in 0 .. Len(content[l]), NEW v \in Value, SList!EmplaceAt(l, i, v)
        PROVE  Kept
    <2>1. /\ i = 0 /\ content[l] # <<>> => kind \in Fronts
          /\ i \in 1 .. Len(content[l]) - 1 => kind \in Middles
          /\ Called(SList!Emplace(heap, l, SList!IterAt(heap, l, i), v), SList!Inserted(l, i, v))
      BY <1>2, <1>4 DEF SList!EmplaceAt
    <2>2. PICK s : s = content[l]
      OBVIOUS
    <2>3. s \in Seq(Value) /\ Len(s) \in Nat
      BY <1>1, <2>2
    <2>4. SList!IterAt(heap, l, i) = Linked!IterAt(heap, l, i)
      BY SameIterators
    <2>5. SList!Inserted(l, i, v) = [content EXCEPT ![l] = InsertAt(s, i + 1, v)]
      BY <2>2, SListPromises
    <2>6. CASE i = Len(s)
      <3>1. Linked!IterAt(heap, l, i) = 0
        BY <1>1, <2>2, <2>6, EndsAt
      <3>2. InsertAt(s, i + 1, v) = Append(s, v)
        BY <2>3, <2>6, InsertedIs
      <3>3. SList!Inserted(l, i, v) = Pushed(content, l, v)
        BY <2>2, <2>5, <3>2 DEF Pushed
      <3>4. SList!Emplace(heap, l, 0, v) = Step(heap, l, v)
        BY SameErase
      <3>5. Called(Step(heap, l, v), Pushed(content, l, v))
        BY <2>1, <2>4, <3>1, <3>3, <3>4
      <3>6. QED  BY <3>5, PushKept
    <2>7. CASE i # Len(s)
      <3>1. i \in 0 .. Len(s) /\ (i = 0 \/ i \in 1 .. Len(s) - 1)
        BY <2>2, <2>3, <2>7
      <3>2. i = 0 /\ s # <<>>
        BY <2>1, <2>2, <2>7, <3>1
      <3>3. Linked!IterAt(heap, l, 0) = heap.head[l]
        BY <1>1, <2>2, <3>2, EndsAt
      <3>4. InsertAt(s, 1, v) = Before1(v, s) /\ i + 1 = 1
        BY <2>3, <3>2, InsertedIs
      <3>5. SList!Inserted(l, i, v) = Fronted(content, l, v)
        BY <2>2, <2>5, <3>4 DEF Fronted
      <3>6. Called(SList!Emplace(heap, l, heap.head[l], v), Fronted(content, l, v))
        BY <2>1, <2>4, <3>2, <3>3, <3>5
      <3>7. QED  BY <2>2, <3>2, <3>6, FrontKept
    <2>8. QED  BY <2>6, <2>7
  <1>5. ASSUME NEW v \in Value, SList!EraseValue(l, v)  PROVE Kept
    <2>1. PICK a, b : /\ a = Linked!Find(heap, l, v)
                      /\ b = IF a = 0 THEN 0 ELSE heap.next[a]
      OBVIOUS
    <2>2. SList!Find(heap, l, v) = a /\ SList!Null = 0
      BY <2>1, SameIterators, SameNumbers
    <2>3. SList!Call(SList!Erase(heap, l, a, b), SList!FirstRemoved(l, v))
      BY <1>5, <2>1, <2>2 DEF SList!EraseValue
    <2>4. SList!Erase(heap, l, a, b) = ValueErased(heap, l, v)
      <3>1. SList!Erase(heap, l, a, b) = Erased(heap, l, a, b)
        BY SameErase
      <3>2. QED  BY <2>1, <3>1 DEF ValueErased
    <2>5. SList!FirstRemoved(l, v) = [content EXCEPT ![l] = LeftOf(content[l], v)]
      BY SListPromises
    <2>6. Called(ValueErased(heap, l, v), [content EXCEPT ![l] = LeftOf(content[l], v)])
      BY <1>2, <2>3, <2>4, <2>5
    <2>7. QED  BY <2>6, ValueKept
  <1>6. ASSUME NEW i \in 0 .. Len(content[l]), NEW j \in 0 .. Len(content[l]), i <= j,
               SList!EraseRange(l, i, j)
        PROVE  Kept
    <2>1. PICK a, b : a = Linked!IterAt(heap, l, i) /\ b = Linked!IterAt(heap, l, j)
      OBVIOUS
    <2>2. SList!IterAt(heap, l, i) = a /\ SList!IterAt(heap, l, j) = b
      BY <2>1, SameIterators
    <2>3. SList!Call(SList!Erase(heap, l, a, b), SList!Removed(l, i, j))
      BY <1>6, <2>2 DEF SList!EraseRange
    <2>4. SList!Erase(heap, l, a, b) = Erased(heap, l, a, b)
      BY SameErase
    <2>5. SList!Removed(l, i, j) = [content EXCEPT ![l] = Without(content[l], i, j)]
      BY SListPromises
    <2>6. Called(Erased(heap, l, a, b), [content EXCEPT ![l] = Without(content[l], i, j)])
      BY <1>2, <2>3, <2>4, <2>5
    <2>7. j \in i .. Len(content[l])
      <3>1. i \in Int /\ j \in Int /\ j <= Len(content[l])
        OBVIOUS
      <3>2. QED  BY <1>6, <3>1
    <2>8. QED  BY <2>1, <2>6, <2>7, RangeKept
  <1>7. ASSUME SList!clear(l)  PROVE Kept
    <2>1. SList!Call(SList!Destroy(heap, l), SList!Emptied(l))
      BY <1>7 DEF SList!clear
    <2>2. SList!Destroy(heap, l) = Destroyed(heap, l) /\ SList!Emptied(l) = Empty(content, l)
      BY SameErase, SListPromises
    <2>3. Called(Destroyed(heap, l), Empty(content, l))
      BY <1>2, <2>1, <2>2
    <2>4. QED  BY <2>3, ClearKept
  <1>8. ASSUME NEW m \in Object, SList!Copy(l, m)  PROVE Kept
    <2>1. l # m /\ SList!Call(SList!CopyOf(SList!Destroy(heap, l), l, m), SList!Copied(l, m))
      BY <1>8 DEF SList!Copy
    <2>2. SList!Destroy(heap, l) = Destroyed(heap, l) /\ SList!Copied(l, m) = Given(content, l, m)
      BY SameErase, SListPromises
    <2>3. SList!CopyOf(Destroyed(heap, l), l, m) = CopyOf(Destroyed(heap, l), l, m)
      BY SameErase
    <2>4. Called(CopyOf(Destroyed(heap, l), l, m), Given(content, l, m))
      BY <1>2, <2>1, <2>2, <2>3
    <2>5. QED  BY <2>1, <2>4, CopyKept
  <1>9. ASSUME NEW m \in Object, SList!Load(l, m)  PROVE Kept
    <2>1. l # m /\ content[l] = <<>> /\ SList!Call(SList!CopyOf(heap, l, m), SList!Copied(l, m))
      BY <1>9 DEF SList!Load
    <2>2. SList!CopyOf(heap, l, m) = CopyOf(heap, l, m) /\ SList!Copied(l, m) = Given(content, l, m)
      BY SameErase, SListPromises
    <2>3. Called(CopyOf(heap, l, m), Given(content, l, m))
      BY <1>2, <2>1, <2>2
    <2>4. QED  BY <2>1, <2>3, LoadKept
  <1>10. ASSUME NEW m \in Object, SList!Move(l, m)  PROVE Kept
    <2>1. l # m /\ SList!Call(SList!MoveOf(l, m), SList!Moved(l, m))
      BY <1>10 DEF SList!Move
    <2>2. PICK g, f : g = Destroyed(heap, l) /\ f = CopyOf(g, l, m)
      OBVIOUS
    <2>3. SList!Destroy(heap, l) = g
      BY <2>2, SameErase
    <2>4. SList!CopyOf(g, l, m) = f /\ SList!Steal(g, l, m) = Steal(g, l, m)
      BY <2>2, SameErase
    <2>5. SList!Destroy(f, m) = Destroyed(f, m)
      BY SameErase
    <2>6. SList!MoveOf(l, m) = IF same THEN Steal(g, l, m) ELSE Destroyed(f, m)
      BY <2>3, <2>4, <2>5 DEF SList!MoveOf
    <2>7. SList!MoveOf(l, m) = Moves(heap, l, m)
      BY <2>2, <2>6 DEF Moves
    <2>8. SList!Moved(l, m) = MovedTo(content, l, m)
      BY SListPromises
    <2>9. Called(Moves(heap, l, m), MovedTo(content, l, m))
      BY <1>2, <2>1, <2>7, <2>8
    <2>10. QED  BY <2>1, <2>9, MoveKept
  <1>11. QED  BY <1>3, <1>4, <1>5, <1>6, <1>7, <1>8, <1>9, <1>10

-----------------------------------------------------------------------------
(* What a reader of the lists finds *)

LEMMA ReadsContent ==
  ASSUME Links
  PROVE  Linked!HoldsContent
  <1>1. PICK P : Laid(heap, P, content)
    BY DEF Links, Held
  <1>2. ASSUME NEW l \in Object
        PROVE  /\ Linked!Values(heap, Linked!Forward(heap, l)) = content[l]
               /\ heap.len[l] = Len(content[l])
    <2>1. Linked!Forward(heap, l) = P[l] /\ Linked!Values(heap, P[l]) = content[l]
      BY <1>1, ForwardIs
    <2>2. heap.len[l] = Len(P[l]) /\ Len(content[l]) = Len(P[l])
      BY <1>1, PathOwned
    <2>3. QED  BY <2>1, <2>2
  <1>3. QED  BY <1>2 DEF Linked!HoldsContent

LEMMA ReadsOwned ==
  ASSUME Links
  PROVE  Linked!EntriesOwned
  <1>1. PICK P : Laid(heap, P, content)
    BY DEF Links, Held
  <1>2. ASSUME NEW l \in Object
        PROVE  Linked!Range(SubSeq(Linked!Forward(heap, l), 1, heap.len[l])) = Own(P[l])
    <2>1. PICK p : p = P[l]
      OBVIOUS
    <2>2. Linked!Forward(heap, l) = p
      BY <1>1, <2>1, ForwardIs
    <2>3. heap.len[l] = Len(p)
      BY <1>1, <2>1, PathOwned
    <2>4. p \in Seq(Nodes)
      BY <1>1, <2>1 DEF Laid
    <2>5. SubSeq(p, 1, Len(p)) = p
      BY <2>4, SubSeqFull
    <2>6. Linked!Range(p) = Own(p)
      <3>1. DOMAIN p = 1 .. Len(p)
        BY <2>4
      <3>2. QED  BY <3>1 DEF Linked!Range, Own
    <2>7. QED  BY <2>1, <2>2, <2>3, <2>5, <2>6
  <1>3. /\ heap.used = UNION {Own(P[l]) : l \in Object}
        /\ \A l, m \in Object : l # m => Own(P[l]) \cap Own(P[m]) = {}
    BY <1>1 DEF Laid
  <1>4. UNION {Linked!Range(SubSeq(Linked!Forward(heap, l), 1, heap.len[l])) : l \in Object}
          = UNION {Own(P[l]) : l \in Object}
    BY <1>2
  <1>5. \A l, m \in Object : l # m =>
          Linked!Range(SubSeq(Linked!Forward(heap, l), 1, heap.len[l]))
            \cap Linked!Range(SubSeq(Linked!Forward(heap, m), 1, heap.len[m])) = {}
    BY <1>2, <1>3
  <1>6. QED  BY <1>3, <1>4, <1>5 DEF Linked!EntriesOwned

Reversed(p) == [i \in 1 .. Len(p) |-> p[Len(p) - i + 1]]

LEMMA BackIs ==
  ASSUME NEW h, NEW P, NEW c, Laid(h, P, c), NEW l \in Object, kind = "list", P[l] # <<>>
  PROVE  Linked!Walk(h.prior, h.tail[l], 0) = Reversed(P[l])
  <1>1. PICK p, s : p = P[l] /\ s = c[l]
    OBVIOUS
  <1>2. Path(h, l, p, s)
    BY <1>1 DEF Laid
  <1>3. /\ p \in Seq(Nodes) /\ Len(p) \in Nat /\ Len(p) # 0 /\ h.tail[l] = p[Len(p)]
        /\ \A i \in 1 .. Len(p) : h.prior[p[i]] = IF i = 1 THEN 0 ELSE p[i - 1]
    <2>1. p # <<>>
      BY <1>1
    <2>2. p \in Seq(Nodes) /\ Len(p) \in Nat
      BY <1>2 DEF Path
    <2>3. Len(p) # 0
      BY <2>1, <2>2
    <2>4. QED  BY <1>2, <2>2, <2>3 DEF Path
  <1>4. PICK q, n, links : q = Reversed(p) /\ n = Len(p) /\ links = h.prior
    OBVIOUS
  <1>5. q \in Seq(Nodes) /\ Len(q) = n /\ \A i \in 1 .. n : q[i] = p[n - i + 1]
    <2>1. q = [i \in 1 .. n |-> p[n - i + 1]]
      BY <1>4 DEF Reversed
    <2>2. n \in Nat /\ \A i \in 1 .. n : n - i + 1 \in 1 .. n
      BY <1>3, <1>4
    <2>3. \A i \in 1 .. n : p[n - i + 1] \in Nodes
      BY <1>3, <1>4, <2>2
    <2>4. QED  BY <2>1, <2>2, <2>3
  <1>6. \A i \in 1 .. n : q[i] # 0
    <2>1. \A i \in 1 .. n : q[i] \in Nodes
      BY <1>5
    <2>2. QED  BY <2>1 DEF Nodes
  <1>7. \A i \in 1 .. n : links[q[i]] = IF i = n THEN 0 ELSE q[i + 1]
    <2>1. ASSUME NEW i \in 1 .. n  PROVE links[q[i]] = IF i = n THEN 0 ELSE q[i + 1]
      <3>1. PICK k : k = n - i + 1
        OBVIOUS
      <3>2. /\ k \in 1 .. n /\ (k = 1 <=> i = n)
            /\ i # n => i + 1 \in 1 .. n /\ n - (i + 1) + 1 = k - 1
        BY <1>3, <1>4, <3>1
      <3>3. q[i] = p[k] /\ links[p[k]] = IF k = 1 THEN 0 ELSE p[k - 1]
        BY <1>3, <1>4, <1>5, <3>1, <3>2
      <3>4. i # n => q[i + 1] = p[k - 1]
        <4>1. i # n => q[i + 1] = p[n - (i + 1) + 1]
          BY <1>5, <3>2
        <4>2. QED  BY <3>2, <4>1
      <3>5. QED  BY <3>2, <3>3, <3>4
    <2>2. QED  BY <2>1
  <1>8. n <= 2 * MaxLen
    BY <1>1, <1>4, PathLength
  <1>9. PICK z : z = 0
    OBVIOUS
  <1>10. Chain(links, q, z, z)
    <2>1. z \in Offset
      BY <1>9, Numbers DEF Offset
    <2>2. QED  BY <1>5, <1>6, <1>7, <1>8, <1>9, <2>1 DEF Chain
  <1>11. PICK t : t = h.tail[l]
    OBVIOUS
  <1>12. Starts(q, z, t)
    <2>1. q[1] = p[n]
      <3>1. 1 \in 1 .. n /\ n - 1 + 1 = n
        BY <1>3, <1>4
      <3>2. q[1] = p[n - 1 + 1]
        BY <1>5, <3>1
      <3>3. QED  BY <3>1, <3>2
    <2>2. t = q[1] /\ Len(q) # 0
      BY <1>3, <1>4, <1>5, <1>11, <2>1
    <2>3. QED  BY <2>2 DEF Starts
  <1>13. Linked!Walk(links, t, z) = q
    BY <1>10, <1>12, WalkIsPath
  <1>14. QED  BY <1>1, <1>4, <1>9, <1>11, <1>13

LEMMA ReadsBothWays ==
  ASSUME Links
  PROVE  Linked!BothWays
  <1>1. PICK P : Laid(heap, P, content)
    BY DEF Links, Held
  <1>2. ASSUME NEW l \in Object, NEW path, path = Linked!Forward(heap, l)
        PROVE  /\ kind = "list" =>
                    (IF path = <<>> THEN <<>>
                     ELSE Linked!Walk(heap.prior, heap.tail[l], Linked!Null))
                      = Linked!Reverse(path)
               /\ heap.tail[l] = IF path = <<>> THEN Linked!Null ELSE Linked!Last(path)
    <2>1. path = P[l]
      BY <1>1, <1>2, ForwardIs
    <2>2. Linked!Reverse(path) = Reversed(path)
      BY DEF Linked!Reverse, Reversed
    <2>3. /\ path \in Seq(Nodes) /\ heap.tail[l] = IF Len(path) = 0 THEN 0 ELSE path[Len(path)]
      <3>1. PICK s : s = content[l]
        OBVIOUS
      <3>2. Path(heap, l, path, s)
        BY <1>1, <2>1, <3>1 DEF Laid
      <3>3. QED  BY <3>2 DEF Path
    <2>4. Len(path) = 0 <=> path = <<>>
      BY <2>3
    <2>5. heap.tail[l] = IF path = <<>> THEN Linked!Null ELSE Linked!Last(path)
      BY <2>3, <2>4, Numbers DEF Linked!Last
    <2>6. CASE path = <<>>
      <3>1. Reversed(path) = <<>>
        BY <2>6 DEF Reversed
      <3>2. QED  BY <2>2, <2>5, <2>6, <3>1
    <2>7. CASE path # <<>>
      <3>1. kind = "list" => Linked!Walk(heap.prior, heap.tail[l], 0) = Reversed(path)
        BY <1>1, <2>1, <2>7, BackIs
      <3>2. QED  BY <2>2, <2>5, <2>7, <3>1, Numbers
    <2>8. QED  BY <2>6, <2>7
  <1>3. QED  BY <1>2 DEF Linked!BothWays

-----------------------------------------------------------------------------
(* Before the first call *)

LEMMA NoneHeld ==
  ASSUME IsFiniteSet(Object)
  PROVE  Held(Linked!NewLists, [l \in Object |-> <<>>])
  <1>1. PICK h, P : h = Linked!NewLists /\ P = [l \in Object |-> <<>>]
    OBVIOUS
  <1>2. /\ \A l \in Object : P[l] = <<>>
        /\ P = [l \in Object |-> P[l]] /\ P \in [Object -> Seq(Nodes)]
    BY <1>1
  <1>3. /\ h.next = [n \in Nodes |-> 2 * MaxLen + 1] /\ h.prior = [n \in Nodes |-> 2 * MaxLen + 1]
        /\ h.data = [n \in Nodes |-> Linked!Poison] /\ h.used = {}
        /\ h.head = [l \in Object |-> 0] /\ h.tail = [l \in Object |-> 0]
        /\ h.len = [l \in Object |-> 0]
        /\ h = Fields(h.next, h.prior, h.data, h.used, h.head, h.tail, h.len)
    BY <1>1, Numbers DEF Linked!NewLists, Fields
  <1>4. 2 * MaxLen + 1 \in Offset /\ 0 \in Offset
    BY Numbers DEF Offset
  <1>5. h \in Heaps
    <2>1. PICK nx, pr, da, us, hd, tl, ln :
            /\ nx = h.next /\ pr = h.prior /\ da = h.data /\ us = h.used
            /\ hd = h.head /\ tl = h.tail /\ ln = h.len
      OBVIOUS
    <2>2. h = Fields(nx, pr, da, us, hd, tl, ln)
      BY <1>3, <2>1
    <2>3. /\ nx \in [Nodes -> Offset] /\ pr \in [Nodes -> Offset]
          /\ da \in [Nodes -> Value \union {Linked!Poison}] /\ us \in SUBSET Nodes
          /\ hd \in [Object -> Offset] /\ tl \in [Object -> Offset] /\ ln \in [Object -> Nat]
      BY <1>3, <1>4, <2>1
    <2>4. QED  BY <2>2, <2>3 DEF Fields, Heaps
  <1>6. \A l \in Object : Path(h, l, P[l], P[l])
    <2>1. ASSUME NEW l \in Object  PROVE Path(h, l, <<>>, <<>>)
      BY <1>3 DEF Path
    <2>2. QED  BY <1>2, <2>1
  <1>7. \A l \in Object : Own(P[l]) = {}
    <2>1. Own(<<>>) = {}
      BY DEF Own
    <2>2. QED  BY <1>2, <2>1
  <1>8. h.used = UNION {Own(P[l]) : l \in Object}
    BY <1>3, <1>7
  <1>9. Cardinality(h.used) = Count(P)
    <2>1. Count(P) = 0
      <3>1. \A l \in Object : Len(P[l]) = 0
        BY <1>2
      <3>2. QED  BY <3>1, CountNone
    <2>2. Cardinality({}) = 0
      BY FS_EmptySet
    <2>3. QED  BY <1>3, <2>1, <2>2
  <1>10. Laid(h, P, P)
    BY <1>2, <1>5, <1>6, <1>7, <1>8, <1>9 DEF Laid
  <1>11. QED  BY <1>1, <1>2, <1>10 DEF Held
=============================================================================
