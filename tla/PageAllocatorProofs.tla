------------------------ MODULE PageAllocatorProofs ------------------------
(***************************************************************************)
(* Proofs about PageAllocator for both allocators: any number of requests  *)
(* of any size, any size classes, heaps and header.                        *)
(*                                                                         *)
(* They assume Sound: no scope inside a scope, and no more threads than    *)
(* max_threads.  Without the first the inner FreeTls frees an id that the  *)
(* outer scope goes on using (thread_local_allocator.h:286), without the   *)
(* second CreateTid runs past the last id (64-77).                         *)
(*                                                                         *)
(* The invariant has two halves.  Ids accounts for the thread ids: every   *)
(* id drawn is with one thread or free once, so that a thread without an   *)
(* id always finds one (IdLeft, the pigeonhole).  Pages accounts for the   *)
(* pages: each is held, or on one list, or in one call (Somewhere); a list *)
(* has pages of its class and its thread id only (InOrder); a page is as   *)
(* large as its class promises (Sizes), which needs that the class of a    *)
(* rounded size is the class it was rounded to (RoundedSize, ClassFits);   *)
(* and pages lie apart below the offsets of the heaps (Apart), each local  *)
(* heap taken from where its pages begin, not from where it was reserved.  *)
(***************************************************************************)
EXTENDS PageAllocator, Sums, SequenceTheorems

-----------------------------------------------------------------------------
(* Powers of two: Pow2 is what its equation says. *)

\* f is the powers of two up to n.
Powers(f, n) == f \in [0 .. n -> Nat] /\ f[0] = 1 /\ \A i \in 1 .. n : f[i] = 2 * f[i - 1]

LEMMA PowersExist == \A n \in Nat : \E f : Powers(f, n)
  <1> DEFINE S == {n \in Nat : \E f : Powers(f, n)}
  <1>1. 0 \in S
    <2>1. Powers([i \in 0 .. 0 |-> 1], 0)  BY DEF Powers
    <2>2. QED  BY <2>1
  <1>2. ASSUME NEW n \in Nat, n \in S PROVE n + 1 \in S
    <2>1. PICK f : Powers(f, n)  BY <1>2
    <2>2. Powers([i \in 0 .. n + 1 |-> IF i = n + 1 THEN 2 * f[n] ELSE f[i]], n + 1)
      BY <2>1 DEF Powers
    <2>3. QED  BY <2>2
  <1> HIDE DEF S
  <1>3. \A n \in Nat : n \in S  BY <1>1, <1>2, Induction
  <1>4. QED  BY <1>3 DEF S

LEMMA PowersAgree ==
  ASSUME NEW m \in Nat, NEW n \in Nat, NEW f, NEW g, Powers(f, m), Powers(g, n)
  PROVE  \A i \in Nat : i <= m /\ i <= n => f[i] = g[i]
  <1> DEFINE S == {i \in Nat : i <= m /\ i <= n => f[i] = g[i]}
  <1>1. 0 \in S  BY DEF Powers
  <1>2. ASSUME NEW i \in Nat, i \in S PROVE i + 1 \in S
    BY <1>2 DEF Powers
  <1> HIDE DEF S
  <1>3. \A i \in Nat : i \in S  BY <1>1, <1>2, Induction
  <1>4. QED  BY <1>3 DEF S

LEMMA Pow2Def ==
  /\ \A n \in Nat : Pow2[n] \in Nat
  /\ Pow2[0] = 1
  /\ \A n \in Nat : Pow2[n + 1] = 2 * Pow2[n]
  <1> DEFINE P(n) == CHOOSE f : Powers(f, n)
             F == [n \in Nat |-> P(n)[n]]
  <1>1. \A n \in Nat : Powers(P(n), n)
    BY PowersExist
  <1> HIDE DEF P
  <1>2. F \in [Nat -> Nat] /\ F[0] = 1
    BY <1>1 DEF Powers
  <1>3. ASSUME NEW n \in Nat PROVE F[n + 1] = 2 * F[n]
    <2>1. P(n + 1)[n + 1] = 2 * P(n + 1)[n]  BY <1>1 DEF Powers
    <2>2. P(n + 1)[n] = P(n)[n]  BY <1>1, PowersAgree
    <2>3. QED  BY <2>1, <2>2
  <1>4. F = [e \in Nat |-> IF e = 0 THEN 1 ELSE 2 * F[e - 1]]
    <2>1. \A e \in Nat : F[e] = IF e = 0 THEN 1 ELSE 2 * F[e - 1]
      <3>1. \A e \in Nat : e # 0 => e - 1 \in Nat /\ (e - 1) + 1 = e  OBVIOUS
      <3>2. QED  BY <1>2, <1>3, <3>1
    <2>2. F = [e \in Nat |-> F[e]]  BY <1>2
    <2> HIDE DEF F
    <2>3. QED  BY <2>1, <2>2
  <1> HIDE DEF F
  <1>5. Pow2 = [e \in Nat |-> IF e = 0 THEN 1 ELSE 2 * Pow2[e - 1]]
    BY <1>4 DEF Pow2
  <1>6. \A e \in Nat : Pow2[e] = IF e = 0 THEN 1 ELSE 2 * Pow2[e - 1]
    BY <1>5
  <1>7. Pow2[0] = 1 /\ \A n \in Nat : Pow2[n + 1] = 2 * Pow2[n]
    <2>1. \A n \in Nat : n + 1 \in Nat /\ n + 1 # 0 /\ (n + 1) - 1 = n  OBVIOUS
    <2>2. QED  BY <1>6, <2>1
  <1> DEFINE S == {n \in Nat : Pow2[n] \in Nat}
  <1>8. \A n \in Nat : n \in S
    <2>1. 0 \in S /\ \A n \in Nat : n \in S => n + 1 \in S
      BY <1>7
    <2> HIDE DEF S
    <2>2. QED  BY <2>1, Induction
  <1>9. QED  BY <1>7, <1>8

LEMMA Pow2Grows == \A n \in Nat : Pow2[n] \in Nat \ {0} /\ n < Pow2[n]
  <1> DEFINE S == {n \in Nat : n < Pow2[n]}
  <1>1. \A n \in Nat : Pow2[n] \in Nat  BY Pow2Def
  <1>2. 0 \in S /\ \A n \in Nat : n \in S => n + 1 \in S
    BY <1>1, Pow2Def
  <1> HIDE DEF S
  <1>3. \A n \in Nat : n \in S  BY <1>2, Induction
  <1>4. QED  BY <1>1, <1>3 DEF S

LEMMA Pow2Less ==
  ASSUME NEW m \in Nat, NEW n \in Nat
  PROVE  m < n <=> Pow2[m] < Pow2[n]
  <1> DEFINE S == {k \in Nat : \A i \in 0 .. k : i < k => Pow2[i] < Pow2[k]}
  <1>1. \A k \in Nat : Pow2[k] \in Nat \ {0}  BY Pow2Grows
  <1>2. 0 \in S  OBVIOUS
  <1>3. ASSUME NEW k \in Nat, k \in S PROVE k + 1 \in S
    <2>1. Pow2[k + 1] = 2 * Pow2[k]  BY Pow2Def
    <2>2. QED  BY <1>1, <1>3, <2>1
  <1> HIDE DEF S
  <1>4. m \in S /\ n \in S  BY <1>2, <1>3, Induction
  <1> USE DEF S
  <1>5. m < n => Pow2[m] < Pow2[n]  BY <1>4
  <1>6. n < m => Pow2[n] < Pow2[m]  BY <1>4
  <1>7. QED  BY <1>1, <1>5, <1>6

LEMMA Log2UpDef ==
  ASSUME NEW n \in Nat
  PROVE  /\ Log2Up(n) \in Nat
         /\ n <= Pow2[Log2Up(n)]
         /\ \A d \in Nat : n <= Pow2[d] => Log2Up(n) <= d
  <1>1. \A e \in Nat : Pow2[e] \in Nat /\ e < Pow2[e]  BY Pow2Grows
  <1> DEFINE T == {e \in Nat : n <= Pow2[e]}
  <1>2. n \in T  BY <1>1
  <1>3. PICK m \in T : \A e \in T : m <= e
    <2>1. T \subseteq Nat /\ T # {}  BY <1>2
    <2> HIDE DEF T
    <2>2. QED  BY <2>1, LeastNumber
  <1>4. m \in 0 .. n /\ Pow2[m] >= n /\ \A d \in 0 .. m - 1 : Pow2[d] < n
    BY <1>1, <1>2, <1>3
  <1> DEFINE e == Log2Up(n)
  <1>5. e \in 0 .. n /\ Pow2[e] >= n /\ \A d \in 0 .. e - 1 : Pow2[d] < n
    BY <1>4 DEF Log2Up
  <1> HIDE DEF e
  <1>6. \A d \in Nat : n <= Pow2[d] => e <= d
    BY <1>1, <1>5
  <1>7. QED  BY <1>1, <1>5, <1>6 DEF e

-----------------------------------------------------------------------------
(* PageId *)

LEMMA Numbers ==
  /\ MinExp \in Nat \ {0} /\ MaxExp \in Nat \ {0} /\ MinExp <= MaxExp
  /\ Hdr \in Nat \ {0} /\ MaxTid \in Nat \ {0}
  /\ RegionSize \in Nat /\ LocalSize \in Nat /\ MaxDepth \in Nat
  /\ RegionOff \in Nat /\ Table \in Nat /\ RegionStart \in Nat
  /\ Table + MaxTid * (LocalSize + Hdr) <= RegionStart
  BY PageAssumption

\* The sizes that pages have.
Rounded(s) == \/ \E k \in MinExp .. MaxExp : s = Pow2[k] + Hdr
              \/ s \in Nat /\ Pow2[MaxExp] + Hdr < s

LEMMA Log2OfPower ==
  ASSUME NEW k \in Nat
  PROVE  Log2Up(Pow2[k]) = k
  <1>1. Pow2[k] \in Nat  BY Pow2Def
  <1>2. /\ Log2Up(Pow2[k]) \in Nat /\ Pow2[k] <= Pow2[Log2Up(Pow2[k])]
        /\ Log2Up(Pow2[k]) <= k
    BY <1>1, Log2UpDef
  <1>3. ~(Log2Up(Pow2[k]) < k)
    BY <1>1, <1>2, Pow2Less, Pow2Def
  <1>4. QED  BY <1>2, <1>3

LEMMA Log2OfLarge ==
  ASSUME NEW n \in Nat, Pow2[MaxExp] < n
  PROVE  MaxExp < Log2Up(n)
  <1>1. /\ Log2Up(n) \in Nat /\ n <= Pow2[Log2Up(n)]
        /\ MaxExp \in Nat /\ Pow2[MaxExp] \in Nat /\ Pow2[Log2Up(n)] \in Nat
    BY Log2UpDef, Numbers, Pow2Def
  <1>2. Pow2[MaxExp] < Pow2[Log2Up(n)]  BY <1>1
  <1>3. QED  BY <1>1, <1>2, Pow2Less

LEMMA PageIdDef ==
  ASSUME NEW n \in Nat
  PROVE  /\ PageId(n).class \in 0 .. MaxExp
         /\ PageId(n).round \in Nat
         /\ n + Hdr <= PageId(n).round
         /\ Hdr < PageId(n).round
         /\ Rounded(PageId(n).round)
         /\ Cached(PageId(n)) =>
              \/ PageId(n).class = MinExp /\ PageId(n).round = Pow2[MinExp] + Hdr
              \/ PageId(n).round = Pow2[PageId(n).class + MinExp] + Hdr
  <1> DEFINE e == Log2Up(n)
  <1>1. e \in Nat /\ n <= Pow2[e]  BY Log2UpDef
  <1>2. /\ Pow2[e] \in Nat \ {0} /\ Pow2[MinExp] \in Nat \ {0} /\ Pow2[MaxExp] \in Nat \ {0}
    BY <1>1, Pow2Grows, Numbers
  <1>3. CASE e < MinExp
    <2>1. Pow2[e] < Pow2[MinExp]  BY <1>1, <1>3, Pow2Less, Numbers
    <2>2. PageId(n) = [class |-> MinExp, round |-> Pow2[MinExp] + Hdr]
      BY <1>3 DEF PageId
    <2>3. MinExp \in MinExp .. MaxExp /\ MinExp \in 0 .. MaxExp  BY Numbers
    <2>4. Rounded(Pow2[MinExp] + Hdr)  BY <2>3 DEF Rounded
    <2>5. QED  BY <1>1, <1>2, <2>1, <2>2, <2>3, <2>4, Numbers
  <1>4. CASE MaxExp < e
    <2>1. Pow2[MaxExp] < n
      <3>1. n <= Pow2[MaxExp] => e <= MaxExp  BY Log2UpDef, Numbers
      <3>2. QED  BY <1>1, <1>2, <1>4, <3>1, Numbers
    <2>2. PageId(n) = [class |-> MaxExp, round |-> n + Hdr]
      BY <1>1, <1>4, Numbers DEF PageId
    <2>3. Rounded(n + Hdr)  BY <1>2, <2>1, Numbers DEF Rounded
    <2>4. ~Cached(PageId(n))  BY <2>2, Numbers DEF Cached, NumCaches
    <2>5. QED  BY <1>2, <2>1, <2>2, <2>3, <2>4, Numbers
  <1>5. CASE MinExp <= e /\ e <= MaxExp
    <2>1. PageId(n) = [class |-> e - MinExp, round |-> Pow2[e] + Hdr]
      BY <1>1, <1>5, Numbers DEF PageId
    <2>2. e \in MinExp .. MaxExp /\ e - MinExp \in 0 .. MaxExp /\ (e - MinExp) + MinExp = e
      BY <1>1, <1>5, Numbers
    <2>3. Rounded(Pow2[e] + Hdr)  BY <2>2 DEF Rounded
    <2>4. QED  BY <1>1, <1>2, <2>1, <2>2, <2>3, Numbers
  <1>6. QED  BY <1>1, <1>3, <1>4, <1>5, Numbers

LEMMA RoundedSize ==
  ASSUME NEW s, Rounded(s)
  PROVE  /\ s \in Nat /\ Hdr < s /\ s - Hdr \in Nat
         /\ \/ \E k \in MinExp .. MaxExp : s = Pow2[k] + Hdr /\ PageId(s - Hdr).class = k - MinExp
            \/ PageId(s - Hdr).class = MaxExp
  <1>1. CASE \E k \in MinExp .. MaxExp : s = Pow2[k] + Hdr
    <2>1. PICK k \in MinExp .. MaxExp : s = Pow2[k] + Hdr  BY <1>1
    <2>2. k \in Nat /\ Pow2[k] \in Nat \ {0} /\ MinExp <= k /\ k <= MaxExp
      BY <2>1, Pow2Grows, Numbers
    <2>3. s - Hdr = Pow2[k] /\ s \in Nat /\ Hdr < s  BY <2>1, <2>2, Numbers
    <2>4. Log2Up(s - Hdr) = k  BY <2>2, <2>3, Log2OfPower
    <2>5. PageId(s - Hdr).class = k - MinExp
      BY <2>2, <2>4, Numbers DEF PageId
    <2>6. QED  BY <2>1, <2>2, <2>3, <2>5
  <1>2. CASE s \in Nat /\ Pow2[MaxExp] + Hdr < s
    <2>1. Pow2[MaxExp] \in Nat  BY Pow2Def, Numbers
    <2>2. s - Hdr \in Nat /\ Pow2[MaxExp] < s - Hdr /\ Hdr < s
      BY <1>2, <2>1, Numbers
    <2>3. MaxExp < Log2Up(s - Hdr) /\ Log2Up(s - Hdr) \in Nat
      BY <2>2, Log2OfLarge, Log2UpDef
    <2>4. PageId(s - Hdr).class = MaxExp
      BY <2>3, Numbers DEF PageId
    <2>5. QED  BY <1>2, <2>2, <2>4
  <1>3. QED  BY <1>1, <1>2 DEF Rounded

\* A free page of the class of a request is large enough for it.
LEMMA ClassFits ==
  ASSUME NEW n \in Nat, NEW s, Rounded(s), Cached(PageId(n)),
         PageId(s - Hdr).class = PageId(n).class
  PROVE  PageId(n).round <= s
  <1> DEFINE c == PageId(n).class
  <1>1. c \in 0 .. MaxExp /\ c # MaxExp
    BY PageIdDef, Numbers DEF Cached, NumCaches
  <1>2. PICK k \in MinExp .. MaxExp : s = Pow2[k] + Hdr /\ c = k - MinExp
    BY <1>1, RoundedSize
  <1>3. /\ k \in Nat /\ MinExp <= k /\ c + MinExp = k
        /\ Pow2[k] \in Nat /\ Pow2[MinExp] \in Nat
    BY <1>2, Pow2Def, Numbers
  <1>4. \/ PageId(n).round = Pow2[MinExp] + Hdr
        \/ PageId(n).round = Pow2[k] + Hdr
    BY <1>3, PageIdDef
  <1>5. Pow2[MinExp] <= Pow2[k]
    BY <1>3, Pow2Less, Numbers
  <1>6. QED  BY <1>2, <1>3, <1>4, <1>5, Numbers

-----------------------------------------------------------------------------
(* Lists without repetitions *)

LEMMA AtRemoved ==
  ASSUME NEW S, NEW s \in Seq(S), NEW k \in 1 .. Len(s)
  PROVE  /\ RemoveAt(s, k) \in Seq(S)
         /\ Len(RemoveAt(s, k)) = Len(s) - 1
         /\ \A j \in 1 .. Len(s) - 1 : RemoveAt(s, k)[j] = IF j < k THEN s[j] ELSE s[j + 1]
  <1>1. Len(s) \in Nat /\ \A j \in 1 .. Len(s) : s[j] \in S
    BY LenProperties, ElementOfSeq
  <1> DEFINE left  == SubSeq(s, 1, k - 1)
             right == SubSeq(s, k + 1, Len(s))
  <1>2. /\ left \in Seq(S) /\ Len(left) = k - 1
        /\ \A j \in 1 .. k - 1 : left[j] = s[j]
    <2>1. ASSUME NEW j \in 1 .. k - 1  PROVE s[j] \in S
      <3>1. j \in 1 .. Len(s)  BY <1>1
      <3>2. QED  BY <1>1, <3>1
    <2>2. QED  BY <1>1, <2>1, SubSeqProperties
  <1>3. /\ right \in Seq(S) /\ Len(right) = Len(s) - k
        /\ \A j \in 1 .. Len(s) - k : right[j] = s[k + j]
    <2>1. \A j \in k + 1 .. Len(s) : s[j] \in S  BY <1>1
    <2>2. /\ right \in Seq(S)
          /\ Len(right) = IF k + 1 <= Len(s) THEN Len(s) - (k + 1) + 1 ELSE 0
          /\ \A j \in 1 .. Len(s) - (k + 1) + 1 : right[j] = s[k + 1 + j - 1]
      BY <1>1, <2>1, SubSeqProperties
    <2>3. /\ Len(s) - (k + 1) + 1 = Len(s) - k
          /\ (IF k + 1 <= Len(s) THEN Len(s) - (k + 1) + 1 ELSE 0) = Len(s) - k
      BY <1>1
    <2> HIDE DEF right
    <2>4. ASSUME NEW j \in 1 .. Len(s) - k  PROVE right[j] = s[k + j]
      <3>1. k + 1 + j - 1 = k + j  BY <1>1
      <3>2. right[j] = s[k + 1 + j - 1]  BY <2>2, <2>3, Zenon
      <3>3. QED  BY <3>1, <3>2
    <2>5. QED  BY <2>2, <2>3, <2>4, Zenon
  <1>4. RemoveAt(s, k) = left \o right
    BY DEF RemoveAt
  <1> HIDE DEF left, right
  <1>5. /\ left \o right \in Seq(S)
        /\ Len(left \o right) = Len(left) + Len(right)
        /\ \A j \in 1 .. Len(left) + Len(right) : (left \o right)[j] =
             IF j <= Len(left) THEN left[j] ELSE right[j - Len(left)]
    BY <1>2, <1>3, ConcatProperties
  <1>6. Len(left) + Len(right) = Len(s) - 1
    BY <1>1, <1>2, <1>3
  <1>7. ASSUME NEW j \in 1 .. Len(s) - 1
        PROVE  RemoveAt(s, k)[j] = IF j < k THEN s[j] ELSE s[j + 1]
    <2>1. CASE j < k
      BY <1>1, <1>2, <1>4, <1>5, <1>6, <2>1
    <2>2. CASE ~(j < k)
      <3>1. /\ ~(j <= Len(left)) /\ j - Len(left) \in 1 .. Len(s) - k
            /\ k + (j - Len(left)) = j + 1
        BY <1>1, <1>2, <2>2
      <3>2. right[j - Len(left)] = s[j + 1]
        BY <1>3, <3>1
      <3>3. (left \o right)[j] = right[j - Len(left)]
        BY <1>5, <1>6, <3>1
      <3>4. QED  BY <1>4, <2>2, <3>2, <3>3
    <2>3. QED  BY <2>1, <2>2
  <1>8. QED  BY <1>4, <1>5, <1>6, <1>7

LEMMA Removed ==
  ASSUME NEW S, NEW s \in Seq(S), NEW k \in 1 .. Len(s), IsInjective(s)
  PROVE  /\ RemoveAt(s, k) \in Seq(S)
         /\ IsInjective(RemoveAt(s, k))
         /\ \A x : Contains(RemoveAt(s, k), x) <=> Contains(s, x) /\ x # s[k]
  <1> DEFINE r == RemoveAt(s, k)
  <1>1. /\ r \in Seq(S) /\ Len(r) = Len(s) - 1 /\ Len(s) \in Nat
        /\ \A j \in 1 .. Len(s) - 1 : r[j] = IF j < k THEN s[j] ELSE s[j + 1]
    BY AtRemoved, LenProperties
  <1> HIDE DEF r
  <1>2. DOMAIN s = 1 .. Len(s) /\ DOMAIN r = 1 .. Len(s) - 1
    BY <1>1, LenProperties
  <1>3. \A i, j \in 1 .. Len(s) : s[i] = s[j] => i = j
    BY <1>2 DEF IsInjective
  <1>4. ASSUME NEW i \in 1 .. Len(s) - 1
        PROVE  \E m \in 1 .. Len(s) : /\ r[i] = s[m] /\ m # k
                                      /\ m = IF i < k THEN i ELSE i + 1
    BY <1>1
  <1>5. IsInjective(r)
    <2>1. ASSUME NEW i \in 1 .. Len(s) - 1, NEW j \in 1 .. Len(s) - 1, r[i] = r[j]
          PROVE  i = j
      <3>1. PICK m \in 1 .. Len(s) : r[i] = s[m] /\ m = IF i < k THEN i ELSE i + 1
        BY <1>4
      <3>2. PICK n \in 1 .. Len(s) : r[j] = s[n] /\ n = IF j < k THEN j ELSE j + 1
        BY <1>4
      <3>3. m = n  BY <1>3, <2>1, <3>1, <3>2
      <3>4. QED  BY <1>1, <3>1, <3>2, <3>3
    <2>2. QED  BY <1>2, <2>1 DEF IsInjective
  <1>6. ASSUME NEW x, Contains(r, x)  PROVE Contains(s, x) /\ x # s[k]
    <2>1. PICK i \in 1 .. Len(s) - 1 : r[i] = x
      BY <1>1, <1>6 DEF Contains
    <2>2. PICK m \in 1 .. Len(s) : r[i] = s[m] /\ m # k
      BY <1>4
    <2>3. QED  BY <1>3, <2>1, <2>2 DEF Contains
  <1>7. ASSUME NEW x, Contains(s, x), x # s[k]  PROVE Contains(r, x)
    <2>1. PICK m \in 1 .. Len(s) : s[m] = x
      BY <1>7 DEF Contains
    <2>2. CASE m < k
      <3>1. m \in 1 .. Len(r) /\ r[m] = x  BY <1>1, <2>1, <2>2
      <3>2. QED  BY <3>1 DEF Contains
    <2>3. CASE m > k
      <3>1. m - 1 \in 1 .. Len(r) /\ ~(m - 1 < k) /\ (m - 1) + 1 = m
        BY <1>1, <2>1, <2>3
      <3>2. r[m - 1] = x  BY <1>1, <2>1, <3>1
      <3>3. QED  BY <3>1, <3>2 DEF Contains
    <2>4. m # k  BY <1>7, <2>1
    <2>5. QED  BY <2>2, <2>3, <2>4
  <1>8. QED  BY <1>1, <1>5, <1>6, <1>7 DEF r

LEMMA Prepended ==
  ASSUME NEW S, NEW s \in Seq(S), NEW e \in S, IsInjective(s), ~Contains(s, e)
  PROVE  /\ <<e>> \o s \in Seq(S)
         /\ IsInjective(<<e>> \o s)
         /\ \A x : Contains(<<e>> \o s, x) <=> Contains(s, x) \/ x = e
  <1> DEFINE r == <<e>> \o s
  <1>1. <<e>> \in Seq(S) /\ Len(<<e>>) = 1 /\ <<e>>[1] = e  OBVIOUS
  <1>2. Len(s) \in Nat /\ DOMAIN s = 1 .. Len(s)  BY LenProperties
  <1>3. /\ r \in Seq(S) /\ Len(r) = 1 + Len(s)
        /\ \A i \in 1 .. 1 + Len(s) : r[i] = IF i <= 1 THEN <<e>>[i] ELSE s[i - 1]
    BY <1>1, ConcatProperties
  <1> HIDE DEF r
  <1>4. DOMAIN r = 1 .. Len(r) /\ r[1] = e /\ 1 \in 1 .. Len(r)
    BY <1>1, <1>2, <1>3, LenProperties
  <1>5. ASSUME NEW i \in 1 .. Len(r), i # 1
        PROVE  i - 1 \in 1 .. Len(s) /\ r[i] = s[i - 1]
    BY <1>2, <1>3, <1>5
  <1>6. \A i \in 1 .. Len(r) : i # 1 => r[i] # e
    BY <1>5 DEF Contains
  <1>7. IsInjective(r)
    <2>1. ASSUME NEW i \in 1 .. Len(r), NEW j \in 1 .. Len(r), r[i] = r[j]
          PROVE  i = j
      <3>1. CASE i = 1 \/ j = 1  BY <1>4, <1>6, <2>1, <3>1
      <3>2. CASE i # 1 /\ j # 1
        <4>1. i - 1 \in 1 .. Len(s) /\ j - 1 \in 1 .. Len(s) /\ s[i - 1] = s[j - 1]
          BY <1>5, <2>1, <3>2
        <4>2. i - 1 = j - 1  BY <1>2, <4>1 DEF IsInjective
        <4>3. QED  BY <1>2, <1>3, <4>2
      <3>3. QED  BY <3>1, <3>2
    <2>2. QED  BY <1>4, <2>1 DEF IsInjective
  <1>8. ASSUME NEW x, Contains(r, x)  PROVE Contains(s, x) \/ x = e
    BY <1>4, <1>5, <1>8 DEF Contains
  <1>9. ASSUME NEW x, Contains(s, x)  PROVE Contains(r, x)
    <2>1. PICK i \in 1 .. Len(s) : s[i] = x  BY <1>9 DEF Contains
    <2>2. i + 1 \in 1 .. Len(r) /\ i + 1 # 1 /\ (i + 1) - 1 = i
      BY <1>2, <1>3
    <2>3. r[i + 1] = x  BY <1>5, <2>1, <2>2
    <2>4. QED  BY <2>2, <2>3 DEF Contains
  <1>10. Contains(r, e)  BY <1>4 DEF Contains
  <1>11. QED  BY <1>3, <1>7, <1>8, <1>9, <1>10 DEF r

LEMMA Appended ==
  ASSUME NEW S, NEW s \in Seq(S), NEW e \in S, IsInjective(s), ~Contains(s, e)
  PROVE  /\ Append(s, e) \in Seq(S)
         /\ IsInjective(Append(s, e))
         /\ \A x : Contains(Append(s, e), x) <=> Contains(s, x) \/ x = e
  <1> DEFINE r == Append(s, e)
  <1>1. Len(s) \in Nat /\ DOMAIN s = 1 .. Len(s)  BY LenProperties
  <1>2. /\ r \in Seq(S) /\ Len(r) = Len(s) + 1
        /\ \A i \in 1 .. Len(s) : r[i] = s[i]
        /\ r[Len(s) + 1] = e
    BY AppendProperties
  <1> HIDE DEF r
  <1>3. DOMAIN r = 1 .. Len(s) + 1  BY <1>2, LenProperties
  <1>4. \A i \in 1 .. Len(s) + 1 : i \in 1 .. Len(s) \/ i = Len(s) + 1
    BY <1>1
  <1>5. IsInjective(r)
    BY <1>1, <1>2, <1>3, <1>4 DEF IsInjective, Contains
  <1>6. \A x : Contains(r, x) <=> Contains(s, x) \/ x = e
    BY <1>1, <1>2, <1>4 DEF Contains
  <1>7. QED  BY <1>2, <1>5, <1>6 DEF r

LEMMA Popped ==
  ASSUME NEW S, NEW s \in Seq(S), s # <<>>, IsInjective(s)
  PROVE  /\ Last(s) \in S /\ Contains(s, Last(s))
         /\ Front(s) \in Seq(S)
         /\ IsInjective(Front(s))
         /\ \A x : Contains(Front(s), x) <=> Contains(s, x) /\ x # Last(s)
  <1> DEFINE r == Front(s)  n == Len(s)
  <1>1. n \in Nat \ {0} /\ DOMAIN s = 1 .. n /\ \A i \in 1 .. n : s[i] \in S
    BY LenProperties, EmptySeq, ElementOfSeq
  <1>2. /\ r \in Seq(S) /\ Len(r) = n - 1 /\ \A i \in 1 .. n - 1 : r[i] = s[i]
    <2>1. \A i \in 1 .. n - 1 : s[i] \in S  BY <1>1
    <2>2. /\ SubSeq(s, 1, n - 1) \in Seq(S)
          /\ Len(SubSeq(s, 1, n - 1)) = IF 1 <= n - 1 THEN n - 1 - 1 + 1 ELSE 0
          /\ \A i \in 1 .. n - 1 - 1 + 1 : SubSeq(s, 1, n - 1)[i] = s[1 + i - 1]
      BY <1>1, <2>1, SubSeqProperties
    <2>3. n - 1 - 1 + 1 = n - 1 /\ \A i \in 1 .. n - 1 : 1 + i - 1 = i
      BY <1>1
    <2>4. r = SubSeq(s, 1, n - 1)  BY DEF Front
    <2> HIDE DEF r
    <2>5. QED  BY <1>1, <2>2, <2>3, <2>4
  <1>3. Last(s) = s[n] /\ n \in 1 .. n  BY <1>1 DEF Last
  <1> HIDE DEF r, n
  <1>4. DOMAIN r = 1 .. n - 1  BY <1>2, LenProperties
  <1>5. \A i \in 1 .. n : i \in 1 .. n - 1 \/ i = n
    BY <1>1
  <1>6. \A i \in 1 .. n - 1 : i \in 1 .. n /\ i # n
    BY <1>1
  <1>7. IsInjective(r)
    <2>1. \A i, j \in 1 .. n : s[i] = s[j] => i = j
      BY <1>1 DEF IsInjective
    <2>2. \A i, j \in 1 .. n - 1 : r[i] = r[j] => i = j
      BY <1>2, <1>6, <2>1
    <2>3. QED  BY <1>4, <2>2 DEF IsInjective
  <1>8. n = Len(s)  BY DEF n
  <1>9. \A x : Contains(r, x) <=> Contains(s, x) /\ x # s[n]
    BY <1>1, <1>2, <1>3, <1>5, <1>6, <1>8, Zenon DEF Contains, IsInjective
  <1>10. QED  BY <1>1, <1>2, <1>3, <1>7, <1>8, <1>9 DEF r, Contains

-----------------------------------------------------------------------------
(* Thread ids *)

\* What the ids rest on: scopes are not nested, and there are no more threads
\* than the max_threads of the allocator.
Sound == MaxDepth <= 1 /\ IsFiniteSet(Thread) /\ Cardinality(Thread) <= MaxTid

IdTypes ==
  /\ tid_heap_ \in 0 .. MaxTid /\ free_tids_ \in Seq(Tids)
  /\ tls \in [Thread -> Tids \union {NoTid}] /\ ctx \in [Thread -> Tids \union {NoTid}]
  /\ depth \in [Thread -> 0 .. MaxDepth]

Scopes ==
  \A t \in Thread : /\ depth[t] = 0 => ctx[t] = NoTid
                    /\ depth[t] # 0 => ctx[t] = tls[t] /\ tls[t] # NoTid

\* Every id drawn so far is free once or with one thread.
Owned ==
  /\ \A t, u \in Thread : tls[t] # NoTid /\ tls[u] = tls[t] => u = t
  /\ \A t \in Thread : tls[t] # NoTid => tls[t] < tid_heap_ /\ ~Contains(free_tids_, tls[t])
  /\ IsInjective(free_tids_)
  /\ \A i \in Tids : Contains(free_tids_, i) => i < tid_heap_
  /\ \A i \in 0 .. tid_heap_ - 1 :
       Contains(free_tids_, i) \/ \E t \in Thread : tls[t] = i

Ids == IdTypes /\ Scopes /\ Owned

LEMMA TidSet == Tids = 0 .. MaxTid - 1 /\ NoTid = MaxTid /\ NoTid \notin Tids /\ Tids \subseteq Nat
  BY Numbers DEF Tids, NoTid

\* A thread without an id leaves one for itself.
LEMMA IdLeft ==
  ASSUME Sound, Ids, NEW t \in Thread, tls[t] = NoTid, free_tids_ = <<>>
  PROVE  tid_heap_ \in Tids
  <1> DEFINE S == 0 .. tid_heap_ - 1
             T == Thread \ {t}
             owner == [i \in S |-> CHOOSE u \in Thread : tls[u] = i]
  <1>1. tid_heap_ \in Nat /\ tid_heap_ <= MaxTid
    BY Numbers DEF Ids, IdTypes
  <1>2. \A i : ~Contains(free_tids_, i)
    BY DEF Contains
  <1>3. \A i \in S : owner[i] \in Thread /\ tls[owner[i]] = i
    BY <1>2 DEF Ids, Owned
  <1>4. \A i \in S : i # NoTid
    BY <1>1, TidSet, Numbers
  <1>5. owner \in [S -> T]
    BY <1>3, <1>4
  <1> HIDE DEF owner
  <1>6. owner \in Injection(S, T)
    BY <1>3, <1>5 DEF Injection, IsInjective
  <1>7. /\ IsFiniteSet(T) /\ Cardinality(T) = Cardinality(Thread) - 1
        /\ Cardinality(Thread) \in Nat
    BY FS_RemoveElement, FS_CardinalityType DEF Sound
  <1> HIDE DEF S, T
  <1>8. Cardinality(S) <= Cardinality(T)
    BY <1>6, <1>7, FS_Injection
  <1>9. Cardinality(S) = tid_heap_
    <2>1. Cardinality(0 .. tid_heap_ - 1) = IF 0 > tid_heap_ - 1 THEN 0 ELSE tid_heap_ - 1 - 0 + 1
      BY <1>1, FS_Interval
    <2>2. QED  BY <1>1, <2>1 DEF S
  <1>10. tid_heap_ < MaxTid
    BY <1>1, <1>7, <1>8, <1>9, Numbers DEF Sound
  <1>11. QED  BY <1>1, <1>10, TidSet, Numbers

LEMMA IdDrawn ==
  ASSUME Sound, Ids, NEW t \in Thread, GetOrCreateTid(t)
  PROVE  /\ TidOf(t) \in Tids
         /\ tls' = [tls EXCEPT ![t] = TidOf(t)]
         /\ tid_heap_' \in 0 .. MaxTid /\ free_tids_' \in Seq(Tids)
         /\ Owned'
  <1>1. ctx[t] # NoTid => tls[t] # NoTid
    BY DEF Ids, IdTypes, Scopes
  <1>2. tls' = [tls EXCEPT ![t] = TidOf(t)]
    BY DEF GetOrCreateTid
  <1>3. /\ tls \in [Thread -> Tids \union {NoTid}] /\ free_tids_ \in Seq(Tids)
        /\ tid_heap_ \in 0 .. MaxTid
    BY DEF Ids, IdTypes
  <1>4. CASE tls[t] # NoTid
    <2>1. TidOf(t) = tls[t] /\ tls' = tls /\ UNCHANGED <<tid_heap_, free_tids_>>
      BY <1>2, <1>3, <1>4 DEF TidOf, GetOrCreateTid
    <2>2. Owned'  BY <2>1 DEF Ids, Owned, Contains
    <2>3. QED  BY <1>2, <1>3, <1>4, <2>1, <2>2
  <1>5. CASE tls[t] = NoTid /\ free_tids_ # <<>>
    <2>1. /\ TidOf(t) = Last(free_tids_) /\ free_tids_' = Front(free_tids_)
          /\ tid_heap_' = tid_heap_
      BY <1>1, <1>5 DEF TidOf, GetOrCreateTid
    <2>2. IsInjective(free_tids_)  BY DEF Ids, Owned
    <2>3. /\ TidOf(t) \in Tids /\ Contains(free_tids_, TidOf(t))
          /\ free_tids_' \in Seq(Tids) /\ IsInjective(free_tids_')
          /\ \A x : Contains(free_tids_', x) <=> Contains(free_tids_, x) /\ x # TidOf(t)
      BY <1>3, <1>5, <2>1, <2>2, Popped
    <2>4. TidOf(t) < tid_heap_ /\ \A u \in Thread : tls[u] # TidOf(t)
      BY <2>3, TidSet DEF Ids, Owned
    <2>5. \A u \in Thread : tls'[u] = IF u = t THEN TidOf(t) ELSE tls[u]
      BY <1>2, <1>3
    <2>6. Owned'
      BY <1>3, <1>5, <2>1, <2>3, <2>4, <2>5, TidSet DEF Ids, Owned
    <2>7. QED  BY <1>2, <1>3, <2>1, <2>3, <2>6
  <1>6. CASE tls[t] = NoTid /\ free_tids_ = <<>>
    <2>1. /\ TidOf(t) = tid_heap_ /\ tid_heap_' = tid_heap_ + 1 /\ free_tids_' = free_tids_
      BY <1>1, <1>6 DEF TidOf, GetOrCreateTid
    <2>2. tid_heap_ \in Tids
      BY <1>6, IdLeft
    <2>3. tid_heap_' \in 0 .. MaxTid /\ tid_heap_ \in Nat
      BY <2>1, <2>2, TidSet, Numbers
    <2>4. \A u \in Thread : tls'[u] = IF u = t THEN tid_heap_ ELSE tls[u]
      BY <1>2, <1>3, <2>1
    <2>5. \A i : ~Contains(free_tids_, i) /\ ~Contains(free_tids_', i)
      BY <1>6, <2>1 DEF Contains
    <2>6. \A i \in 0 .. tid_heap_' - 1 : i \in 0 .. tid_heap_ - 1 \/ i = tid_heap_
      BY <2>1, <2>3
    <2>7. \A u \in Thread : tls[u] # NoTid => tls[u] \in Nat /\ tls[u] < tid_heap_
      BY <1>3, TidSet DEF Ids, Owned
    <2>8. Owned'
      <3>1. \A u, v \in Thread : tls'[u] # NoTid /\ tls'[v] = tls'[u] => v = u
        BY <2>3, <2>4, <2>7 DEF Ids, Owned
      <3>2. \A u \in Thread : tls'[u] # NoTid => tls'[u] < tid_heap_'
        BY <2>1, <2>3, <2>4, <2>7
      <3>3. \A i \in 0 .. tid_heap_' - 1 : \E u \in Thread : tls'[u] = i
        <4>1. \A i \in 0 .. tid_heap_ - 1 : \E u \in Thread : tls[u] = i /\ u # t
          BY <1>6, <2>2, <2>3, <2>5, TidSet, Numbers DEF Ids, Owned
        <4>2. QED  BY <2>4, <2>6, <4>1
      <3>4. IsInjective(free_tids_')  BY <2>1 DEF Ids, Owned
      <3>5. QED  BY <2>5, <3>1, <3>2, <3>3, <3>4 DEF Owned
    <2>9. QED  BY <1>2, <1>3, <2>1, <2>2, <2>3, <2>8
  <1>7. QED  BY <1>4, <1>5, <1>6

LEMMA NextIds ==
  ASSUME Sound, Ids, [Next]_vars
  PROVE  Ids'
  <1>1. ASSUME UNCHANGED <<ids, scope>>  PROVE Ids'
    BY <1>1 DEF Ids, IdTypes, Scopes, Owned, Contains, ids, scope
  <1>2. CASE UNCHANGED vars
    BY <1>1, <1>2 DEF vars
  <1> SUFFICES ASSUME NEW t \in Thread,
                      \/ CreateTls(t) \/ FreeTls(t) \/ Step(t)
                      \/ \E n \in Requests[kind] : Allocate(t, n)
                      \/ \E p \in DOMAIN held :
                           Free(t, p) \/ \E n \in Requests[kind] : Reallocate(t, p, n)
               PROVE  Ids'
    BY <1>2 DEF Next
  <1>3. /\ tls \in [Thread -> Tids \union {NoTid}] /\ ctx \in [Thread -> Tids \union {NoTid}]
        /\ depth \in [Thread -> 0 .. MaxDepth] /\ free_tids_ \in Seq(Tids)
        /\ tid_heap_ \in 0 .. MaxTid
    BY DEF Ids, IdTypes
  <1>4. \A n : Begin(t, n) => Ids'
    <2> SUFFICES ASSUME NEW n, Begin(t, n)  PROVE Ids'
      OBVIOUS
    <2>1. UNCHANGED scope  BY DEF Begin
    <2>2. CASE ~Local
      BY <1>1, <2>1, <2>2 DEF Begin
    <2>3. CASE Local
      <3>1. GetOrCreateTid(t)  BY <2>3 DEF Begin
      <3>2. /\ TidOf(t) \in Tids /\ tls' = [tls EXCEPT ![t] = TidOf(t)]
            /\ tid_heap_' \in 0 .. MaxTid /\ free_tids_' \in Seq(Tids) /\ Owned'
        BY <3>1, IdDrawn
      <3>3. depth[t] # 0 => TidOf(t) = tls[t]
        BY DEF Ids, Scopes, TidOf
      <3>4. Scopes'
        BY <1>3, <2>1, <3>2, <3>3 DEF Ids, Scopes, scope
      <3>5. IdTypes'
        BY <1>3, <2>1, <3>2 DEF IdTypes, scope
      <3>6. QED  BY <3>2, <3>4, <3>5 DEF Ids
    <2>4. QED  BY <2>2, <2>3
  <1>5. CASE CreateTls(t)
    <2>1. /\ GetOrCreateTid(t)
          /\ ctx' = [ctx EXCEPT ![t] = TidOf(t)]
          /\ depth' = [depth EXCEPT ![t] = @ + 1]
          /\ depth[t] < MaxDepth
      BY <1>5 DEF CreateTls
    <2>2. /\ TidOf(t) \in Tids /\ tls' = [tls EXCEPT ![t] = TidOf(t)]
          /\ tid_heap_' \in 0 .. MaxTid /\ free_tids_' \in Seq(Tids) /\ Owned'
      BY <2>1, IdDrawn
    <2>3. depth[t] + 1 \in 0 .. MaxDepth /\ depth[t] + 1 # 0
      BY <1>3, <2>1, Numbers
    <2>4. IdTypes'
      BY <1>3, <2>1, <2>2, <2>3 DEF IdTypes
    <2>5. Scopes'
      BY <1>3, <2>1, <2>2, <2>3, TidSet DEF Ids, Scopes
    <2>6. QED  BY <2>2, <2>4, <2>5 DEF Ids
  <1>6. CASE FreeTls(t)
    <2>1. /\ free_tids_' = Append(free_tids_, TidOf(t))
          /\ tls' = [tls EXCEPT ![t] = NoTid]
          /\ depth' = [depth EXCEPT ![t] = @ - 1]
          /\ ctx' = [ctx EXCEPT ![t] = IF depth[t] = 1 THEN NoTid ELSE @]
          /\ tid_heap_' = tid_heap_
          /\ depth[t] > 0
      BY <1>6 DEF FreeTls
    <2>2. depth[t] = 1 /\ 1 \in 0 .. MaxDepth /\ 0 \in 0 .. MaxDepth
      BY <1>3, <2>1, Numbers DEF Sound
    <2>3. TidOf(t) = tls[t] /\ tls[t] # NoTid /\ tls[t] \in Tids
      BY <1>3, <2>2 DEF Ids, Scopes, TidOf
    <2>4. ~Contains(free_tids_, tls[t]) /\ IsInjective(free_tids_)
      BY <2>3 DEF Ids, Owned
    <2>5. /\ free_tids_' \in Seq(Tids) /\ IsInjective(free_tids_')
          /\ \A x : Contains(free_tids_', x) <=> Contains(free_tids_, x) \/ x = tls[t]
      BY <1>3, <2>1, <2>3, <2>4, Appended
    <2>6. \A u \in Thread : tls'[u] = IF u = t THEN NoTid ELSE tls[u]
      BY <1>3, <2>1
    <2>7. Owned'
      <3>1. Owned
        BY DEF Ids
      <3>2. \A u, w \in Thread : tls'[u] # NoTid /\ tls'[w] = tls'[u] => w = u
        BY <2>6, <3>1 DEF Owned
      <3>3. \A u \in Thread : tls'[u] # NoTid =>
              tls'[u] < tid_heap_' /\ ~Contains(free_tids_', tls'[u])
        BY <2>1, <2>3, <2>5, <2>6, <3>1 DEF Owned
      <3>4. \A i \in Tids : Contains(free_tids_', i) => i < tid_heap_'
        BY <2>1, <2>3, <2>5, <3>1 DEF Owned
      <3>5. \A i \in 0 .. tid_heap_' - 1 :
              Contains(free_tids_', i) \/ \E u \in Thread : tls'[u] = i
        BY <2>1, <2>3, <2>5, <2>6, <3>1 DEF Owned
      <3>6. QED  BY <2>5, <3>2, <3>3, <3>4, <3>5 DEF Owned
    <2>8. IdTypes'
      BY <1>3, <2>1, <2>2, <2>5 DEF IdTypes
    <2>9. Scopes'
      BY <1>3, <2>1, <2>2 DEF Ids, Scopes
    <2>10. QED  BY <2>7, <2>8, <2>9 DEF Ids
  <1>7. CASE Step(t)
    BY <1>1, <1>7, Zenon DEF Step, FindPage, CarveLocal, CarveGlobal, Mark, Enqueue, Copy
  <1>8. QED
    BY <1>1, <1>4, <1>5, <1>6, <1>7 DEF Allocate, Reallocate, Free

-----------------------------------------------------------------------------
(* Pages *)

PageTypes ==
  /\ kind \in Kinds
  /\ heap_off_ \in Nat /\ local_off_ \in [Tids -> Nat]
  /\ \A p \in DOMAIN page :
       /\ p \in Nat
       /\ page[p] \in [size : Nat, tid : Tids, allocated : BOOLEAN, extent : Nat]
  /\ lists \in [Tids -> [0 .. MaxExp -> Seq(DOMAIN page)]]
  /\ total_alloc_ \in Int
  /\ pc \in [Thread -> {"idle", "list", "local", "global", "mark", "copy", "enqueue"}]
  /\ req \in [Thread -> Nat]
  /\ cur \in [Thread -> DOMAIN page \union {NoPage}]
  /\ moving \in [Thread -> DOMAIN page \union {NoPage}]
  /\ DOMAIN held \subseteq DOMAIN page
  /\ \A p \in DOMAIN held : held[p] \in Nat

Calling ==
  \A t \in Thread :
    /\ Local /\ pc[t] \notin {"idle", "enqueue"} => tls[t] # NoTid
    /\ pc[t] = "local" => Local
    /\ pc[t] \in {"mark", "enqueue", "copy"} => cur[t] \in DOMAIN page
    /\ pc[t] = "copy" => moving[t] # NoPage
    /\ moving[t] # NoPage =>
         /\ moving[t] \in DOMAIN held
         /\ pc[t] \notin {"idle", "enqueue"}
         /\ \A u \in Thread : moving[u] = moving[t] => u = t

InCall(t, p) == pc[t] \in {"mark", "enqueue"} /\ cur[t] = p
Listed(p)    == \E i \in Tids, c \in 0 .. MaxExp : Contains(lists[i][c], p)

Somewhere ==
  /\ \A p \in DOMAIN page :
       /\ page[p].allocated <=> p \in DOMAIN held
       /\ p \in DOMAIN held \/ Listed(p) \/ \E t \in Thread : InCall(t, p)
       /\ p \in DOMAIN held => ~Listed(p)
       /\ \A t \in Thread : InCall(t, p) => p \notin DOMAIN held /\ ~Listed(p)
  /\ \A t, u \in Thread : InCall(t, cur[t]) /\ InCall(u, cur[t]) => u = t

InOrder ==
  \A i \in Tids, c \in 0 .. MaxExp :
    /\ IsInjective(lists[i][c])
    /\ \A p \in DOMAIN page : Contains(lists[i][c], p) =>
         page[p].tid = i /\ PageId(page[p].size - Hdr).class = c

Sizes ==
  /\ \A p \in DOMAIN page :
       /\ Hdr < page[p].extent /\ page[p].size <= page[p].extent
       /\ Rounded(page[p].size) \/ (~Local /\ \E t \in Thread : pc[t] = "mark" /\ cur[t] = p)
  /\ \A t \in Thread : pc[t] \in {"mark", "copy"} =>
       PageId(req[t]).round <= page[cur[t]].extent
  /\ \A p \in DOMAIN held :
       /\ held[p] + Hdr <= page[p].extent
       /\ ~Local => page[p].size = PageId(held[p]).round
  /\ \A t \in Thread : moving[t] # NoPage => held[moving[t]] < req[t]

InRegion(p) == /\ RegionBase <= p
               /\ p + page[p].extent <= RegionBase + heap_off_
               /\ p + page[p].extent <= RegionBase + RegionSize

\* Where the pages of thread id i end.
LocalEnd(i) == LocalBase(i) + LocalSize

InLocal(p) == /\ LocalBase(page[p].tid) <= p
              /\ p + page[p].extent <= LocalBase(page[p].tid) + local_off_[page[p].tid]
              /\ p + page[p].extent <= LocalEnd(page[p].tid)

Apart ==
  /\ \A p \in DOMAIN page : InRegion(p) \/ InLocal(p)
  /\ \A p, q \in DOMAIN page :
       p # q => p + page[p].extent <= q \/ q + page[q].extent <= p

Pages == PageTypes /\ Calling /\ Somewhere /\ InOrder /\ Sizes /\ Apart

LEMMA ListTypes ==
  ASSUME PageTypes, NEW i \in Tids, NEW c \in 0 .. MaxExp
  PROVE  lists[i][c] \in Seq(DOMAIN page)
  <1>1. lists \in [Tids -> [0 .. MaxExp -> Seq(DOMAIN page)]]  BY DEF PageTypes
  <1>2. lists[i] \in [0 .. MaxExp -> Seq(DOMAIN page)]  BY <1>1
  <1>3. QED  BY <1>2

\* The places of the pages of two thread ids, and those of the region, follow
\* one another: all local heaps are entered the same RegionOff too low.
LEMMA Bases ==
  ASSUME NEW i \in Tids
  PROVE  /\ LocalBase(i) \in Nat /\ LocalEnd(i) \in Nat
         /\ LocalEnd(i) = LocalBase(i) + LocalSize
         /\ RegionBase \in Nat /\ LocalEnd(i) <= RegionBase
         /\ \A j \in Tids : i < j => LocalEnd(i) <= LocalBase(j)
  <1> DEFINE k == LocalSize + Hdr
  <1>1. /\ i \in Nat /\ i + 1 <= MaxTid /\ MaxTid \in Nat
        /\ LocalSize \in Nat /\ Hdr \in Nat /\ Table \in Nat /\ RegionOff \in Nat
        /\ RegionStart \in Nat /\ Table + MaxTid * k <= RegionStart
    BY TidSet, Numbers
  <1>2. k \in Nat /\ k = LocalSize + Hdr  BY <1>1
  <1>3. /\ \A j : LocalBase(j) = Table + j * k + Hdr
        /\ RegionBase = RegionOff + RegionStart
        /\ LocalEnd(i) = LocalBase(i) + LocalSize
    BY DEF LocalBase, HeapOff, RegionBase, InBuffer, LocalEnd
  <1> HIDE DEF k
  <1>4. \A m, n \in Nat : m <= n => m * k <= n * k /\ m * k \in Nat
    BY <1>2
  <1>5. (i + 1) * k = i * k + k /\ i * k \in Nat  BY <1>1, <1>2, <1>4
  <1>6. /\ LocalBase(i) \in Nat /\ LocalEnd(i) = Table + (i + 1) * k
        /\ LocalEnd(i) \in Nat /\ RegionBase \in Nat
    BY <1>1, <1>2, <1>3, <1>5
  <1>7. LocalEnd(i) <= RegionBase
    <2>1. (i + 1) * k <= MaxTid * k /\ (i + 1) * k \in Nat /\ MaxTid * k \in Nat
      BY <1>1, <1>4
    <2>2. QED  BY <1>1, <1>3, <1>6, <2>1
  <1>8. ASSUME NEW j \in Tids, i < j  PROVE LocalEnd(i) <= LocalBase(j)
    <2>1. j \in Nat /\ i + 1 <= j  BY <1>1, <1>8, TidSet
    <2>2. (i + 1) * k <= j * k /\ (i + 1) * k \in Nat /\ j * k \in Nat
      BY <1>1, <1>4, <2>1
    <2>3. QED  BY <1>1, <1>3, <1>6, <2>2
  <1>9. QED  BY <1>3, <1>6, <1>7, <1>8

LEMMA RegionAbove ==
  /\ RegionBase \in Nat
  /\ \A i \in Tids : LocalEnd(i) \in Nat /\ LocalEnd(i) <= RegionBase
  <1>1. 0 \in Tids  BY TidSet, Numbers
  <1>2. RegionBase \in Nat  BY <1>1, Bases
  <1>3. ASSUME NEW i \in Tids
        PROVE  LocalEnd(i) \in Nat /\ LocalEnd(i) <= RegionBase
    BY Bases, Numbers
  <1>4. QED  BY <1>2, <1>3

\* Steps of calls that have no page yet.
LEMMA NoPageYet ==
  ASSUME Pages, NEW t \in Thread, NEW label,
         UNCHANGED <<kind, page, lists, cur, held>>,
         pc' = [pc EXCEPT ![t] = label],
         pc[t] \notin {"mark", "enqueue", "copy"}, label \notin {"mark", "enqueue", "copy"},
         PageTypes', Calling',
         \A u \in Thread : u # t => req'[u] = req[u],
         \A u \in Thread : moving'[u] # NoPage => held[moving'[u]] < req'[u],
         heap_off_ <= heap_off_', \A i \in Tids : local_off_[i] <= local_off_'[i]
  PROVE  Pages'
  <1>1. Somewhere'
    <2>1. \A u \in Thread : pc'[u] \in {"mark", "enqueue"} <=> pc[u] \in {"mark", "enqueue"}
      BY DEF Pages, PageTypes
    <2>2. \A u \in Thread : \A p : InCall(u, p)' <=> InCall(u, p)
      BY <2>1 DEF InCall
    <2>3. \A p : Listed(p)' <=> Listed(p)
      BY DEF Listed
    <2>4. \A p \in DOMAIN page :
            /\ page[p].allocated <=> p \in DOMAIN held
            /\ p \in DOMAIN held \/ Listed(p)' \/ \E u \in Thread : InCall(u, p)'
            /\ p \in DOMAIN held => ~Listed(p)'
            /\ \A u \in Thread : InCall(u, p)' => p \notin DOMAIN held /\ ~Listed(p)'
      BY <2>2, <2>3 DEF Pages, Somewhere
    <2>5. \A u, v \in Thread :
            pc'[u] \in {"mark", "enqueue"} /\ pc'[v] \in {"mark", "enqueue"}
            /\ cur'[v] = cur'[u] => v = u
      BY <2>1 DEF Pages, Somewhere, InCall
    <2>6. QED  BY <2>4, <2>5 DEF Somewhere, InCall
  <1>2. InOrder'
    BY DEF Pages, InOrder
  <1>3. Sizes'
    <2>1. \A u \in Thread : /\ pc'[u] = "mark" <=> pc[u] = "mark"
                            /\ pc'[u] \in {"mark", "copy"} => pc[u] \in {"mark", "copy"} /\ u # t
      BY DEF Pages, PageTypes
    <2>2. Local' = Local  BY DEF Local
    <2>3. QED  BY <2>1, <2>2 DEF Pages, Sizes
  <1>4. Apart'
    <2>1. ASSUME NEW p \in DOMAIN page, InRegion(p)  PROVE InRegion(p)'
      <3>1. /\ p \in Nat /\ page[p].extent \in Nat /\ heap_off_ \in Nat /\ heap_off_' \in Nat
        BY DEF Pages, PageTypes
      <3>2. RegionBase \in Nat  BY RegionAbove
      <3>3. QED  BY <2>1, <3>1, <3>2 DEF InRegion, RegionBase, InBuffer
    <2>2. ASSUME NEW p \in DOMAIN page, InLocal(p)  PROVE InLocal(p)'
      <3>1. /\ p \in Nat /\ page[p].extent \in Nat /\ page[p].tid \in Tids
            /\ local_off_[page[p].tid] \in Nat /\ local_off_'[page[p].tid] \in Nat
        BY DEF Pages, PageTypes
      <3>2. LocalBase(page[p].tid) \in Nat  BY <3>1, Bases
      <3>3. QED  BY <2>2, <3>1, <3>2 DEF InLocal, LocalEnd, LocalBase, HeapOff
    <2>3. QED  BY <2>1, <2>2 DEF Pages, Apart
  <1>5. QED  BY <1>1, <1>2, <1>3, <1>4 DEF Pages

LEMMA BeginPages ==
  ASSUME Sound, Ids, Pages, NEW t \in Thread, NEW n \in Requests[kind], Begin(t, n),
         \/ moving' = moving
         \/ \E p \in DOMAIN held : Has(p) /\ n > held[p] /\ moving' = [moving EXCEPT ![t] = p]
  PROVE  Pages'
  <1>1. /\ pc[t] = "idle" /\ pc' = [pc EXCEPT ![t] = "list"]
        /\ req' = [req EXCEPT ![t] = n]
        /\ UNCHANGED <<kind, heap_off_, local_off_, page, lists, total_alloc_, cur, held>>
    BY DEF Begin, Goto, heaps
  <1>2. PageTypes /\ Calling /\ Sizes  BY DEF Pages
  <1>3. n \in Nat  BY <1>2, PageAssumption DEF PageTypes
  <1>4. moving[t] = NoPage  BY <1>1, <1>2 DEF PageTypes, Calling
  <1>5. /\ moving' \in [Thread -> DOMAIN page \union {NoPage}]
        /\ \A u \in Thread : u # t => moving'[u] = moving[u]
        /\ moving'[t] # NoPage =>
             /\ moving'[t] \in DOMAIN held /\ n > held[moving'[t]]
             /\ \A u \in Thread : moving[u] # moving'[t]
    <2>1. CASE moving' = moving  BY <1>2, <1>4, <2>1 DEF PageTypes
    <2>2. ASSUME NEW p \in DOMAIN held, Has(p), n > held[p], moving' = [moving EXCEPT ![t] = p]
          PROVE  <1>5
      BY <1>2, <2>2 DEF PageTypes, Has
    <2>3. QED  BY <2>1, <2>2
  <1>6. PageTypes'
    BY <1>1, <1>2, <1>3, <1>5 DEF PageTypes
  <1>7. \A u \in Thread : tls'[u] = (IF u = t /\ Local THEN TidOf(t) ELSE tls[u])
    <2>1. CASE Local
      <3>1. GetOrCreateTid(t)  BY <2>1 DEF Begin
      <3>2. QED  BY <2>1, <3>1, IdDrawn DEF Ids, IdTypes
    <2>2. CASE ~Local
      BY <2>2 DEF Begin, ids
    <2>3. QED  BY <2>1, <2>2
  <1>8. Local => TidOf(t) \in Tids
    <2>1. Local => GetOrCreateTid(t)  BY DEF Begin
    <2>2. QED  BY <2>1, IdDrawn
  <1>9. Local' = Local  BY <1>1 DEF Local
  <1>10. Calling'
    <2> SUFFICES ASSUME NEW u \in Thread
                 PROVE  /\ Local' /\ pc'[u] \notin {"idle", "enqueue"} => tls'[u] # NoTid
                        /\ pc'[u] = "local" => Local'
                        /\ pc'[u] \in {"mark", "enqueue", "copy"} => cur'[u] \in DOMAIN page'
                        /\ pc'[u] = "copy" => moving'[u] # NoPage
                        /\ moving'[u] # NoPage =>
                             /\ moving'[u] \in DOMAIN held'
                             /\ pc'[u] \notin {"idle", "enqueue"}
                             /\ \A v \in Thread : moving'[v] = moving'[u] => v = u
      BY DEF Calling, NoTid, NoPage
    <2>1. CASE u = t
      <3>1. pc'[t] = "list"  BY <1>1, <1>2 DEF PageTypes
      <3>2. QED  BY <1>1, <1>5, <1>7, <1>8, <1>9, <2>1, <3>1, TidSet
    <2>2. CASE u # t
      <3>1. pc'[u] = pc[u] /\ moving'[u] = moving[u] /\ tls'[u] = tls[u]
        BY <1>1, <1>2, <1>5, <1>7, <2>2 DEF PageTypes
      <3>2. QED  BY <1>1, <1>2, <1>5, <1>9, <2>2, <3>1 DEF Calling
    <2>3. QED  BY <2>1, <2>2
  <1>11. \A u \in Thread : moving'[u] # NoPage => held[moving'[u]] < req'[u]
    BY <1>1, <1>2, <1>3, <1>5 DEF PageTypes, Sizes, Calling
  <1>12. \A u \in Thread : u # t => req'[u] = req[u]
    BY <1>1, <1>2 DEF PageTypes
  <1>13. heap_off_ <= heap_off_' /\ \A i \in Tids : local_off_[i] <= local_off_'[i]
    BY <1>1, <1>2 DEF PageTypes
  <1>14. QED
    BY <1>1, <1>6, <1>10, <1>11, <1>12, <1>13, NoPageYet

LEMMA ScopePages ==
  ASSUME Sound, Ids, Pages, NEW t \in Thread, CreateTls(t) \/ FreeTls(t)
  PROVE  Pages'
  <1>1. /\ pc[t] = "idle"
        /\ UNCHANGED <<kind, heap_off_, local_off_, page, lists, total_alloc_, pc, req, cur,
                       moving, held>>
    BY DEF CreateTls, FreeTls, heaps, call
  <1>2. PageTypes /\ Calling /\ Sizes  BY DEF Pages
  <1>3. \A u \in Thread : u # t => tls'[u] = tls[u]
    BY DEF CreateTls, FreeTls, GetOrCreateTid, Ids, IdTypes
  <1>4. PageTypes'  BY <1>1, <1>2 DEF PageTypes
  <1>5. Calling'
    BY <1>1, <1>2, <1>3 DEF Calling, Local, NoTid, NoPage
  <1>6. pc' = [pc EXCEPT ![t] = "idle"]
    BY <1>1, <1>2 DEF PageTypes
  <1>7. /\ \A u \in Thread : u # t => req'[u] = req[u]
        /\ \A u \in Thread : moving'[u] # NoPage => held[moving'[u]] < req'[u]
        /\ heap_off_ <= heap_off_' /\ \A i \in Tids : local_off_[i] <= local_off_'[i]
    BY <1>1, <1>2 DEF PageTypes, Sizes
  <1>8. QED  BY <1>1, <1>4, <1>5, <1>6, <1>7, NoPageYet

LEMMA ApartKept ==
  ASSUME Apart, DOMAIN page' = DOMAIN page, UNCHANGED heaps,
         \A p \in DOMAIN page : page'[p].extent = page[p].extent /\ page'[p].tid = page[p].tid
  PROVE  Apart'
  <1>1. \A p \in DOMAIN page : (InRegion(p) => InRegion(p)') /\ (InLocal(p) => InLocal(p)')
    BY DEF InRegion, InLocal, heaps, RegionBase, InBuffer, LocalEnd, LocalBase, HeapOff
  <1>2. QED  BY <1>1 DEF Apart

\* The lists that t uses.
LEMMA MineDef ==
  ASSUME Sound, Ids, Pages, NEW t \in Thread, pc[t] \notin {"idle", "enqueue"}
  PROVE  /\ Mine(t) \in Tids
         /\ req[t] \in Nat /\ PageId(req[t]).class \in 0 .. MaxExp
         /\ PageId(req[t]).round \in Nat /\ Hdr < PageId(req[t]).round
         /\ Rounded(PageId(req[t]).round)
         /\ lists[Mine(t)][PageId(req[t]).class] \in Seq(DOMAIN page)
  <1>1. PageTypes /\ Calling  BY DEF Pages
  <1>2. req[t] \in Nat  BY <1>1 DEF PageTypes
  <1>3. Mine(t) \in Tids
    <2>1. 0 \in Tids  BY TidSet, Numbers
    <2>2. Local => tls[t] \in Tids  BY <1>1 DEF Calling, Ids, IdTypes
    <2>3. QED  BY <2>1, <2>2 DEF Mine
  <1>4. /\ PageId(req[t]).class \in 0 .. MaxExp
        /\ PageId(req[t]).round \in Nat /\ Hdr < PageId(req[t]).round
        /\ Rounded(PageId(req[t]).round)
    BY <1>2, PageIdDef
  <1>5. lists[Mine(t)][PageId(req[t]).class] \in Seq(DOMAIN page)
    BY <1>1, <1>3, <1>4, ListTypes
  <1>6. QED  BY <1>2, <1>3, <1>4, <1>5

LEMMA FindPagePages ==
  ASSUME Sound, Ids, Pages, NEW t \in Thread, FindPage(t)
  PROVE  Pages'
  <1>0. pc[t] = "list"  BY Zenon DEF FindPage
  <1> DEFINE m == Mine(t)
             id == PageId(req[t])
             list == lists[m][id.class]
             fits == {i \in 1 .. Len(list) : Enough(list[i], id)}
  <1>1. /\ pc[t] = "list"
        /\ UNCHANGED <<kind, heap_off_, local_off_, tls, page, total_alloc_, req, moving, held>>
        /\ \/ /\ fits = {}
              /\ pc' = [pc EXCEPT ![t] = IF Local /\ Cached(id) THEN "local" ELSE "global"]
              /\ UNCHANGED <<lists, cur>>
           \/ /\ fits # {}
              /\ cur' = [cur EXCEPT ![t] = list[Min(fits)]]
              /\ lists' = [lists EXCEPT ![m][id.class] = RemoveAt(list, Min(fits))]
              /\ pc' = [pc EXCEPT ![t] = "mark"]
    BY Zenon DEF FindPage, Goto, heaps, ids
  <1>2. /\ PageTypes /\ Calling /\ Somewhere /\ InOrder /\ Sizes /\ Apart  BY DEF Pages
  <1>3. /\ m \in Tids /\ req[t] \in Nat /\ id.class \in 0 .. MaxExp /\ id.round \in Nat
        /\ list \in Seq(DOMAIN page)
    BY <1>0, MineDef
  <1>4. Local' = Local  BY <1>1 DEF Local
  <1>5. CASE fits = {}
    <2> DEFINE label == IF Local /\ Cached(id) THEN "local" ELSE "global"
    <2>1. pc' = [pc EXCEPT ![t] = label] /\ UNCHANGED <<lists, cur>>
      BY <1>1, <1>5
    <2>2. label \in {"local", "global"} /\ (label = "local" => Local)
      OBVIOUS
    <2> HIDE DEF label, fits
    <2>3. PageTypes'
      BY <1>1, <1>2, <2>1, <2>2 DEF PageTypes
    <2>4. \A u \in Thread : pc'[u] = IF u = t THEN label ELSE pc[u]
      BY <1>2, <2>1 DEF PageTypes
    <2>5. Calling'
      BY <1>1, <1>2, <1>4, <2>1, <2>2, <2>4 DEF Calling, NoTid, NoPage
    <2>6. /\ \A u \in Thread : moving'[u] # NoPage => held[moving'[u]] < req'[u]
          /\ heap_off_ <= heap_off_' /\ \A i \in Tids : local_off_[i] <= local_off_'[i]
      BY <1>1, <1>2 DEF PageTypes, Sizes
    <2>7. QED
      BY <1>1, <2>1, <2>2, <2>3, <2>5, <2>6, NoPageYet
  <1>6. CASE fits # {}
    <2> DEFINE k == Min(fits)
               p == list[k]
               rest == RemoveAt(list, k)
    <2>1. k \in fits
      <3>1. fits \subseteq Nat  OBVIOUS
      <3>2. \E i \in fits : \A j \in fits : i <= j  BY <1>6, <3>1, LeastNumber
      <3> HIDE DEF fits
      <3>3. QED  BY <3>2 DEF Min
    <2>2. k \in 1 .. Len(list) /\ Enough(p, id)
      BY <2>1, Zenon
    <2>3. /\ pc' = [pc EXCEPT ![t] = "mark"] /\ cur' = [cur EXCEPT ![t] = p]
          /\ lists' = [lists EXCEPT ![m][id.class] = rest]
      BY <1>1, <1>6, Zenon
    <2> HIDE DEF fits, k
    <2>4. p \in DOMAIN page /\ Contains(list, p) /\ IsInjective(list)
      <3>1. p \in DOMAIN page
        BY <1>3, <2>2, ElementOfSeq
      <3>2. Contains(list, p)
        BY <1>3, <2>2 DEF Contains
      <3>3. IsInjective(list)
        BY <1>2, <1>3 DEF InOrder
      <3>4. QED  BY <3>1, <3>2, <3>3
    <2>5. /\ rest \in Seq(DOMAIN page) /\ IsInjective(rest)
          /\ \A x : Contains(rest, x) <=> Contains(list, x) /\ x # p
      BY <1>3, <2>2, <2>4, Removed
    <2> HIDE DEF rest, p
    <2>6. \A i \in Tids, c \in 0 .. MaxExp :
            lists'[i][c] = IF i = m /\ c = id.class THEN rest ELSE lists[i][c]
      BY <1>2, <1>3, <2>3 DEF PageTypes
    <2>7. \A i \in Tids, c \in 0 .. MaxExp : Contains(lists[i][c], p) => i = m /\ c = id.class
      BY <1>2, <1>3, <2>4 DEF InOrder
    <2>8. \A i \in Tids, c \in 0 .. MaxExp : \A x :
            Contains(lists'[i][c], x) <=> Contains(lists[i][c], x) /\ x # p
      BY <1>3, <2>5, <2>6, <2>7
    <2>9. Listed(p) /\ \A q : Listed(q)' <=> Listed(q) /\ q # p
      BY <1>3, <2>4, <2>8 DEF Listed
    <2>10. p \notin DOMAIN held /\ \A u \in Thread : ~InCall(u, p)
      BY <1>2, <2>4, <2>9 DEF Somewhere
    <2>11. \A u \in Thread : /\ pc'[u] = IF u = t THEN "mark" ELSE pc[u]
                             /\ cur'[u] = IF u = t THEN p ELSE cur[u]
      BY <1>2, <2>3 DEF PageTypes
    <2>12. \A u \in Thread : \A q : InCall(u, q)' <=> InCall(u, q) \/ (u = t /\ q = p)
      BY <1>1, <2>11 DEF InCall
    <2>13. PageTypes'
      <3>1. lists' \in [Tids -> [0 .. MaxExp -> Seq(DOMAIN page)]]
        BY <1>2, <1>3, <2>3, <2>5 DEF PageTypes
      <3>2. QED  BY <1>1, <1>2, <2>3, <2>4, <3>1 DEF PageTypes
    <2>14. Calling'
      BY <1>1, <1>2, <1>4, <2>4, <2>11 DEF Calling, NoTid, NoPage
    <2>15. Somewhere'
      <3>1. \A u \in Thread : InCall(u, cur[u]) => cur[u] # p
        BY <2>10
      <3>2. \A u, v \in Thread :
              pc'[u] \in {"mark", "enqueue"} /\ pc'[v] \in {"mark", "enqueue"}
              /\ cur'[v] = cur'[u] => v = u
        BY <1>2, <2>10, <2>11, <2>12 DEF Somewhere, InCall
      <3>3. \A q \in DOMAIN page : page'[q].allocated <=> q \in DOMAIN held'
        BY <1>1, <1>2 DEF Somewhere
      <3>4. \A q \in DOMAIN page : q \in DOMAIN held \/ Listed(q)' \/ \E u \in Thread : InCall(u, q)'
        BY <1>2, <2>9, <2>12 DEF Somewhere
      <3>5. \A q \in DOMAIN page :
              /\ q \in DOMAIN held => ~Listed(q)'
              /\ \A u \in Thread : InCall(u, q)' => q \notin DOMAIN held /\ ~Listed(q)'
        BY <1>2, <2>9, <2>10, <2>12 DEF Somewhere
      <3>6. QED  BY <1>1, <3>2, <3>3, <3>4, <3>5 DEF Somewhere, InCall
    <2>16. InOrder'
      BY <1>1, <1>2, <2>5, <2>6, <2>8 DEF InOrder
    <2>17. Rounded(page[p].size) /\ page[p].size <= page[p].extent
      BY <1>2, <2>4, <2>10 DEF Sizes, InCall
    <2>18. id.round <= page[p].extent
      <3>1. id.round <= page[p].size
        <4>1. CASE Cached(id)
          <5>1. PageId(page[p].size - Hdr).class = id.class
            BY <1>2, <1>3, <2>4 DEF InOrder
          <5>2. QED  BY <1>3, <2>17, <4>1, <5>1, ClassFits
        <4>2. CASE ~Cached(id)
          BY <1>2, <1>3, <2>2, <2>4, <4>2 DEF Enough, PageTypes, p
        <4>3. QED  BY <4>1, <4>2
      <3>2. page[p].size \in Nat /\ page[p].extent \in Nat
        BY <1>2, <2>4 DEF PageTypes
      <3>3. QED  BY <1>3, <2>17, <3>1, <3>2
    <2>19. Sizes'
      <3>1. \A q \in DOMAIN page :
              Rounded(page[q].size) \/ (~Local /\ \E u \in Thread : pc'[u] = "mark" /\ cur'[u] = q)
        BY <1>1, <1>2, <2>11 DEF Sizes
      <3>2. \A u \in Thread : pc'[u] \in {"mark", "copy"} =>
              PageId(req[u]).round <= page[cur'[u]].extent
        BY <1>2, <2>11, <2>18 DEF Sizes
      <3>3. QED  BY <1>1, <1>2, <1>4, <3>1, <3>2 DEF Sizes
    <2>20. Apart'  BY <1>1, <1>2, ApartKept DEF heaps
    <2>21. QED  BY <2>13, <2>14, <2>15, <2>16, <2>19, <2>20 DEF Pages
  <1> HIDE DEF fits
  <1>7. QED  BY <1>5, <1>6

\* The next page of a heap is beyond all pages carved from it.
LEMMA LocalRoom ==
  ASSUME PageTypes, Apart, NEW m \in Tids, NEW round \in Nat,
         local_off_[m] + round <= LocalSize, NEW q \in DOMAIN page
  PROVE  \/ q + page[q].extent <= LocalBase(m) + local_off_[m]
         \/ LocalBase(m) + local_off_[m] + round <= q
  <1> DEFINE off == local_off_[m]  p == LocalBase(m) + off
  <1>1. off \in Nat  BY DEF PageTypes
  <1>2. /\ LocalBase(m) \in Nat /\ LocalEnd(m) = LocalBase(m) + LocalSize
        /\ RegionBase \in Nat /\ LocalEnd(m) <= RegionBase
        /\ LocalSize \in Nat
    BY Bases, Numbers
  <1>3. p \in Nat /\ LocalBase(m) <= p /\ p + round <= LocalEnd(m)
    BY <1>1, <1>2
  <1>4. q \in Nat /\ page[q].extent \in Nat /\ page[q].tid \in Tids
    BY DEF PageTypes
  <1>5. CASE InRegion(q)
    <2>1. RegionBase <= q  BY <1>5 DEF InRegion
    <2> HIDE DEF p
    <2>2. p + round <= q  BY <1>2, <1>3, <1>4, <2>1
    <2>3. QED  BY <2>2 DEF p
  <1>6. CASE InLocal(q)
    <2> DEFINE i == page[q].tid
    <2>1. /\ LocalBase(i) <= q
          /\ q + page[q].extent <= LocalBase(i) + local_off_[i]
          /\ q + page[q].extent <= LocalEnd(i)
      BY <1>6 DEF InLocal
    <2>2. /\ LocalBase(i) \in Nat /\ LocalEnd(i) \in Nat
          /\ i < m => LocalEnd(i) <= LocalBase(m)
          /\ m < i => LocalEnd(m) <= LocalBase(i)
      BY <1>4, Bases, Numbers
    <2>3. i \in Nat /\ m \in Nat  BY <1>4, TidSet
    <2> HIDE DEF i
    <2>4. CASE i = m
      BY <2>1, <2>4
    <2>5. CASE i # m
      <3> HIDE DEF p
      <3>1. i < m \/ m < i  BY <2>3, <2>5
      <3>2. q + page[q].extent <= p \/ p + round <= q
        BY <1>2, <1>3, <1>4, <2>1, <2>2, <3>1
      <3>3. QED  BY <3>2 DEF p
    <2>6. QED  BY <2>4, <2>5
  <1>7. QED  BY <1>5, <1>6 DEF Apart

LEMMA RegionRoom ==
  ASSUME PageTypes, Apart, NEW q \in DOMAIN page
  PROVE  q + page[q].extent <= RegionBase + heap_off_
  <1>1. /\ q \in Nat /\ page[q].extent \in Nat /\ page[q].tid \in Tids
        /\ heap_off_ \in Nat
    BY DEF PageTypes
  <1>2. /\ RegionBase \in Nat /\ LocalEnd(page[q].tid) \in Nat
        /\ LocalEnd(page[q].tid) <= RegionBase
    BY <1>1, Bases, Numbers
  <1>3. CASE InRegion(q)
    BY <1>3 DEF InRegion
  <1>4. CASE InLocal(q)
    <2>1. q + page[q].extent <= LocalEnd(page[q].tid)  BY <1>4 DEF InLocal
    <2>2. QED  BY <1>1, <1>2, <2>1
  <1>5. QED  BY <1>3, <1>4 DEF Apart

\* A new page apart from the others, in the region or in a local heap.
LEMMA CarvePages ==
  ASSUME Sound, Ids, Pages, NEW t \in Thread, NEW p \in Nat,
         pc[t] \in {"local", "global"}, Carve(t, p),
         UNCHANGED <<kind, tls, lists, total_alloc_, req, moving, held>>,
         heap_off_' \in Nat, heap_off_ <= heap_off_',
         local_off_' \in [Tids -> Nat], \A i \in Tids : local_off_[i] <= local_off_'[i],
         \A q \in DOMAIN page : \/ q + page[q].extent <= p
                                \/ p + PageId(req[t]).round <= q,
         \/ /\ RegionBase <= p
            /\ p + PageId(req[t]).round <= RegionBase + heap_off_'
            /\ p + PageId(req[t]).round <= RegionBase + RegionSize
         \/ /\ LocalBase(Mine(t)) <= p
            /\ p + PageId(req[t]).round <= LocalBase(Mine(t)) + local_off_'[Mine(t)]
            /\ p + PageId(req[t]).round <= LocalEnd(Mine(t))
  PROVE  Pages'
  <1> DEFINE m == Mine(t)
             round == PageId(req[t]).round
             new == [size |-> IF Local THEN round ELSE 0, tid |-> m,
                     allocated |-> FALSE, extent |-> round]
  <1>1. /\ page' = With(page, p, new)
        /\ cur' = [cur EXCEPT ![t] = p]
        /\ pc' = [pc EXCEPT ![t] = "mark"]
    BY DEF Carve, Goto
  <1>2. /\ PageTypes /\ Calling /\ Somewhere /\ InOrder /\ Sizes /\ Apart  BY DEF Pages
  <1>3. /\ m \in Tids /\ round \in Nat /\ Hdr < round /\ Hdr \in Nat /\ Rounded(round)
    BY MineDef, Numbers
  <1>4. p \notin DOMAIN page
    <2>1. \A q \in DOMAIN page : q \in Nat /\ page[q].extent \in Nat /\ Hdr < page[q].extent
      BY <1>2 DEF PageTypes, Sizes
    <2>2. QED  BY <1>3, <2>1
  <1>5. new \in [size : Nat, tid : Tids, allocated : BOOLEAN, extent : Nat]
    BY <1>3
  <1> HIDE DEF m, round
  <1>6. /\ DOMAIN page' = DOMAIN page \union {p}
        /\ \A q \in DOMAIN page : page'[q] = page[q]
        /\ page'[p] = new
    BY <1>1, <1>4 DEF With
  <1>7. Local' = Local  BY DEF Local
  <1>8. \A u \in Thread : /\ pc'[u] = IF u = t THEN "mark" ELSE pc[u]
                          /\ cur'[u] = IF u = t THEN p ELSE cur[u]
    BY <1>1, <1>2 DEF PageTypes
  <1>9. \A i \in Tids, c \in 0 .. MaxExp : Contains(lists[i][c], p) => p \in DOMAIN page
    <2> SUFFICES ASSUME NEW i \in Tids, NEW c \in 0 .. MaxExp, Contains(lists[i][c], p)
                 PROVE  p \in DOMAIN page
      OBVIOUS
    <2>1. lists[i][c] \in Seq(DOMAIN page)  BY <1>2, ListTypes
    <2>2. QED  BY <2>1, ElementOfSeq DEF Contains
  <1>10. /\ ~Listed(p) /\ p \notin DOMAIN held
         /\ \A u \in Thread : pc[u] \in {"mark", "enqueue"} => cur[u] # p
    BY <1>2, <1>4, <1>9 DEF Listed, PageTypes, Calling
  <1>11. \A q : Listed(q)' <=> Listed(q)
    BY DEF Listed
  <1>12. \A u \in Thread : \A q : InCall(u, q)' <=> InCall(u, q) \/ (u = t /\ q = p)
    BY <1>8 DEF InCall
  <1> HIDE DEF new
  <1>13. PageTypes'
    <2>1. \A q \in DOMAIN page' :
            /\ q \in Nat
            /\ page'[q] \in [size : Nat, tid : Tids, allocated : BOOLEAN, extent : Nat]
      BY <1>2, <1>5, <1>6 DEF PageTypes
    <2>2. lists \in [Tids -> [0 .. MaxExp -> Seq(DOMAIN page')]]
      <3>1. DOMAIN page \subseteq DOMAIN page'  BY <1>6
      <3>2. ASSUME NEW i \in Tids, NEW c \in 0 .. MaxExp
            PROVE  lists[i][c] \in Seq(DOMAIN page')
        <4>1. lists[i][c] \in Seq(DOMAIN page)  BY <1>2, ListTypes
        <4>2. QED  BY <3>1, <4>1, SeqMonotonic
      <3>3. DOMAIN lists = Tids /\ lists = [i \in DOMAIN lists |-> lists[i]]
        BY <1>2 DEF PageTypes
      <3>4. ASSUME NEW i \in Tids
            PROVE  lists[i] \in [0 .. MaxExp -> Seq(DOMAIN page')]
        <4>1. lists[i] \in [0 .. MaxExp -> Seq(DOMAIN page)]  BY <1>2 DEF PageTypes
        <4>2. QED  BY <3>2, <4>1
      <3>5. QED  BY <3>3, <3>4
    <2>3. /\ pc' \in [Thread -> {"idle", "list", "local", "global", "mark", "copy", "enqueue"}]
          /\ cur' \in [Thread -> DOMAIN page' \union {NoPage}]
          /\ moving' \in [Thread -> DOMAIN page' \union {NoPage}]
          /\ DOMAIN held \subseteq DOMAIN page'
      BY <1>1, <1>2, <1>6 DEF PageTypes
    <2>4. QED  BY <1>2, <2>1, <2>2, <2>3 DEF PageTypes, NoPage
  <1>14. Calling'
    BY <1>2, <1>6, <1>7, <1>8 DEF Calling, NoTid, NoPage
  <1>15. Somewhere'
    <2>1. ASSUME NEW q \in DOMAIN page'
          PROVE  /\ page'[q].allocated <=> q \in DOMAIN held
                 /\ q \in DOMAIN held \/ Listed(q)' \/ \E u \in Thread : InCall(u, q)'
                 /\ q \in DOMAIN held => ~Listed(q)'
                 /\ \A u \in Thread : InCall(u, q)' => q \notin DOMAIN held /\ ~Listed(q)'
      <3>1. CASE q = p
        <4>1. page'[q].allocated = FALSE  BY <1>6, <3>1 DEF new
        <4>2. QED  BY <1>10, <1>11, <1>12, <3>1, <4>1
      <3>2. CASE q # p
        <4>1. q \in DOMAIN page /\ page'[q] = page[q]  BY <1>6, <3>2
        <4>2. \A u \in Thread : InCall(u, q)' <=> InCall(u, q)  BY <1>12, <3>2
        <4>3. QED  BY <1>2, <1>11, <4>1, <4>2 DEF Somewhere
      <3>3. QED  BY <3>1, <3>2
    <2>2. \A u, v \in Thread :
            pc'[u] \in {"mark", "enqueue"} /\ pc'[v] \in {"mark", "enqueue"}
            /\ cur'[v] = cur'[u] => v = u
      BY <1>2, <1>8, <1>10 DEF Somewhere, InCall
    <2>3. QED  BY <2>1, <2>2 DEF Somewhere, InCall
  <1>16. InOrder'
    BY <1>2, <1>4, <1>6, <1>9 DEF InOrder
  <1>17. Sizes'
    <2>1. ASSUME NEW q \in DOMAIN page'
          PROVE  /\ Hdr < page'[q].extent /\ page'[q].size <= page'[q].extent
                 /\ \/ Rounded(page'[q].size)
                    \/ ~Local /\ \E u \in Thread : pc'[u] = "mark" /\ cur'[u] = q
      <3>1. CASE q = p
        <4>1. page'[q].extent = round /\ page'[q].size = IF Local THEN round ELSE 0
          BY <1>6, <3>1 DEF new
        <4>2. QED  BY <1>3, <1>8, <3>1, <4>1
      <3>2. CASE q # p
        <4>1. q \in DOMAIN page /\ page'[q] = page[q]  BY <1>6, <3>2
        <4>2. \A u \in Thread : pc[u] = "mark" => pc'[u] = "mark" /\ cur'[u] = cur[u]
          BY <1>8
        <4>3. QED  BY <1>2, <4>1, <4>2 DEF Sizes
      <3>3. QED  BY <3>1, <3>2
    <2>2. \A u \in Thread : pc'[u] \in {"mark", "copy"} =>
            PageId(req[u]).round <= page'[cur'[u]].extent
      <3>1. PageId(req[t]).round <= page'[p].extent  BY <1>3, <1>6 DEF new, round
      <3>2. \A u \in Thread : pc[u] \in {"mark", "copy"} => cur[u] \in DOMAIN page
        BY <1>2 DEF Calling
      <3>3. QED  BY <1>2, <1>6, <1>8, <3>1, <3>2 DEF Sizes
    <2>3. \A q \in DOMAIN held : page'[q] = page[q]
      BY <1>2, <1>6 DEF PageTypes
    <2>4. QED  BY <1>2, <1>7, <2>1, <2>2, <2>3 DEF Sizes, NoPage
  <1>18. Apart'
    <2>1. \A q \in DOMAIN page : (InRegion(q) => InRegion(q)') /\ (InLocal(q) => InLocal(q)')
      <3> SUFFICES ASSUME NEW q \in DOMAIN page
                   PROVE  (InRegion(q) => InRegion(q)') /\ (InLocal(q) => InLocal(q)')
        OBVIOUS
      <3>1. /\ q \in Nat /\ page[q].extent \in Nat /\ heap_off_ \in Nat
            /\ page[q].tid \in Tids /\ local_off_[page[q].tid] \in Nat
            /\ page'[q] = page[q] /\ local_off_'[page[q].tid] \in Nat
        BY <1>2, <1>6 DEF PageTypes
      <3>2. LocalBase(page[q].tid) \in Nat /\ RegionBase \in Nat  BY <3>1, Bases
      <3>3. InRegion(q) => InRegion(q)'
        BY <3>1, <3>2 DEF InRegion, RegionBase, InBuffer
      <3>4. local_off_[page[q].tid] <= local_off_'[page[q].tid]
        BY <3>1
      <3>5. InLocal(q) => InLocal(q)'
        BY <3>1, <3>2, <3>4 DEF InLocal, LocalEnd, LocalBase, HeapOff
      <3>6. QED  BY <3>3, <3>5
    <2>2. page'[p].extent = round /\ page'[p].tid = m  BY <1>6 DEF new
    <2>3. InRegion(p)' \/ InLocal(p)'
      BY <2>2 DEF InRegion, InLocal, RegionBase, InBuffer, LocalEnd, LocalBase, HeapOff, m, round
    <2>4. \A q \in DOMAIN page' : InRegion(q)' \/ InLocal(q)'
      BY <1>2, <1>6, <2>1, <2>3 DEF Apart
    <2>5. \A q, r \in DOMAIN page' :
            q # r => q + page'[q].extent <= r \/ r + page'[r].extent <= q
      BY <1>2, <1>6, <2>2 DEF Apart, round
    <2>6. QED  BY <2>4, <2>5 DEF Apart
  <1>19. QED  BY <1>13, <1>14, <1>15, <1>16, <1>17, <1>18 DEF Pages

LEMMA CarveLocalPages ==
  ASSUME Sound, Ids, Pages, NEW t \in Thread, CarveLocal(t)
  PROVE  Pages'
  <1> DEFINE m == Mine(t)
             round == PageId(req[t]).round
             off == local_off_[m]
             p == LocalBase(m) + off
  <1>1. /\ pc[t] = "local"
        /\ local_off_' = [local_off_ EXCEPT ![m] = off + round]
        /\ \/ /\ off + round > LocalSize
              /\ pc' = [pc EXCEPT ![t] = "global"]
              /\ UNCHANGED <<page, cur>>
           \/ off + round <= LocalSize /\ Carve(t, p)
        /\ UNCHANGED <<kind, heap_off_, tls, lists, total_alloc_, req, moving, held>>
    BY DEF CarveLocal, Goto, ids
  <1>2. /\ PageTypes /\ Calling /\ Sizes /\ Apart  BY DEF Pages
  <1>3. m \in Tids /\ round \in Nat /\ off \in Nat /\ heap_off_ \in Nat
    BY <1>1, <1>2, MineDef DEF PageTypes
  <1>4. /\ LocalBase(m) \in Nat /\ LocalEnd(m) = LocalBase(m) + LocalSize
        /\ RegionBase \in Nat /\ LocalEnd(m) <= RegionBase
        /\ LocalSize \in Nat
    BY <1>3, Bases, Numbers
  <1> HIDE DEF m, round
  <1>5. /\ local_off_' \in [Tids -> Nat]
        /\ \A i \in Tids : local_off_[i] <= local_off_'[i]
        /\ local_off_'[m] = off + round
    BY <1>1, <1>2, <1>3 DEF PageTypes
  <1>6. CASE off + round > LocalSize
    <2>1. pc' = [pc EXCEPT ![t] = "global"] /\ UNCHANGED <<page, cur>>
      BY <1>1, <1>3, <1>4, <1>6
    <2>2. PageTypes'
      BY <1>1, <1>2, <1>5, <2>1 DEF PageTypes
    <2>3. \A u \in Thread : pc'[u] = IF u = t THEN "global" ELSE pc[u]
      BY <1>2, <2>1 DEF PageTypes
    <2>4. Calling'
      BY <1>1, <1>2, <2>1, <2>3 DEF Calling, Local, NoTid, NoPage
    <2>5. /\ \A u \in Thread : moving'[u] # NoPage => held[moving'[u]] < req'[u]
          /\ \A u \in Thread : u # t => req'[u] = req[u]
          /\ heap_off_ <= heap_off_'
      BY <1>1, <1>2, <1>3 DEF Sizes
    <2>6. QED
      BY <1>1, <1>5, <2>1, <2>2, <2>4, <2>5, NoPageYet
  <1>7. CASE off + round <= LocalSize
    <2>1. Carve(t, p)  BY <1>1, <1>3, <1>4, <1>7
    <2>2. p \in Nat  BY <1>3, <1>4
    <2>3. /\ LocalBase(m) <= p /\ p + round = LocalBase(m) + local_off_'[m]
          /\ p + round <= LocalEnd(m)
      BY <1>3, <1>4, <1>5, <1>7
    <2>4. \A q \in DOMAIN page : q + page[q].extent <= p \/ p + round <= q
      BY <1>2, <1>3, <1>7, LocalRoom
    <2>5. /\ heap_off_' \in Nat /\ heap_off_ <= heap_off_'
          /\ p + round <= LocalBase(m) + local_off_'[m]
      BY <1>1, <1>3, <1>4, <1>5, <2>2, <2>3
    <2> HIDE DEF p
    <2>6. /\ LocalBase(Mine(t)) <= p
          /\ p + PageId(req[t]).round <= LocalBase(Mine(t)) + local_off_'[Mine(t)]
          /\ p + PageId(req[t]).round <= LocalEnd(Mine(t))
      BY <2>3, <2>5 DEF m, round
    <2>7. \A q \in DOMAIN page : \/ q + page[q].extent <= p
                                 \/ p + PageId(req[t]).round <= q
      BY <2>4 DEF round
    <2>8. QED
      BY <1>1, <1>5, <2>1, <2>2, <2>5, <2>6, <2>7, CarvePages
  <1>8. QED  BY <1>3, <1>4, <1>6, <1>7

LEMMA CarveGlobalPages ==
  ASSUME Sound, Ids, Pages, NEW t \in Thread, CarveGlobal(t)
  PROVE  Pages'
  <1> DEFINE round == PageId(req[t]).round
             p == RegionBase + heap_off_
  <1>1. /\ pc[t] = "global"
        /\ heap_off_' = heap_off_ + round
        /\ \/ /\ heap_off_ + round > RegionSize
              /\ pc' = [pc EXCEPT ![t] = "idle"]
              /\ moving' = [moving EXCEPT ![t] = NoPage]
              /\ UNCHANGED <<page, cur>>
           \/ heap_off_ + round <= RegionSize /\ Carve(t, p) /\ UNCHANGED moving
        /\ UNCHANGED <<kind, local_off_, tls, lists, total_alloc_, req, held>>
    BY DEF CarveGlobal, Goto, ids
  <1>2. /\ PageTypes /\ Calling /\ Sizes /\ Apart  BY DEF Pages
  <1>3. /\ round \in Nat /\ heap_off_ \in Nat /\ RegionSize \in Nat
        /\ local_off_ \in [Tids -> Nat]
    BY <1>1, <1>2, MineDef, Numbers DEF PageTypes
  <1>4. RegionBase \in Nat /\ \A i \in Tids : LocalEnd(i) <= RegionBase /\ LocalEnd(i) \in Nat
    BY RegionAbove
  <1> HIDE DEF round
  <1>5. /\ heap_off_' \in Nat /\ heap_off_ <= heap_off_'
        /\ local_off_' \in [Tids -> Nat] /\ \A i \in Tids : local_off_[i] <= local_off_'[i]
    BY <1>1, <1>3
  <1>6. CASE heap_off_ + round > RegionSize
    <2>1. /\ pc' = [pc EXCEPT ![t] = "idle"] /\ moving' = [moving EXCEPT ![t] = NoPage]
          /\ UNCHANGED <<page, cur>>
      BY <1>1, <1>3, <1>6
    <2>2. PageTypes'
      BY <1>1, <1>2, <1>5, <2>1 DEF PageTypes
    <2>3. \A u \in Thread : /\ pc'[u] = IF u = t THEN "idle" ELSE pc[u]
                            /\ moving'[u] = IF u = t THEN NoPage ELSE moving[u]
      BY <1>2, <2>1 DEF PageTypes
    <2>4. Calling'
      BY <1>1, <1>2, <2>1, <2>3 DEF Calling, Local, NoTid, NoPage
    <2>5. /\ \A u \in Thread : moving'[u] # NoPage => held[moving'[u]] < req'[u]
          /\ \A u \in Thread : u # t => req'[u] = req[u]
      BY <1>1, <1>2, <2>3 DEF Sizes
    <2>6. QED
      BY <1>1, <1>5, <2>1, <2>2, <2>4, <2>5, NoPageYet
  <1>7. CASE heap_off_ + round <= RegionSize
    <2>1. Carve(t, p) /\ UNCHANGED moving  BY <1>1, <1>3, <1>7
    <2>2. p \in Nat  BY <1>3, <1>4
    <2>3. /\ RegionBase <= p /\ p + round <= RegionBase + heap_off_'
          /\ p + round <= RegionBase + RegionSize
      BY <1>1, <1>3, <1>4, <1>7
    <2>4. \A q \in DOMAIN page : q + page[q].extent <= p
      BY <1>2, RegionRoom
    <2> HIDE DEF p
    <2>5. /\ RegionBase <= p
          /\ p + PageId(req[t]).round <= RegionBase + heap_off_'
          /\ p + PageId(req[t]).round <= RegionBase + RegionSize
      BY <2>3 DEF round
    <2>6. QED
      BY <1>1, <1>5, <2>1, <2>2, <2>4, <2>5, CarvePages
  <1>8. QED  BY <1>3, <1>6, <1>7

LEMMA MarkPages ==
  ASSUME Sound, Ids, Pages, NEW t \in Thread, Mark(t)
  PROVE  Pages'
  <1> DEFINE p == cur[t]
             round == PageId(req[t]).round
             label == IF moving[t] = NoPage THEN "idle" ELSE "copy"
             new == [page[p] EXCEPT !.allocated = TRUE, !.size = IF Local THEN @ ELSE round]
  <1>1. /\ pc[t] = "mark" /\ pc' = [pc EXCEPT ![t] = label]
        /\ total_alloc_' = total_alloc_ + round
        /\ held' = With(held, p, req[t])
        /\ UNCHANGED <<kind, heap_off_, local_off_, tls, lists, req, cur, moving>>
    BY DEF Mark, Goto, heaps, ids
  <1>2. /\ PageTypes /\ Calling /\ Somewhere /\ InOrder /\ Sizes /\ Apart  BY DEF Pages
  <1>3. /\ req[t] \in Nat /\ round \in Nat /\ Rounded(round) /\ req[t] + Hdr <= round
        /\ round <= page[p].extent
    <2>1. req[t] \in Nat  BY <1>2 DEF PageTypes
    <2>2. round <= page[p].extent  BY <1>1, <1>2 DEF Sizes
    <2>3. QED  BY <2>1, <2>2, PageIdDef
  <1>4. p \in DOMAIN page  BY <1>1, <1>2 DEF Calling
  <1>5. page' = [page EXCEPT ![p] = new]
    <2>1. page' = [page EXCEPT ![p].allocated = TRUE,
                               ![p].size = IF Local THEN @ ELSE round]
      BY DEF Mark
    <2>2. page[p] \in [size : Nat, tid : Tids, allocated : BOOLEAN, extent : Nat]
      BY <1>2, <1>4 DEF PageTypes
    <2>3. QED  BY <1>4, <2>1, <2>2
  <1>6. /\ new \in [size : Nat, tid : Tids, allocated : BOOLEAN, extent : Nat]
        /\ new.extent = page[p].extent /\ new.tid = page[p].tid /\ new.allocated = TRUE
        /\ new.size = IF Local THEN page[p].size ELSE round
    <2>1. page[p] \in [size : Nat, tid : Tids, allocated : BOOLEAN, extent : Nat]
      BY <1>2, <1>4 DEF PageTypes
    <2>2. QED  BY <1>3, <2>1
  <1> HIDE DEF new
  <1>7. /\ DOMAIN page' = DOMAIN page /\ page'[p] = new
        /\ \A q \in DOMAIN page : q # p => page'[q] = page[q]
    BY <1>4, <1>5
  <1>8. \A q \in DOMAIN page : page'[q].extent = page[q].extent /\ page'[q].tid = page[q].tid
    BY <1>6, <1>7
  <1>9. Local' = Local  BY <1>1 DEF Local
  <1>10. \A u \in Thread : pc'[u] = IF u = t THEN label ELSE pc[u]
    BY <1>1, <1>2 DEF PageTypes
  <1>11. InCall(t, p)  BY <1>1 DEF InCall
  <1>12. /\ p \notin DOMAIN held /\ ~Listed(p)
         /\ \A u \in Thread : pc[u] \in {"mark", "enqueue"} /\ cur[u] = p => u = t
    BY <1>2, <1>4, <1>11 DEF Somewhere, InCall
  <1>13. /\ DOMAIN held' = DOMAIN held \union {p}
         /\ held'[p] = req[t] /\ \A q \in DOMAIN held : held'[q] = held[q]
    BY <1>1, <1>12 DEF With
  <1>14. label \in {"idle", "copy"} /\ (label = "idle" <=> moving[t] = NoPage)
    OBVIOUS
  <1> HIDE DEF p, label, round
  <1>15. \A q : Listed(q)' <=> Listed(q)
    BY <1>1 DEF Listed
  <1>16. \A u \in Thread : \A q : InCall(u, q)' <=> InCall(u, q) /\ u # t
    BY <1>1, <1>10, <1>14 DEF InCall
  <1>17. PageTypes'
    <2>1. /\ pc' \in [Thread -> {"idle", "list", "local", "global", "mark", "copy", "enqueue"}]
          /\ total_alloc_' \in Int
      BY <1>1, <1>2, <1>3, <1>14 DEF PageTypes
    <2>2. \A q \in DOMAIN page' :
            /\ q \in Nat
            /\ page'[q] \in [size : Nat, tid : Tids, allocated : BOOLEAN, extent : Nat]
      BY <1>2, <1>6, <1>7 DEF PageTypes
    <2>3. DOMAIN held' \subseteq DOMAIN page' /\ \A q \in DOMAIN held' : held'[q] \in Nat
      BY <1>2, <1>3, <1>4, <1>7, <1>13 DEF PageTypes
    <2>4. QED  BY <1>1, <1>2, <1>7, <2>1, <2>2, <2>3 DEF PageTypes, NoPage
  <1>18. Calling'
    BY <1>1, <1>2, <1>7, <1>9, <1>10, <1>13, <1>14 DEF Calling, NoTid, NoPage
  <1>19. Somewhere'
    <2>1. ASSUME NEW q \in DOMAIN page
          PROVE  /\ page'[q].allocated <=> q \in DOMAIN held'
                 /\ q \in DOMAIN held' \/ Listed(q)' \/ \E u \in Thread : InCall(u, q)'
                 /\ q \in DOMAIN held' => ~Listed(q)'
                 /\ \A u \in Thread : InCall(u, q)' => q \notin DOMAIN held' /\ ~Listed(q)'
      <3>1. CASE q = p
        <4>1. \A u \in Thread : ~InCall(u, q)'  BY <1>12, <1>16, <3>1 DEF InCall
        <4>2. QED  BY <1>6, <1>7, <1>12, <1>13, <1>15, <3>1, <4>1
      <3>2. CASE q # p
        <4>1. page'[q] = page[q] /\ (q \in DOMAIN held' <=> q \in DOMAIN held)
          BY <1>7, <1>13, <3>2
        <4>2. ~InCall(t, q)  BY <3>2 DEF InCall, p
        <4>3. \A u \in Thread : InCall(u, q)' <=> InCall(u, q)  BY <1>16, <4>2
        <4>4. QED  BY <1>2, <1>15, <4>1, <4>3 DEF Somewhere
      <3>3. QED  BY <3>1, <3>2
    <2>2. \A u, v \in Thread :
            pc'[u] \in {"mark", "enqueue"} /\ pc'[v] \in {"mark", "enqueue"}
            /\ cur[v] = cur[u] => v = u
      BY <1>2, <1>10, <1>14 DEF Somewhere, InCall
    <2>3. QED  BY <1>1, <1>7, <2>1, <2>2 DEF Somewhere, InCall
  <1>20. InOrder'
    <2>1. \A i \in Tids, c \in 0 .. MaxExp : ~Contains(lists[i][c], p)
      BY <1>12 DEF Listed
    <2>2. QED  BY <1>1, <1>2, <1>7, <2>1 DEF InOrder
  <1>21. Sizes'
    <2>1. ASSUME NEW q \in DOMAIN page
          PROVE  /\ Hdr < page'[q].extent /\ page'[q].size <= page'[q].extent
                 /\ \/ Rounded(page'[q].size)
                    \/ ~Local /\ \E u \in Thread : pc'[u] = "mark" /\ cur[u] = q
      <3>1. CASE q = p
        <4>1. Local => Rounded(page[p].size)  BY <1>2, <1>4 DEF Sizes
        <4>2. QED  BY <1>2, <1>3, <1>4, <1>6, <1>7, <3>1, <4>1 DEF Sizes
      <3>2. CASE q # p
        <4>1. \A u \in Thread : pc[u] = "mark" /\ cur[u] = q => pc'[u] = "mark"
          BY <1>10, <3>2 DEF p
        <4>2. QED  BY <1>2, <1>7, <3>2, <4>1 DEF Sizes
      <3>3. QED  BY <3>1, <3>2
    <2>2. \A u \in Thread : pc'[u] \in {"mark", "copy"} =>
            PageId(req[u]).round <= page'[cur[u]].extent
      <3>1. \A u \in Thread : pc[u] \in {"mark", "copy"} => cur[u] \in DOMAIN page
        BY <1>2 DEF Calling
      <3>2. \A u \in Thread : pc'[u] \in {"mark", "copy"} => pc[u] \in {"mark", "copy"}
        BY <1>1, <1>10
      <3>3. QED  BY <1>2, <1>8, <3>1, <3>2 DEF Sizes
    <2>3. ASSUME NEW q \in DOMAIN held'
          PROVE  /\ held'[q] + Hdr <= page'[q].extent
                 /\ ~Local => page'[q].size = PageId(held'[q]).round
      <3>1. CASE q = p
        <4>1. page[p].extent \in Nat  BY <1>2, <1>4 DEF PageTypes
        <4>2. req[t] + Hdr <= page[p].extent
          BY <1>3, <4>1, Numbers
        <4>3. QED  BY <1>6, <1>7, <1>13, <3>1, <4>2 DEF round
      <3>2. CASE q # p
        <4>1. q \in DOMAIN held /\ held'[q] = held[q] /\ page'[q] = page[q]
          BY <1>2, <1>7, <1>13, <3>2 DEF PageTypes
        <4>2. QED  BY <1>2, <4>1 DEF Sizes
      <3>3. QED  BY <3>1, <3>2
    <2>4. \A u \in Thread : moving[u] # NoPage => held'[moving[u]] < req[u]
      BY <1>2, <1>13 DEF Sizes, Calling
    <2>5. QED  BY <1>1, <1>7, <1>9, <2>1, <2>2, <2>3, <2>4 DEF Sizes, NoPage
  <1>22. Apart'  BY <1>1, <1>2, <1>7, <1>8, ApartKept DEF heaps
  <1>23. QED  BY <1>17, <1>18, <1>19, <1>20, <1>21, <1>22 DEF Pages

\* What Free and Copy share: the page leaves the program and is the call's.
LEMMA ReleasePages ==
  ASSUME Pages, NEW t \in Thread, NEW p \in DOMAIN held, Release(p),
         pc[t] \in {"idle", "copy"}, \A u \in Thread : u # t => moving[u] # p,
         cur' = [cur EXCEPT ![t] = p], pc' = [pc EXCEPT ![t] = "enqueue"],
         moving' = [moving EXCEPT ![t] = NoPage],
         UNCHANGED <<kind, heap_off_, local_off_, tls, lists, req>>
  PROVE  Pages'
  <1> DEFINE new == [page[p] EXCEPT !.allocated = FALSE]
  <1>1. /\ PageTypes /\ Calling /\ Somewhere /\ InOrder /\ Sizes /\ Apart  BY DEF Pages
  <1>2. /\ page' = [page EXCEPT ![p] = new]
        /\ total_alloc_' = total_alloc_ - page[p].size
        /\ DOMAIN held' = DOMAIN held \ {p} /\ \A q \in DOMAIN held' : held'[q] = held[q]
    BY DEF Release, Restrict
  <1>3. p \in DOMAIN page /\ p # NoPage /\ page[p].size \in Nat
    BY <1>1 DEF PageTypes, NoPage
  <1>4. /\ new \in [size : Nat, tid : Tids, allocated : BOOLEAN, extent : Nat]
        /\ new.extent = page[p].extent /\ new.tid = page[p].tid /\ new.allocated = FALSE
        /\ new.size = page[p].size
    <2>1. page[p] \in [size : Nat, tid : Tids, allocated : BOOLEAN, extent : Nat]
      BY <1>1, <1>3 DEF PageTypes
    <2>2. QED  BY <2>1
  <1> HIDE DEF new
  <1>5. /\ DOMAIN page' = DOMAIN page /\ page'[p] = new
        /\ \A q \in DOMAIN page : q # p => page'[q] = page[q]
    BY <1>2, <1>3
  <1>6. \A q \in DOMAIN page : /\ page'[q].extent = page[q].extent /\ page'[q].tid = page[q].tid
                               /\ page'[q].size = page[q].size
    BY <1>4, <1>5
  <1>7. Local' = Local  BY DEF Local
  <1>8. \A u \in Thread : /\ pc'[u] = IF u = t THEN "enqueue" ELSE pc[u]
                          /\ cur'[u] = IF u = t THEN p ELSE cur[u]
                          /\ moving'[u] = IF u = t THEN NoPage ELSE moving[u]
    BY <1>1 DEF PageTypes
  <1>9. \A q : Listed(q)' <=> Listed(q)
    BY DEF Listed
  <1>10. \A u \in Thread : \A q : InCall(u, q)' <=> InCall(u, q) \/ (u = t /\ q = p)
    BY <1>8 DEF InCall
  <1>11. ~Listed(p) /\ \A u \in Thread : pc[u] \in {"mark", "enqueue"} => cur[u] # p
    BY <1>1, <1>3 DEF Somewhere, InCall
  <1>12. PageTypes'
    <2>1. /\ pc' \in [Thread -> {"idle", "list", "local", "global", "mark", "copy", "enqueue"}]
          /\ cur' \in [Thread -> DOMAIN page \union {NoPage}]
          /\ moving' \in [Thread -> DOMAIN page \union {NoPage}]
      BY <1>1, <1>3 DEF PageTypes
    <2>2. total_alloc_' \in Int  BY <1>1, <1>2, <1>3 DEF PageTypes
    <2>3. \A q \in DOMAIN page' :
            /\ q \in Nat
            /\ page'[q] \in [size : Nat, tid : Tids, allocated : BOOLEAN, extent : Nat]
      BY <1>1, <1>4, <1>5 DEF PageTypes
    <2>4. DOMAIN held' \subseteq DOMAIN page' /\ \A q \in DOMAIN held' : held'[q] \in Nat
      BY <1>1, <1>2, <1>5 DEF PageTypes
    <2>5. QED  BY <1>1, <1>5, <2>1, <2>2, <2>3, <2>4 DEF PageTypes, NoPage
  <1>13. Calling'
    BY <1>1, <1>2, <1>3, <1>5, <1>7, <1>8 DEF Calling, NoTid, NoPage
  <1>14. Somewhere'
    <2>1. ASSUME NEW q \in DOMAIN page
          PROVE  /\ page'[q].allocated <=> q \in DOMAIN held'
                 /\ q \in DOMAIN held' \/ Listed(q)' \/ \E u \in Thread : InCall(u, q)'
                 /\ q \in DOMAIN held' => ~Listed(q)'
                 /\ \A u \in Thread : InCall(u, q)' => q \notin DOMAIN held' /\ ~Listed(q)'
      <3>1. CASE q = p
        BY <1>2, <1>4, <1>5, <1>9, <1>10, <1>11, <3>1
      <3>2. CASE q # p
        <4>1. page'[q] = page[q] /\ (q \in DOMAIN held' <=> q \in DOMAIN held)
          BY <1>2, <1>5, <3>2
        <4>2. \A u \in Thread : InCall(u, q)' <=> InCall(u, q)  BY <1>10, <3>2
        <4>3. QED  BY <1>1, <1>9, <4>1, <4>2 DEF Somewhere
      <3>3. QED  BY <3>1, <3>2
    <2>2. \A u, v \in Thread :
            pc'[u] \in {"mark", "enqueue"} /\ pc'[v] \in {"mark", "enqueue"}
            /\ cur'[v] = cur'[u] => v = u
      BY <1>1, <1>8, <1>11 DEF Somewhere, InCall
    <2>3. QED  BY <1>5, <2>1, <2>2 DEF Somewhere, InCall
  <1>15. InOrder'
    BY <1>1, <1>5, <1>6 DEF InOrder
  <1>16. Sizes'
    <2>1. ASSUME NEW q \in DOMAIN page
          PROVE  /\ Hdr < page'[q].extent /\ page'[q].size <= page'[q].extent
                 /\ \/ Rounded(page'[q].size)
                    \/ ~Local /\ \E u \in Thread : pc'[u] = "mark" /\ cur'[u] = q
      <3>1. \A u \in Thread : pc[u] = "mark" => pc'[u] = "mark" /\ cur'[u] = cur[u]
        BY <1>8
      <3>2. QED  BY <1>1, <1>6, <3>1 DEF Sizes
    <2>2. \A u \in Thread : pc'[u] \in {"mark", "copy"} =>
            PageId(req[u]).round <= page'[cur'[u]].extent
      <3>1. \A u \in Thread : pc[u] \in {"mark", "copy"} => cur[u] \in DOMAIN page
        BY <1>1 DEF Calling
      <3>2. \A u \in Thread : pc'[u] \in {"mark", "copy"} =>
              pc[u] \in {"mark", "copy"} /\ cur'[u] = cur[u]
        BY <1>8
      <3>3. QED  BY <1>1, <1>6, <3>1, <3>2 DEF Sizes
    <2>3. \A q \in DOMAIN held' : /\ held'[q] + Hdr <= page'[q].extent
                                  /\ ~Local => page'[q].size = PageId(held'[q]).round
      <3>1. \A q \in DOMAIN held : /\ q \in DOMAIN page /\ held[q] + Hdr <= page[q].extent
                                   /\ ~Local => page[q].size = PageId(held[q]).round
        BY <1>1 DEF Sizes, PageTypes
      <3>2. QED  BY <1>2, <1>6, <3>1
    <2>4. \A u \in Thread : moving'[u] # NoPage => held'[moving'[u]] < req[u]
      BY <1>1, <1>2, <1>8 DEF Sizes, Calling
    <2>5. QED  BY <1>5, <1>7, <2>1, <2>2, <2>3, <2>4 DEF Sizes, NoPage
  <1>17. Apart'  BY <1>1, <1>5, <1>6, ApartKept DEF heaps
  <1>18. QED  BY <1>12, <1>13, <1>14, <1>15, <1>16, <1>17 DEF Pages

LEMMA FreePages ==
  ASSUME Pages, NEW t \in Thread, NEW p \in DOMAIN held, Free(t, p)
  PROVE  Pages'
  <1>1. PageTypes /\ Calling  BY DEF Pages
  <1>2. /\ Release(p) /\ pc[t] = "idle" /\ cur' = [cur EXCEPT ![t] = p]
        /\ pc' = [pc EXCEPT ![t] = "enqueue"]
        /\ UNCHANGED <<kind, heap_off_, local_off_, tls, lists, req, moving>>
        /\ \A u \in Thread : moving[u] # p
    BY DEF Free, Has, Goto, heaps, ids
  <1>3. moving[t] = NoPage  BY <1>1, <1>2 DEF Calling
  <1>4. moving' = [moving EXCEPT ![t] = NoPage]
    BY <1>1, <1>2, <1>3 DEF PageTypes
  <1>5. QED  BY <1>2, <1>4, ReleasePages

LEMMA CopyPages ==
  ASSUME Pages, NEW t \in Thread, Copy(t)
  PROVE  Pages'
  <1> DEFINE p == moving[t]
  <1>1. PageTypes /\ Calling  BY DEF Pages
  <1>2. /\ Release(p) /\ pc[t] = "copy" /\ cur' = [cur EXCEPT ![t] = p]
        /\ pc' = [pc EXCEPT ![t] = "enqueue"] /\ moving' = [moving EXCEPT ![t] = NoPage]
        /\ UNCHANGED <<kind, heap_off_, local_off_, tls, lists, req>>
    BY DEF Copy, Goto, heaps, ids
  <1>3. /\ p \in DOMAIN held /\ \A u \in Thread : u # t => moving[u] # p
    BY <1>1, <1>2 DEF Calling
  <1> HIDE DEF p
  <1>4. QED  BY <1>2, <1>3, ReleasePages

LEMMA EnqueuePages ==
  ASSUME Pages, NEW t \in Thread, Enqueue(t)
  PROVE  Pages'
  <1> DEFINE p == cur[t]
             m == page[p].tid
             c == PageId(page[p].size - Hdr).class
             list == <<p>> \o lists[m][c]
  <1>1. /\ pc[t] = "enqueue" /\ pc' = [pc EXCEPT ![t] = "idle"]
        /\ lists' = [lists EXCEPT ![m][c] = list]
        /\ UNCHANGED <<kind, heap_off_, local_off_, tls, page, total_alloc_, req, cur, moving, held>>
    BY Zenon DEF Enqueue, Goto, heaps, ids
  <1>2. /\ PageTypes /\ Calling /\ Somewhere /\ InOrder /\ Sizes /\ Apart  BY DEF Pages
  <1>3. p \in DOMAIN page /\ m \in Tids /\ InCall(t, p)
    BY <1>1, <1>2 DEF Calling, PageTypes, InCall
  <1>4. /\ p \notin DOMAIN held /\ ~Listed(p)
        /\ \A u \in Thread : pc[u] \in {"mark", "enqueue"} /\ cur[u] = p => u = t
    BY <1>2, <1>3 DEF Somewhere, InCall
  <1>5. Rounded(page[p].size)
    BY <1>1, <1>2, <1>3, <1>4 DEF Sizes
  <1>6. c \in 0 .. MaxExp
    <2>1. page[p].size - Hdr \in Nat  BY <1>5, RoundedSize
    <2>2. QED  BY <2>1, PageIdDef
  <1>7. /\ list \in Seq(DOMAIN page) /\ IsInjective(list)
        /\ \A x : Contains(list, x) <=> Contains(lists[m][c], x) \/ x = p
    <2> HIDE DEF p, m, c
    <2>1. lists[m][c] \in Seq(DOMAIN page) /\ IsInjective(lists[m][c])
      BY <1>2, <1>3, <1>6, ListTypes DEF InOrder
    <2>2. ~Contains(lists[m][c], p)
      BY <1>3, <1>4, <1>6 DEF Listed
    <2>3. QED  BY <1>3, <2>1, <2>2, Prepended
  <1>8. m = page[p].tid /\ c = PageId(page[p].size - Hdr).class /\ p = cur[t]
    OBVIOUS
  <1> HIDE DEF list, c, m, p
  <1>9. \A i \in Tids, d \in 0 .. MaxExp :
          lists'[i][d] = IF i = m /\ d = c THEN list ELSE lists[i][d]
    BY <1>1, <1>2, <1>3, <1>6 DEF PageTypes
  <1>10. \A i \in Tids, d \in 0 .. MaxExp : \A x :
           Contains(lists'[i][d], x) <=> Contains(lists[i][d], x) \/ (x = p /\ i = m /\ d = c)
    BY <1>7, <1>9
  <1>11. \A q : Listed(q)' <=> Listed(q) \/ q = p
    BY <1>3, <1>6, <1>10 DEF Listed
  <1>12. \A u \in Thread : pc'[u] = IF u = t THEN "idle" ELSE pc[u]
    BY <1>1, <1>2 DEF PageTypes
  <1>13. \A u \in Thread : \A q : InCall(u, q)' <=> InCall(u, q) /\ u # t
    BY <1>1, <1>12 DEF InCall
  <1>14. PageTypes'
    <2>1. lists' \in [Tids -> [0 .. MaxExp -> Seq(DOMAIN page)]]
      BY <1>1, <1>2, <1>3, <1>6, <1>7 DEF PageTypes
    <2>2. pc' \in [Thread -> {"idle", "list", "local", "global", "mark", "copy", "enqueue"}]
      BY <1>1, <1>2 DEF PageTypes
    <2>3. QED  BY <1>1, <1>2, <2>1, <2>2 DEF PageTypes, NoPage
  <1>15. Calling'
    BY <1>1, <1>2, <1>12 DEF Calling, Local, NoTid, NoPage
  <1>16. Somewhere'
    <2>1. ASSUME NEW q \in DOMAIN page
          PROVE  /\ page[q].allocated <=> q \in DOMAIN held
                 /\ q \in DOMAIN held \/ Listed(q)' \/ \E u \in Thread : InCall(u, q)'
                 /\ q \in DOMAIN held => ~Listed(q)'
                 /\ \A u \in Thread : InCall(u, q)' => q \notin DOMAIN held /\ ~Listed(q)'
      <3>1. CASE q = p
        <4>1. \A u \in Thread : ~InCall(u, q)'  BY <1>4, <1>13, <3>1 DEF InCall
        <4>2. QED  BY <1>2, <1>4, <1>11, <3>1, <4>1 DEF Somewhere
      <3>2. CASE q # p
        <4>1. ~InCall(t, q)  BY <1>8, <3>2 DEF InCall
        <4>2. \A u \in Thread : InCall(u, q)' <=> InCall(u, q)  BY <1>13, <4>1
        <4>3. QED  BY <1>2, <1>11, <3>2, <4>2 DEF Somewhere
      <3>3. QED  BY <3>1, <3>2
    <2>2. \A u, v \in Thread :
            pc'[u] \in {"mark", "enqueue"} /\ pc'[v] \in {"mark", "enqueue"}
            /\ cur[v] = cur[u] => v = u
      BY <1>2, <1>12 DEF Somewhere, InCall
    <2>3. QED  BY <1>1, <2>1, <2>2 DEF Somewhere, InCall
  <1>17. InOrder'
    <2>1. ASSUME NEW i \in Tids, NEW d \in 0 .. MaxExp
          PROVE  /\ IsInjective(lists'[i][d])
                 /\ \A q \in DOMAIN page : Contains(lists'[i][d], q) =>
                      page[q].tid = i /\ PageId(page[q].size - Hdr).class = d
      <3>1. IsInjective(lists'[i][d])
        BY <1>2, <1>7, <1>9 DEF InOrder
      <3>2. QED  BY <1>2, <1>8, <1>10, <3>1 DEF InOrder
    <2>2. QED  BY <1>1, <2>1 DEF InOrder
  <1>18. Sizes'
    <2>1. \A q \in DOMAIN page :
            Rounded(page[q].size) \/ (~Local /\ \E u \in Thread : pc'[u] = "mark" /\ cur[u] = q)
      <3>1. \A u \in Thread : pc[u] = "mark" => pc'[u] = "mark"  BY <1>1, <1>12
      <3>2. QED  BY <1>2, <3>1 DEF Sizes
    <2>2. \A u \in Thread : pc'[u] \in {"mark", "copy"} => pc[u] \in {"mark", "copy"}
      BY <1>12
    <2>3. Local' = Local  BY <1>1 DEF Local
    <2>4. QED  BY <1>1, <1>2, <2>1, <2>2, <2>3 DEF Sizes, NoPage
  <1>19. Apart'  BY <1>1, <1>2, ApartKept DEF heaps
  <1>20. QED  BY <1>14, <1>15, <1>16, <1>17, <1>18, <1>19 DEF Pages

-----------------------------------------------------------------------------
(* The invariant, and what follows from it *)

LEMMA InitIds == ASSUME Sound, Init  PROVE Ids
  <1>1. 0 \in 0 .. MaxTid /\ 0 \in 0 .. MaxDepth  BY Numbers
  <1>2. /\ tid_heap_ = 0 /\ free_tids_ = <<>>
        /\ tls = [t \in Thread |-> NoTid] /\ ctx = [t \in Thread |-> NoTid]
        /\ depth = [t \in Thread |-> 0]
    BY DEF Init
  <1>3. <<>> \in Seq(Tids) /\ Len(<<>>) = 0 /\ DOMAIN <<>> = {}
    BY EmptySeq
  <1>4. IdTypes /\ Scopes  BY <1>1, <1>2, <1>3 DEF IdTypes, Scopes
  <1>5. Owned  BY <1>2, <1>3 DEF Owned, Contains, IsInjective
  <1>6. QED  BY <1>4, <1>5 DEF Ids

LEMMA InitPages == ASSUME Init  PROVE Pages
  <1>1. /\ kind \in Kinds /\ heap_off_ = 0 /\ local_off_ = [i \in Tids |-> 0]
        /\ page = <<>> /\ held = <<>>
        /\ lists = [i \in Tids |-> [c \in 0 .. MaxExp |-> <<>>]]
        /\ total_alloc_ = 0
        /\ pc = [t \in Thread |-> "idle"] /\ req = [t \in Thread |-> 0]
        /\ cur = [t \in Thread |-> NoPage] /\ moving = [t \in Thread |-> NoPage]
    BY DEF Init
  <1>2. /\ \A S : <<>> \in Seq(S)
        /\ Len(<<>>) = 0 /\ DOMAIN <<>> = {}
    BY EmptySeq
  <1>3. DOMAIN page = {} /\ DOMAIN held = {}
    BY <1>1, <1>2
  <1>4. \A i \in Tids, c \in 0 .. MaxExp : lists[i][c] = <<>>
    BY <1>1
  <1>5. PageTypes
    BY <1>1, <1>2, <1>3 DEF PageTypes
  <1>6. Calling /\ Somewhere /\ Sizes /\ Apart
    BY <1>1, <1>3 DEF Calling, Somewhere, InCall, Sizes, Apart
  <1>7. InOrder
    BY <1>2, <1>3, <1>4 DEF InOrder, IsInjective
  <1>8. QED  BY <1>5, <1>6, <1>7 DEF Pages

LEMMA NextPages ==
  ASSUME Sound, Ids, Pages, [Next]_vars
  PROVE  Pages'
  <1>1. CASE UNCHANGED vars
    <2>1. /\ UNCHANGED <<kind, heap_off_, local_off_, page, lists, total_alloc_, tls, pc, req, cur>>
          /\ UNCHANGED <<moving, held>>
      BY <1>1 DEF vars, heaps, ids, call
    <2>2. PageTypes' /\ Calling' /\ Sizes'
      BY <2>1 DEF Pages, PageTypes, Calling, Sizes, Local, NoTid, NoPage
    <2>3. Somewhere' /\ InOrder'
      BY <2>1 DEF Pages, Somewhere, InCall, Listed, InOrder
    <2>4. Apart'  BY <2>1, ApartKept DEF Pages, heaps
    <2>5. QED  BY <2>2, <2>3, <2>4 DEF Pages
  <1> SUFFICES ASSUME NEW t \in Thread,
                      \/ CreateTls(t) \/ FreeTls(t) \/ Step(t)
                      \/ \E n \in Requests[kind] : Allocate(t, n)
                      \/ \E p \in DOMAIN held :
                           Free(t, p) \/ \E n \in Requests[kind] : Reallocate(t, p, n)
               PROVE  Pages'
    BY <1>1 DEF Next
  <1>2. CASE CreateTls(t) \/ FreeTls(t)
    BY <1>2, ScopePages
  <1>3. CASE Step(t)
    BY <1>3, FindPagePages, CarveLocalPages, CarveGlobalPages, MarkPages, EnqueuePages, CopyPages
       DEF Step
  <1>4. ASSUME NEW n \in Requests[kind], Allocate(t, n)  PROVE Pages'
    <2>1. Begin(t, n) /\ moving' = moving  BY <1>4 DEF Allocate
    <2>2. QED  BY <2>1, BeginPages
  <1>5. ASSUME NEW p \in DOMAIN held, Free(t, p)  PROVE Pages'
    BY <1>5, FreePages
  <1>6. ASSUME NEW p \in DOMAIN held, NEW n \in Requests[kind], Reallocate(t, p, n)
        PROVE  Pages'
    <2>1. Begin(t, n) /\ Has(p) /\ n > held[p] /\ moving' = [moving EXCEPT ![t] = p]
      BY <1>6 DEF Reallocate
    <2>2. QED  BY <2>1, BeginPages
  <1>7. QED  BY <1>2, <1>3, <1>4, <1>5, <1>6

(***************************************************************************)
(* The inductive invariant of the thread ids and of the pages.             *)
(***************************************************************************)
THEOREM Invariant ==
  ASSUME Sound
  PROVE  Safe => [](Ids /\ Pages)
  <1>1. Init => Ids /\ Pages  BY InitIds, InitPages
  <1>2. Ids /\ Pages /\ [Next]_vars => (Ids /\ Pages)'  BY NextIds, NextPages
  <1>3. QED  BY <1>1, <1>2, PTL DEF Safe

(***************************************************************************)
(* Header words, lists and thread ids keep their types: no id beyond       *)
(* max_threads is drawn, a page on a list or in a call was carved          *)
(* (thread_local_allocator.h:64-77, mp_page.h:22-30).                      *)
(***************************************************************************)
THEOREM TypeCorrect ==
  ASSUME Sound
  PROVE  Safe => []TypeOK
  <1>1. Ids /\ Pages => TypeOK
    BY DEF Ids, IdTypes, Pages, PageTypes, TypeOK
  <1>2. QED  BY <1>1, Invariant, PTL

(***************************************************************************)
(* No two pages share a byte: heaps that move on after a request that does *)
(* not fit (heap.h:57-62) do not run into one another, although the local  *)
(* ones are entered RegionOff below the memory reserved for them           *)
(* (page_allocator.h:99-107), wherever the sub-allocator put them.  That a *)
(* page lies in the memory reserved for its heap (PagesInHeaps) is false.  *)
(***************************************************************************)
THEOREM PagesDisjoint ==
  ASSUME Sound
  PROVE  Safe => []PagesApart
  <1>1. ASSUME Pages  PROVE PagesApart
    <2>1. \A p \in DOMAIN page : p \in Nat /\ page[p].extent \in Nat /\ page[p].tid \in Tids
      BY <1>1 DEF Pages, PageTypes
    <2>2. \A p, q \in DOMAIN page : p # q => Bytes(p) \intersect Bytes(q) = {}
      BY <1>1, <2>1 DEF Pages, Apart, Bytes
    <2>3. ASSUME NEW p \in DOMAIN page
          PROVE  \/ Bytes(p) \subseteq RegionBase .. RegionBase + RegionSize - 1
                 \/ Bytes(p) \subseteq LocalBase(page[p].tid) .. LocalBase(page[p].tid) + LocalSize - 1
      <3>1. /\ RegionBase \in Nat /\ RegionSize \in Nat
            /\ LocalBase(page[p].tid) \in Nat /\ LocalSize \in Nat
            /\ LocalEnd(page[p].tid) = LocalBase(page[p].tid) + LocalSize
        BY <2>1, Bases, Numbers
      <3>2. CASE InRegion(p)
        BY <2>1, <3>1, <3>2 DEF InRegion, Bytes
      <3>3. CASE InLocal(p)
        BY <2>1, <3>1, <3>3 DEF InLocal, Bytes
      <3>4. QED  BY <1>1, <3>2, <3>3 DEF Pages, Apart
    <2>4. QED  BY <2>2, <2>3 DEF PagesApart
  <1>2. QED  BY <1>1, Invariant, PTL

(***************************************************************************)
(* Whatever list or heap a page came from, it has room for the header and  *)
(* all the program asked for (page_allocator.h:43-57, 122-135).            *)
(***************************************************************************)
THEOREM RequestsFit ==
  ASSUME Sound
  PROVE  Safe => []FitsRequest
  <1>1. Pages => FitsRequest
    BY DEF Pages, Sizes, FitsRequest
  <1>2. QED  BY <1>1, Invariant, PTL

(***************************************************************************)
(* No two threads use one thread id, no id in use is free and none is free *)
(* twice (thread_local_allocator.h:152-169, 272-288).                      *)
(***************************************************************************)
THEOREM OneThread ==
  ASSUME Sound
  PROVE  Safe => []OneThreadPerTid
  <1>1. ASSUME Ids  PROVE OneThreadPerTid
    <2>1. \A t \in Thread : Using(t) = IF tls[t] = NoTid THEN {} ELSE {tls[t]}
      BY <1>1 DEF Ids, Scopes, Using
    <2>2. \A x : x \in ToSet(free_tids_) <=> Contains(free_tids_, x)
      <3>1. DOMAIN free_tids_ = 1 .. Len(free_tids_)
        BY <1>1, LenProperties DEF Ids, IdTypes
      <3>2. QED  BY <3>1 DEF ToSet, Contains
    <2>3. \A t, u \in Thread : t # u => Using(t) \intersect Using(u) = {}
      BY <1>1, <2>1 DEF Ids, Owned
    <2>4. \A t \in Thread : Using(t) \intersect ToSet(free_tids_) = {}
      BY <1>1, <2>1, <2>2 DEF Ids, Owned
    <2>5. QED  BY <1>1, <2>3, <2>4 DEF Ids, Owned, OneThreadPerTid
  <1>2. QED  BY <1>1, Invariant, PTL

\* A set whose elements are all equal.
LEMMA FewOf ==
  ASSUME NEW S, \A x, y \in S : x = y
  PROVE  Cardinality(S) = IF S = {} THEN 0 ELSE 1
  <1>1. CASE S = {}  BY <1>1, FS_EmptySet
  <1>2. CASE S # {}
    <2>1. PICK x : x \in S  BY <1>2
    <2>2. S = {x}  BY <2>1
    <2>3. QED  BY <2>2, FS_Singleton
  <1>3. QED  BY <1>1, <1>2

(***************************************************************************)
(* Every page is in one place: with the program and marked, in one call,   *)
(* or once on the list of its class and thread id (page_allocator.h:       *)
(* 109-153).                                                               *)
(***************************************************************************)
THEOREM OnePlaceEach ==
  ASSUME Sound
  PROVE  Safe => []PageSomewhere
  <1>1. ASSUME Pages  PROVE PageSomewhere
    <2>1. Somewhere /\ InOrder  BY <1>1 DEF Pages
    <2>2. ASSUME NEW p \in DOMAIN page, NEW l \in Where(p)
          PROVE  /\ l = <<page[p].tid, PageId(page[p].size - Hdr).class>>
                 /\ Listed(p)
      <3>1. /\ l = <<l[1], l[2]>> /\ l[1] \in Tids /\ l[2] \in 0 .. MaxExp
            /\ Contains(lists[l[1]][l[2]], p)
        BY DEF Where, Lists
      <3>2. QED  BY <2>1, <3>1 DEF InOrder, Listed
    <2>3. ASSUME NEW p \in DOMAIN page
          PROVE  /\ Cardinality(Where(p)) = IF Listed(p) THEN 1 ELSE 0
                 /\ Cardinality(Calls(p)) = IF \E t \in Thread : InCall(t, p) THEN 1 ELSE 0
      <3>1. \A k, l \in Where(p) : k = l  BY <2>2
      <3>2. Where(p) # {} <=> Listed(p)
        <4>1. ASSUME Listed(p)  PROVE Where(p) # {}
          <5>1. PICK i \in Tids, c \in 0 .. MaxExp : Contains(lists[i][c], p)
            BY <4>1 DEF Listed
          <5>2. <<i, c>> \in Where(p)  BY <5>1 DEF Where, Lists
          <5>3. QED  BY <5>2
        <4>2. QED  BY <2>2, <4>1
      <3>3. Calls(p) = {t \in Thread : InCall(t, p)}  BY DEF Calls, InCall
      <3>4. \A t, u \in Calls(p) : t = u
        BY <2>1, <3>3 DEF Somewhere, InCall
      <3>5. QED  BY <3>1, <3>2, <3>3, <3>4, FewOf
    <2>4. ASSUME NEW p \in DOMAIN page
          PROVE  /\ Cardinality(Where(p)) + Cardinality(Calls(p))
                      + (IF p \in DOMAIN held THEN 1 ELSE 0) = 1
                 /\ page[p].allocated <=> p \in DOMAIN held
      BY <2>1, <2>3 DEF Somewhere
    <2>5. \A l \in Lists : IsInjective(lists[l[1]][l[2]])
      BY <2>1 DEF InOrder, Lists
    <2>6. QED  BY <2>2, <2>4, <2>5 DEF PageSomewhere
  <1>2. QED  BY <1>1, Invariant, PTL

-----------------------------------------------------------------------------
(* The account of the scalable allocator *)

\* A larger request is rounded to a larger page.
LEMMA RoundGrows ==
  ASSUME NEW m \in Nat, NEW n \in Nat, m < n
  PROVE  PageId(m).round <= PageId(n).round
  <1> DEFINE d == Log2Up(m)  e == Log2Up(n)
  <1>1. /\ d \in Nat /\ e \in Nat /\ n <= Pow2[e] /\ \A k \in Nat : n <= Pow2[k] => e <= k
        /\ \A k \in Nat : m <= Pow2[k] => d <= k
    BY Log2UpDef
  <1>2. /\ Pow2[d] \in Nat /\ Pow2[e] \in Nat /\ Pow2[MinExp] \in Nat /\ Pow2[MaxExp] \in Nat
        /\ MinExp \in Nat /\ MaxExp \in Nat /\ Hdr \in Nat /\ MinExp <= MaxExp
    BY <1>1, Pow2Def, Numbers
  <1>3. d <= e  BY <1>1, <1>2
  <1>4. \A i, k \in Nat : i <= k => Pow2[i] <= Pow2[k]
    BY Pow2Less, Pow2Def
  <1>5. e > MaxExp => Pow2[MaxExp] < n
    BY <1>1, <1>2
  <1>6. PageId(m).round = IF d < MinExp THEN Pow2[MinExp] + Hdr
                          ELSE IF d > MaxExp THEN m + Hdr ELSE Pow2[d] + Hdr
    BY DEF PageId
  <1>7. PageId(n).round = IF e < MinExp THEN Pow2[MinExp] + Hdr
                          ELSE IF e > MaxExp THEN n + Hdr ELSE Pow2[e] + Hdr
    BY DEF PageId
  <1> HIDE DEF d, e
  <1>8. /\ Pow2[MinExp] <= Pow2[MaxExp] /\ Pow2[d] <= Pow2[e]
        /\ d <= MaxExp => Pow2[d] <= Pow2[MaxExp]
        /\ MinExp <= e => Pow2[MinExp] <= Pow2[e]
    BY <1>1, <1>2, <1>3, <1>4
  <1>9. QED  BY <1>1, <1>2, <1>3, <1>5, <1>6, <1>7, <1>8

SizeOf == [p \in DOMAIN page |-> page[p].size]

Account ==
  /\ IsFiniteSet(DOMAIN page)
  /\ ~Local => total_alloc_ = Total(SizeOf, Live)

\* Steps that mark no page and free none.
LEMMA AccountKept ==
  ASSUME Account, UNCHANGED <<kind, total_alloc_>>, IsFiniteSet(DOMAIN page'),
         DOMAIN page \subseteq DOMAIN page',
         \A p \in DOMAIN page' : p \notin DOMAIN page => ~page'[p].allocated,
         \A p \in DOMAIN page : /\ page'[p].allocated = page[p].allocated
                                /\ page'[p].size = page[p].size
  PROVE  Account'
  <1>1. Live' = Live  BY DEF Live
  <1>2. \A p \in Live : SizeOf'[p] = SizeOf[p]
    BY DEF Live, SizeOf
  <1>3. IsFiniteSet(Live)
    BY FS_Subset DEF Account, Live
  <1>4. Total(SizeOf, Live) = Total(SizeOf', Live)
    BY <1>2, <1>3, TotalSame
  <1>5. QED  BY <1>1, <1>4 DEF Account, Local

LEMMA CarveAccount ==
  ASSUME Account, NEW t \in Thread, NEW p, p \notin DOMAIN page, Carve(t, p),
         UNCHANGED <<kind, total_alloc_>>
  PROVE  Account'
  <1> DEFINE new == [size |-> IF Local THEN PageId(req[t]).round ELSE 0, tid |-> Mine(t),
                     allocated |-> FALSE, extent |-> PageId(req[t]).round]
  <1>1. page' = With(page, p, new)  BY DEF Carve
  <1>2. new.allocated = FALSE  OBVIOUS
  <1> HIDE DEF new
  <1>3. /\ DOMAIN page' = DOMAIN page \union {p} /\ page'[p] = new
        /\ \A q \in DOMAIN page : page'[q] = page[q]
    BY <1>1 DEF With
  <1>4. IsFiniteSet(DOMAIN page')
    BY <1>3, FS_AddElement DEF Account
  <1>5. QED  BY <1>2, <1>3, <1>4, AccountKept

LEMMA NextAccount ==
  ASSUME Sound, Ids, Pages, Account, [Next]_vars
  PROVE  Account'
  <1>1. PageTypes /\ Calling /\ Somewhere /\ Sizes /\ Apart  BY DEF Pages
  <1>2. ASSUME UNCHANGED <<kind, total_alloc_, page>>  PROVE Account'
    BY <1>2, AccountKept DEF Account
  <1>3. CASE UNCHANGED vars
    BY <1>2, <1>3 DEF vars
  <1>4. \A q \in DOMAIN page : q \in Nat /\ page[q].extent \in Nat /\ 0 < page[q].extent
    BY <1>1, Numbers DEF PageTypes, Sizes
  <1>5. ASSUME NEW t \in Thread, NEW p \in DOMAIN held, Release(p), kind' = kind
        PROVE  Account'
    <2>1. p \in DOMAIN page /\ page[p].allocated  BY <1>1 DEF PageTypes, Somewhere
    <2>2. /\ page' = [page EXCEPT ![p] = [page[p] EXCEPT !.allocated = FALSE]]
          /\ total_alloc_' = total_alloc_ - page[p].size
      BY <1>5 DEF Release
    <2>3. \A q \in DOMAIN page :
            page[q] \in [size : Nat, tid : Tids, allocated : BOOLEAN, extent : Nat]
      BY <1>1 DEF PageTypes
    <2>4. /\ DOMAIN page' = DOMAIN page /\ ~page'[p].allocated /\ page'[p].size = page[p].size
          /\ \A q \in DOMAIN page : q # p => page'[q] = page[q]
      BY <2>1, <2>2, <2>3
    <2>5. Live' = Live \ {p} /\ p \in Live
      BY <2>1, <2>4 DEF Live
    <2>6. /\ \A q \in Live : SizeOf[q] \in Int
          /\ \A q \in Live \ {p} : SizeOf'[q] = SizeOf[q]
          /\ SizeOf[p] = page[p].size
      BY <2>1, <2>3, <2>4 DEF SizeOf, Live
    <2>7. IsFiniteSet(Live)  BY FS_Subset DEF Account, Live
    <2>8. /\ Total(SizeOf, Live) = page[p].size + Total(SizeOf', Live')
          /\ Total(SizeOf', Live') \in Int /\ page[p].size \in Int
      BY <2>1, <2>3, <2>5, <2>6, <2>7, TotalAdd
    <2>9. QED  BY <1>5, <2>2, <2>4, <2>8 DEF Account, Local
  <1>6. ASSUME NEW t \in Thread, Mark(t)  PROVE Account'
    <2> DEFINE p == cur[t]  round == PageId(req[t]).round
               new == [page[p] EXCEPT !.allocated = TRUE, !.size = IF Local THEN @ ELSE round]
    <2>1. /\ pc[t] = "mark" /\ kind' = kind
          /\ total_alloc_' = total_alloc_ + round
      BY <1>6 DEF Mark
    <2>2. p \in DOMAIN page /\ ~page[p].allocated
      BY <1>1, <2>1 DEF Calling, Somewhere, InCall
    <2>3. \A q \in DOMAIN page :
            page[q] \in [size : Nat, tid : Tids, allocated : BOOLEAN, extent : Nat]
      BY <1>1 DEF PageTypes
    <2>4. page' = [page EXCEPT ![p] = new]
      <3>1. page' = [page EXCEPT ![p].allocated = TRUE,
                                 ![p].size = IF Local THEN @ ELSE round]
        BY <1>6 DEF Mark
      <3>2. QED  BY <2>2, <2>3, <3>1
    <2>5. round \in Nat  BY <2>1, MineDef
    <2>6. new.allocated = TRUE /\ (~Local => new.size = round)
      BY <2>2, <2>3
    <2> HIDE DEF new, round, p
    <2>7. /\ DOMAIN page' = DOMAIN page /\ page'[p] = new
          /\ \A q \in DOMAIN page : q # p => page'[q] = page[q]
      BY <2>2, <2>4
    <2>8. PICK x : x = p  OBVIOUS
    <2>9. Live = Live' \ {x} /\ x \in Live'
      BY <2>2, <2>6, <2>7, <2>8 DEF Live
    <2>10. CASE Local
      BY <2>1, <2>7, <2>10 DEF Account, Local
    <2>11. CASE ~Local
      <3>1. /\ \A q \in Live' : SizeOf'[q] \in Int
            /\ \A q \in Live' \ {x} : SizeOf[q] = SizeOf'[q]
            /\ SizeOf'[x] = round
        BY <2>2, <2>3, <2>5, <2>6, <2>7, <2>8, <2>11 DEF SizeOf, Live
      <3>2. IsFiniteSet(Live')  BY <2>7, FS_Subset DEF Account, Live
      <3>3. /\ Total(SizeOf', Live') = round + Total(SizeOf, Live)
            /\ Total(SizeOf, Live) \in Int
        BY <2>9, <3>1, <3>2, TotalAdd
      <3>4. QED  BY <2>1, <2>5, <2>7, <2>11, <3>3 DEF Account, Local
    <2>12. QED  BY <2>10, <2>11
  <1>7. ASSUME NEW t \in Thread, CarveLocal(t)  PROVE Account'
    <2> DEFINE p == LocalBase(Mine(t)) + local_off_[Mine(t)]
    <2>1. /\ pc[t] = "local" /\ UNCHANGED <<kind, total_alloc_>>
          /\ \/ UNCHANGED page
             \/ local_off_[Mine(t)] + PageId(req[t]).round <= LocalSize /\ Carve(t, p)
      BY <1>7 DEF CarveLocal
    <2>2. CASE UNCHANGED page  BY <1>2, <2>1, <2>2
    <2>3. CASE local_off_[Mine(t)] + PageId(req[t]).round <= LocalSize /\ Carve(t, p)
      <3>1. /\ Mine(t) \in Tids /\ PageId(req[t]).round \in Nat /\ 0 < PageId(req[t]).round
        BY <2>1, MineDef, Numbers
      <3>2. LocalBase(Mine(t)) \in Nat /\ local_off_[Mine(t)] \in Nat
        BY <1>1, <3>1, Bases DEF PageTypes
      <3>3. \A q \in DOMAIN page : q + page[q].extent <= p \/ p + PageId(req[t]).round <= q
        BY <1>1, <2>3, <3>1, LocalRoom
      <3>4. p \in Nat  BY <3>2
      <3> HIDE DEF p
      <3>5. p \notin DOMAIN page  BY <1>4, <3>1, <3>3, <3>4
      <3>6. QED  BY <2>1, <2>3, <3>5, CarveAccount
    <2>4. QED  BY <2>1, <2>2, <2>3
  <1>8. ASSUME NEW t \in Thread, CarveGlobal(t)  PROVE Account'
    <2> DEFINE p == RegionBase + heap_off_
    <2>1. /\ UNCHANGED <<kind, total_alloc_>>
          /\ UNCHANGED page \/ Carve(t, p)
      BY <1>8 DEF CarveGlobal
    <2>2. CASE UNCHANGED page  BY <1>2, <2>1, <2>2
    <2>3. CASE Carve(t, p)
      <3>1. \A q \in DOMAIN page : q + page[q].extent <= p
        BY <1>1, RegionRoom
      <3>2. p \in Nat
        <4>1. heap_off_ \in Nat  BY <1>1 DEF PageTypes
        <4>2. QED  BY <4>1, RegionAbove
      <3> HIDE DEF p
      <3>3. p \notin DOMAIN page  BY <1>4, <3>1, <3>2
      <3>4. QED  BY <2>1, <2>3, <3>3, CarveAccount
    <2>4. QED  BY <2>1, <2>2, <2>3
  <1>9. ASSUME NEW t \in Thread,
               \/ CreateTls(t) \/ FreeTls(t) \/ FindPage(t) \/ Enqueue(t)
               \/ \E n \in Requests[kind] : Begin(t, n)
        PROVE  Account'
    BY <1>2, <1>9, Zenon DEF CreateTls, FreeTls, FindPage, Enqueue, Begin
  <1>10. ASSUME NEW t \in Thread, Copy(t)  PROVE Account'
    BY <1>1, <1>5, <1>10 DEF Copy, Calling
  <1>11. ASSUME NEW t \in Thread, NEW p \in DOMAIN held, Free(t, p)  PROVE Account'
    BY <1>5, <1>11 DEF Free
  <1>12. QED
    BY <1>3, <1>6, <1>7, <1>8, <1>9, <1>10, <1>11 DEF Next, Step, Allocate, Reallocate

(***************************************************************************)
(* The count of the scalable allocator is the sizes of the pages that are  *)
(* out, and a reallocation copies no more than the new page has room for   *)
(* (scalable_page_allocator.h:120, 138-143, 189).                          *)
(***************************************************************************)
THEOREM CountRight ==
  ASSUME Sound
  PROVE  Safe => []ScalableExact
  <1>1. Init => Account
    <2> SUFFICES ASSUME Init  PROVE Account
      OBVIOUS
    <2>1. DOMAIN page = {} /\ total_alloc_ = 0
      BY EmptySeq DEF Init
    <2>2. Live = {}  BY <2>1 DEF Live
    <2>3. QED  BY <2>1, <2>2, TotalNone, FS_EmptySet DEF Account
  <1>2. Ids /\ Pages /\ Account /\ [Next]_vars => Account'
    BY NextAccount
  <1>3. ASSUME Pages, Account  PROVE ScalableExact
    <2> SUFFICES ASSUME kind = "scalable"
                 PROVE  CopyFits /\ total_alloc_ = SumFunctionOnSet(SizeOf, Live)
      BY DEF ScalableExact, SizeOf
    <2>1. ~Local  BY DEF Local
    <2>2. PageTypes /\ Calling /\ Sizes  BY <1>3 DEF Pages
    <2>3. ASSUME NEW t \in Thread, pc[t] = "copy"
          PROVE  page[moving[t]].size <= page[cur[t]].extent
      <3>1. /\ moving[t] # NoPage /\ moving[t] \in DOMAIN held /\ cur[t] \in DOMAIN page
        BY <2>2, <2>3 DEF Calling
      <3>2. /\ held[moving[t]] \in Nat /\ req[t] \in Nat /\ page[cur[t]].extent \in Nat
        BY <2>2, <3>1 DEF PageTypes
      <3>3. /\ held[moving[t]] < req[t]
            /\ page[moving[t]].size = PageId(held[moving[t]]).round
            /\ PageId(req[t]).round <= page[cur[t]].extent
        BY <2>1, <2>2, <2>3, <3>1 DEF Sizes
      <3>4. PageId(held[moving[t]]).round <= PageId(req[t]).round
        BY <3>2, <3>3, RoundGrows
      <3>5. PageId(held[moving[t]]).round \in Nat /\ PageId(req[t]).round \in Nat
        BY <3>2, PageIdDef
      <3>6. QED  BY <3>2, <3>3, <3>4, <3>5
    <2>4. IsFiniteSet(Live)  BY <1>3, FS_Subset DEF Account, Live
    <2>5. total_alloc_ = SumFunctionOnSet(SizeOf, Live)
      BY <1>3, <2>1, <2>4, SumIsTotal DEF Account
    <2>6. QED  BY <2>3, <2>5 DEF CopyFits
  <1>4. QED  BY <1>1, <1>2, <1>3, Invariant, PTL DEF Safe
=============================================================================
