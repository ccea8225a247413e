----------------------- MODULE SplitTicketQueueProofs -----------------------
(***************************************************************************)
(* Proofs about SplitTicketQueue for every number of threads, tickets,     *)
(* splits and slots.                                                       *)
(*                                                                         *)
(* Where the tickets are is inductive with the types.  That a call which   *)
(* gives up missed nothing needs what its scan has established so far: no  *)
(* ticket that stayed since the call began is in a split it has tried      *)
(* (ScanInv), because tickets never move from split to split, and no split *)
(* it has tried has had room all along (RoomInv).  The scan ends when it   *)
(* has tried every split (AllTried).                                       *)
(***************************************************************************)
EXTENDS SplitTicketQueue, TLAPS

ScanInv ==
  \A t \in Thread : call[t] = "pop" =>
    /\ stayed[t] \subseteq Tickets
    /\ \A i \in 0 .. tried[t] - 1 : stayed[t] \cap Inside(Qid(t, i)) = {}

RoomInv ==
  \A t \in Thread : call[t] = "emplace" =>
    /\ \A q \in roomy[t] : HasRoom(q)
    /\ \A i \in 0 .. tried[t] - 1 : Qid(t, i) \notin roomy[t]

IInv == TypeOK /\ TicketInOnePlace /\ ScanInv /\ RoomInv

-----------------------------------------------------------------------------
(* Sequences and splits *)

LEMMA ElementsAppend ==
  ASSUME NEW S, NEW s \in Seq(S), NEW e \in S
  PROVE  /\ Append(s, e) \in Seq(S)
         /\ Len(Append(s, e)) = Len(s) + 1
         /\ \A i \in 1 .. Len(s) : Append(s, e)[i] = s[i]
         /\ Append(s, e)[Len(s) + 1] = e
         /\ Elements(Append(s, e)) = Elements(s) \union {e}
  <1>1. /\ Append(s, e) \in Seq(S) /\ Len(Append(s, e)) = Len(s) + 1 /\ Len(s) \in Nat
        /\ \A i \in 1 .. Len(s) : Append(s, e)[i] = s[i]
        /\ Append(s, e)[Len(s) + 1] = e
    OBVIOUS
  <1>2. ASSUME NEW x \in Elements(Append(s, e))  PROVE x \in Elements(s) \union {e}
    <2>1. PICK i \in 1 .. Len(s) + 1 : x = Append(s, e)[i]  BY <1>1, <1>2 DEF Elements
    <2>2. CASE i = Len(s) + 1  BY <1>1, <2>1, <2>2
    <2>3. CASE i \in 1 .. Len(s)  BY <1>1, <2>1, <2>3 DEF Elements
    <2>4. QED  BY <1>1, <2>1, <2>2, <2>3
  <1>3. ASSUME NEW x \in Elements(s) \union {e}  PROVE x \in Elements(Append(s, e))
    <2>1. CASE x = e  BY <1>1, <2>1 DEF Elements
    <2>2. CASE x \in Elements(s)
      <3>1. PICK i \in 1 .. Len(s) : x = s[i]  BY <2>2 DEF Elements
      <3>2. i \in 1 .. Len(Append(s, e)) /\ x = Append(s, e)[i]  BY <1>1, <3>1
      <3>3. QED  BY <3>2 DEF Elements
    <2>3. QED  BY <1>3, <2>1, <2>2
  <1>4. QED  BY <1>1, <1>2, <1>3

LEMMA ElementsTail ==
  ASSUME NEW S, NEW s \in Seq(S), s # <<>>
  PROVE  /\ Tail(s) \in Seq(S) /\ Head(s) \in S
         /\ Len(Tail(s)) = Len(s) - 1 /\ Len(s) \in Nat \ {0}
         /\ Head(s) = s[1]
         /\ \A i \in 1 .. Len(s) - 1 : Tail(s)[i] = s[i + 1]
         /\ Elements(s) = Elements(Tail(s)) \union {Head(s)}
  <1>1. /\ Tail(s) \in Seq(S) /\ Head(s) \in S
        /\ Len(Tail(s)) = Len(s) - 1 /\ Len(s) \in Nat \ {0}
        /\ Head(s) = s[1]
        /\ \A i \in 1 .. Len(s) - 1 : Tail(s)[i] = s[i + 1]
    OBVIOUS
  <1>2. ASSUME NEW x \in Elements(s)  PROVE x \in Elements(Tail(s)) \union {Head(s)}
    <2>1. PICK i \in 1 .. Len(s) : x = s[i]  BY <1>2 DEF Elements
    <2>2. CASE i = 1  BY <1>1, <2>1, <2>2
    <2>3. CASE i # 1
      <3>1. i - 1 \in 1 .. Len(s) - 1 /\ (i - 1) + 1 = i  BY <1>1, <2>1, <2>3
      <3>2. x = Tail(s)[i - 1]  BY <1>1, <2>1, <3>1
      <3>3. QED  BY <1>1, <3>1, <3>2 DEF Elements
    <2>4. QED  BY <2>2, <2>3
  <1>3. ASSUME NEW x \in Elements(Tail(s)) \union {Head(s)}  PROVE x \in Elements(s)
    <2>1. CASE x = Head(s)  BY <1>1, <2>1 DEF Elements
    <2>2. CASE x \in Elements(Tail(s))
      <3>1. PICK i \in 1 .. Len(s) - 1 : x = Tail(s)[i]  BY <1>1, <2>2 DEF Elements
      <3>2. i + 1 \in 1 .. Len(s) /\ x = s[i + 1]  BY <1>1, <3>1
      <3>3. QED  BY <3>2 DEF Elements
    <2>3. QED  BY <1>3, <2>1, <2>2
  <1>4. QED  BY <1>1, <1>2, <1>3

LEMMA QidType ==
  ASSUME TypeOK, NEW t \in Thread, NEW i \in Split
  PROVE  Qid(t, i) \in Split
  <1>1. start[t] \in Split  BY DEF TypeOK
  <1>2. QED  BY <1>1, SplitAssumption DEF Qid, Split

LEMMA TriedType ==
  ASSUME TypeOK, NEW t \in Thread
  PROVE  /\ tried[t] \in Nat /\ tried[t] \in Split
         /\ \A i \in 0 .. tried[t] - 1 : i \in Split
         /\ \A i \in 0 .. tried[t] : i \in Split /\ (i = tried[t] \/ i \in 0 .. tried[t] - 1)
  <1>1. tried[t] \in 0 .. NumSplits - 1  BY DEF TypeOK, Split
  <1>2. QED  BY <1>1, SplitAssumption DEF Split

\* A scan that has tried every split from start[t] on has tried them all.
LEMMA AllTried ==
  ASSUME TypeOK, NEW t \in Thread, NEW q \in Split
  PROVE  \E i \in Split : Qid(t, i) = q
  <1>1. start[t] \in Split  BY DEF TypeOK
  <1> DEFINE i == IF q >= start[t] THEN q - start[t] ELSE q + NumSplits - start[t]
  <1>2. i \in Split  BY <1>1, SplitAssumption DEF Split
  <1>3. Qid(t, i) = q  BY <1>1, SplitAssumption DEF Split, Qid
  <1>4. QED  BY <1>2, <1>3

-----------------------------------------------------------------------------
(* The initial states *)

LEMMA InitInv == Init => IInv
  <1> SUFFICES ASSUME Init  PROVE IInv  OBVIOUS
  <1> USE DEF Init
  <1>1. 0 \in Split  BY SplitAssumption DEF Split
  <1>2. TypeOK  BY <1>1 DEF TypeOK
  <1>3. Tickets = {}
    <2>1. \A q \in Split : Inside(q) = {}  BY DEF Inside, Elements
    <2>2. QED  BY <2>1 DEF Tickets
  <1>4. \A q \in Split : Len(queue[q]) = 0  OBVIOUS
  <1>5. TicketInOnePlace  BY <1>3, <1>4 DEF TicketInOnePlace, Held
  <1>6. ScanInv /\ RoomInv  BY DEF ScanInv, RoomInv
  <1>7. QED  BY <1>2, <1>5, <1>6 DEF IInv

-----------------------------------------------------------------------------
(* Types *)

LEMMA NextTried ==
  ASSUME TypeOK, NEW t \in Thread, TryNext(t)
  PROVE  /\ tried' \in [Thread -> Split]
         /\ call' \in [Thread -> {"none", "emplace", "pop"}]
  <1>1. tried[t] \in Split  BY DEF TypeOK
  <1>2. CASE tried[t] + 1 < NumSplits
    <2>1. tried[t] + 1 \in Split  BY <1>1, <1>2, SplitAssumption DEF Split
    <2>2. QED  BY <1>2, <2>1 DEF TryNext, TypeOK
  <1>3. CASE ~(tried[t] + 1 < NumSplits)  BY <1>3 DEF TryNext, Return, TypeOK
  <1>4. QED  BY <1>2, <1>3

LEMMA BeginTypes ==
  ASSUME TypeOK, NEW t \in Thread, NEW op \in {"emplace", "pop"}, NEW rr \in Nat, Begin(t, op, rr)
  PROVE  /\ call' \in [Thread -> {"none", "emplace", "pop"}]
         /\ start' \in [Thread -> Split] /\ tried' \in [Thread -> Split]
  <1>1. rr % NumSplits \in Split /\ 0 \in Split  BY SplitAssumption DEF Split
  <1>2. QED  BY <1>1 DEF Begin, TypeOK

LEMMA TypeStep == TypeOK /\ [Next]_vars => TypeOK'
  <1> SUFFICES ASSUME TypeOK, [Next]_vars  PROVE TypeOK'  OBVIOUS
  <1>1. ASSUME NEW t \in Thread, Emplace(t)  PROVE TypeOK'
    <2>1. (rr_tail_ + 1) % RrWidth \in Nat  BY SplitAssumption DEF TypeOK
    <2>2. PICK k \in loose : tkt' = [tkt EXCEPT ![t] = k] /\ loose' = loose \ {k}
      BY <1>1 DEF Emplace
    <2>3. rr_tail_ \in Nat /\ Begin(t, "emplace", rr_tail_)  BY <1>1 DEF Emplace, TypeOK
    <2>4. /\ call' \in [Thread -> {"none", "emplace", "pop"}]
          /\ start' \in [Thread -> Split] /\ tried' \in [Thread -> Split]
      BY <2>3, BeginTypes
    <2>5. QED  BY <1>1, <2>1, <2>2, <2>4 DEF Emplace, TypeOK
  <1>2. ASSUME NEW t \in Thread, Pop(t)  PROVE TypeOK'
    <2>1. (rr_head_ + 1) % RrWidth \in Nat  BY SplitAssumption DEF TypeOK
    <2>2. \A q \in Split : Inside(q) \subseteq Ticket  BY DEF TypeOK, Inside, Elements
    <2>3. Tickets \subseteq Ticket  BY <2>2 DEF Tickets
    <2>4. rr_head_ \in Nat /\ Begin(t, "pop", rr_head_)  BY <1>2 DEF Pop, TypeOK
    <2>5. /\ call' \in [Thread -> {"none", "emplace", "pop"}]
          /\ start' \in [Thread -> Split] /\ tried' \in [Thread -> Split]
      BY <2>4, BeginTypes
    <2>6. QED  BY <1>2, <2>1, <2>3, <2>5 DEF Pop, TypeOK
  <1>3. ASSUME NEW t \in Thread, EmplaceAt(t)  PROVE TypeOK'
    <2> DEFINE q == Qid(t, tried[t])
    <2>1. q \in Split /\ tkt[t] \in Ticket  BY QidType DEF TypeOK
    <2>2. CASE HasRoom(q)
      <3>1. Append(queue[q], tkt[t]) \in Seq(Ticket)  BY <2>1, ElementsAppend DEF TypeOK
      <3>2. queue' = [queue EXCEPT ![q] = Append(@, tkt[t])] /\ Return(t)
        BY <1>3, <2>2 DEF EmplaceAt
      <3>3. queue' \in [Split -> Seq(Ticket)]  BY <2>1, <3>1, <3>2 DEF TypeOK
      <3>4. roomy' \in [Thread -> SUBSET Split]
        <4>1. CASE Len(queue[q]) + 1 < Depth  BY <1>3, <2>2, <4>1 DEF EmplaceAt, TypeOK
        <4>2. CASE ~(Len(queue[q]) + 1 < Depth)
          <5>1. roomy' = [u \in Thread |-> roomy[u] \ {q}]  BY <1>3, <2>2, <4>2 DEF EmplaceAt
          <5>2. \A u \in Thread : roomy[u] \ {q} \in SUBSET Split  BY DEF TypeOK
          <5>3. QED  BY <5>1, <5>2
        <4>3. QED  BY <4>1, <4>2
      <3>5. QED  BY <1>3, <2>2, <3>2, <3>3, <3>4 DEF EmplaceAt, Return, TypeOK
    <2>3. CASE ~HasRoom(q)
      <3>1. TryNext(t)  BY <1>3, <2>3 DEF EmplaceAt
      <3>2. QED  BY <1>3, <2>1, <2>3, <3>1, NextTried DEF EmplaceAt, TypeOK
    <2>4. QED  BY <2>2, <2>3
  <1>4. ASSUME NEW t \in Thread, PopAt(t)  PROVE TypeOK'
    <2> DEFINE q == Qid(t, tried[t])
    <2>1. q \in Split  BY QidType DEF TypeOK
    <2>2. CASE queue[q] # <<>>
      <3>1. Tail(queue[q]) \in Seq(Ticket) /\ Head(queue[q]) \in Ticket
        BY <2>1, <2>2, ElementsTail DEF TypeOK
      <3>2. /\ queue' = [queue EXCEPT ![q] = Tail(@)] /\ Return(t)
            /\ stayed' = [u \in Thread |-> stayed[u] \ {Head(queue[q])}]
        BY <1>4, <2>2 DEF PopAt
      <3>3. queue' \in [Split -> Seq(Ticket)]  BY <2>1, <3>1, <3>2 DEF TypeOK
      <3>4. stayed' \in [Thread -> SUBSET Ticket]
        <4>1. \A u \in Thread : stayed[u] \ {Head(queue[q])} \in SUBSET Ticket  BY DEF TypeOK
        <4>2. QED  BY <3>2, <4>1
      <3>5. QED  BY <1>4, <2>2, <3>1, <3>2, <3>3, <3>4 DEF PopAt, Return, TypeOK
    <2>3. CASE queue[q] = <<>>
      <3>1. TryNext(t)  BY <1>4, <2>3 DEF PopAt
      <3>2. QED  BY <1>4, <2>1, <2>3, <3>1, NextTried DEF PopAt, TypeOK
    <2>4. QED  BY <2>2, <2>3
  <1>5. CASE UNCHANGED vars  BY <1>5 DEF vars, TypeOK
  <1>6. QED  BY <1>1, <1>2, <1>3, <1>4, <1>5 DEF Next

-----------------------------------------------------------------------------
(* What a step does to the splits *)

Somewhere   == \A k \in Ticket : k \in loose \/ k \in Tickets \/ \E t \in Thread : Held(k, t)
LooseApart  == \A k \in Ticket : k \in loose => k \notin Tickets /\ \A t \in Thread : ~Held(k, t)
HeldApart   == \A k \in Ticket : \A t \in Thread : Held(k, t) =>
                 k \notin Tickets /\ \A u \in Thread : Held(k, u) => u = t
OncePerQueue == \A q, r \in Split : \A i \in 1 .. Len(queue[q]), j \in 1 .. Len(queue[r]) :
                 queue[q][i] = queue[r][j] => q = r /\ i = j

LEMMA Parts ==
  ASSUME TypeOK
  PROVE  TicketInOnePlace <=> Somewhere /\ LooseApart /\ HeldApart /\ OncePerQueue
  <1>1. \A q \in Split : \A i \in 1 .. Len(queue[q]) : queue[q][i] \in Ticket  BY DEF TypeOK
  <1>2. QED  BY <1>1 DEF TicketInOnePlace, Somewhere, LooseApart, HeldApart, OncePerQueue

\* Two places of the splits that have the same ticket are one.
Same(r1, i, r2, j) == queue[r1][i] = queue[r2][j]

LEMMA Once ==
  ASSUME OncePerQueue, NEW r1 \in Split, NEW r2 \in Split,
         NEW i \in 1 .. Len(queue[r1]), NEW j \in 1 .. Len(queue[r2]), Same(r1, i, r2, j)
  PROVE  r1 = r2 /\ i = j
  BY DEF OncePerQueue, Same

LEMMA SameQueue ==
  ASSUME queue' = queue
  PROVE  /\ \A q \in Split : Inside(q)' = Inside(q) /\ HasRoom(q)' = HasRoom(q)
         /\ Tickets' = Tickets
  <1>1. \A q \in Split : Inside(q)' = Inside(q) /\ HasRoom(q)' = HasRoom(q)
    BY DEF Inside, HasRoom
  <1>2. QED  BY <1>1 DEF Tickets

\* A ticket goes into a split: at its end, and into no other.
Inserts(t, q) == HasRoom(q) /\ queue' = [queue EXCEPT ![q] = Append(@, tkt[t])]

LEMMA InsertEffect ==
  ASSUME TypeOK, OncePerQueue, NEW t \in Thread, NEW q \in Split, Inserts(t, q),
         tkt[t] \notin Tickets
  PROVE  /\ \A r \in Split : Inside(r)' = IF r = q THEN Inside(r) \union {tkt[t]} ELSE Inside(r)
         /\ Tickets' = Tickets \union {tkt[t]}
         /\ OncePerQueue'
         /\ \A r \in Split \ {q} : HasRoom(r)' = HasRoom(r)
         /\ Len(queue[q]) + 1 < Depth => HasRoom(q)'
  <1> DEFINE k == tkt[t]
             s == queue[q]
  <1>1. /\ queue'[q] = Append(s, k) /\ \A r \in Split \ {q} : queue'[r] = queue[r]
        /\ s \in Seq(Ticket) /\ k \in Ticket
    BY DEF Inserts, TypeOK
  <1>2. /\ Len(Append(s, k)) = Len(s) + 1 /\ Len(s) \in Nat
        /\ \A i \in 1 .. Len(s) : Append(s, k)[i] = s[i]
        /\ Append(s, k)[Len(s) + 1] = k
        /\ Elements(Append(s, k)) = Elements(s) \union {k}
    BY <1>1, ElementsAppend
  <1> HIDE DEF k, s
  <1>3. \A r \in Split : Inside(r)' = IF r = q THEN Inside(r) \union {k} ELSE Inside(r)
    <2>1. TAKE r \in Split
    <2>2. Inside(r)' = Elements(queue'[r])  BY DEF Inside, Elements
    <2>3. QED  BY <1>1, <1>2, <2>2 DEF Inside, s
  <1>4. Tickets' = Tickets \union {k}  BY <1>3 DEF Tickets
  <1>5. \A r \in Split : \A i \in 1 .. Len(queue[r]) : queue[r][i] # k
    BY DEF Tickets, Inside, Elements, k
  <1>6. OncePerQueue'
    <2> SUFFICES ASSUME NEW r1 \in Split, NEW r2 \in Split,
                        NEW i \in 1 .. Len(queue'[r1]), NEW j \in 1 .. Len(queue'[r2]),
                        queue'[r1][i] = queue'[r2][j]
                 PROVE  r1 = r2 /\ i = j
      BY DEF OncePerQueue
    <2>1. \A r \in Split : \A n \in 1 .. Len(queue'[r]) :
            \/ n \in 1 .. Len(queue[r]) /\ queue'[r][n] = queue[r][n]
            \/ r = q /\ n = Len(s) + 1 /\ queue'[r][n] = k
      <3>1. TAKE r \in Split
      <3>2. TAKE n \in 1 .. Len(queue'[r])
      <3>3. CASE r = q
        <4>1. n \in 1 .. Len(s) + 1  BY <1>1, <1>2, <3>3
        <4>2. CASE n = Len(s) + 1  BY <1>1, <1>2, <3>3, <4>2
        <4>3. CASE n \in 1 .. Len(s)  BY <1>1, <1>2, <3>3, <4>3 DEF s
        <4>4. QED  BY <1>2, <4>1, <4>2, <4>3
      <3>4. CASE r # q  BY <1>1, <3>4
      <3>5. QED  BY <3>3, <3>4
    <2>2. \/ i \in 1 .. Len(queue[r1]) /\ queue'[r1][i] = queue[r1][i]
          \/ r1 = q /\ i = Len(s) + 1 /\ queue'[r1][i] = k
      BY <2>1
    <2>3. \/ j \in 1 .. Len(queue[r2]) /\ queue'[r2][j] = queue[r2][j]
          \/ r2 = q /\ j = Len(s) + 1 /\ queue'[r2][j] = k
      BY <2>1
    <2>4. CASE /\ i \in 1 .. Len(queue[r1]) /\ queue'[r1][i] = queue[r1][i]
               /\ j \in 1 .. Len(queue[r2]) /\ queue'[r2][j] = queue[r2][j]
      <3>1. Same(r1, i, r2, j)
        BY <2>4 DEF Same
      <3>2. QED  BY <2>4, <3>1, Once
    <2>5. CASE i \in 1 .. Len(queue[r1]) /\ queue'[r1][i] = queue[r1][i] /\ queue'[r2][j] = k
      BY <1>5, <2>5
    <2>6. CASE j \in 1 .. Len(queue[r2]) /\ queue'[r2][j] = queue[r2][j] /\ queue'[r1][i] = k
      BY <1>5, <2>6
    <2>7. QED  BY <2>2, <2>3, <2>4, <2>5, <2>6
  <1>7. /\ \A r \in Split \ {q} : HasRoom(r)' = HasRoom(r)
        /\ Len(s) + 1 < Depth => HasRoom(q)'
    BY <1>1, <1>2 DEF HasRoom
  <1>8. QED  BY <1>3, <1>4, <1>6, <1>7 DEF k, s

\* A ticket comes out of a split: the oldest of it, and there is no other.
Removes(q) == queue[q] # <<>> /\ queue' = [queue EXCEPT ![q] = Tail(@)]

\* Where the entry at n of the queue r was before the head of q was taken.
From(r, q, n) == IF r = q THEN n + 1 ELSE n

LEMMA RemoveEffect ==
  ASSUME TypeOK, OncePerQueue, NEW q \in Split, Removes(q)
  PROVE  /\ \A r \in Split : Inside(r)' = Inside(r) \ {Head(queue[q])}
         /\ Tickets' = Tickets \ {Head(queue[q])}
         /\ Head(queue[q]) \in Tickets /\ Head(queue[q]) \in Ticket
         /\ OncePerQueue'
         /\ \A r \in Split : HasRoom(r) => HasRoom(r)'
  <1> DEFINE s == queue[q]
             h == Head(s)
  <1>1. /\ queue'[q] = Tail(s) /\ \A r \in Split \ {q} : queue'[r] = queue[r]
        /\ s \in Seq(Ticket) /\ s # <<>>
    BY DEF Removes, TypeOK
  <1>2. /\ Head(s) \in Ticket
        /\ Len(Tail(s)) = Len(s) - 1 /\ Len(s) \in Nat \ {0}
        /\ h = s[1]
        /\ \A i \in 1 .. Len(s) - 1 : Tail(s)[i] = s[i + 1]
        /\ Elements(s) = Elements(Tail(s)) \union {h}
    BY <1>1, ElementsTail
  <1> HIDE DEF h, s
  <1>3. \A r \in Split : \A n \in 1 .. Len(queue'[r]) :
          \E m \in 1 .. Len(queue[r]) :
            queue'[r][n] = queue[r][m] /\ m = From(r, q, n)
    <2>1. TAKE r \in Split
    <2>2. TAKE n \in 1 .. Len(queue'[r])
    <2>3. CASE r = q
      <3>1. n \in 1 .. Len(s) - 1  BY <1>1, <1>2, <2>3
      <3>2. n + 1 \in 1 .. Len(s) /\ queue'[r][n] = s[n + 1]  BY <1>1, <1>2, <2>3, <3>1
      <3>3. QED  BY <2>3, <3>2 DEF s, From
    <2>4. CASE r # q  BY <1>1, <2>4 DEF From
    <2>5. QED  BY <2>3, <2>4
  <1>4. OncePerQueue'
    <2> SUFFICES ASSUME NEW r1 \in Split, NEW r2 \in Split,
                        NEW i \in 1 .. Len(queue'[r1]), NEW j \in 1 .. Len(queue'[r2]),
                        queue'[r1][i] = queue'[r2][j]
                 PROVE  r1 = r2 /\ i = j
      BY DEF OncePerQueue
    <2>1. PICK m \in 1 .. Len(queue[r1]) :
            queue'[r1][i] = queue[r1][m] /\ m = From(r1, q, i)  BY <1>3
    <2>2. PICK n \in 1 .. Len(queue[r2]) :
            queue'[r2][j] = queue[r2][n] /\ n = From(r2, q, j)  BY <1>3
    <2>3. Same(r1, m, r2, n)  BY <2>1, <2>2 DEF Same
    <2>4. r1 = r2 /\ m = n  BY <2>3, Once
    <2>5. i \in Int /\ j \in Int  OBVIOUS
    <2>6. From(r1, q, i) = From(r1, q, j)  BY <2>1, <2>2, <2>4
    <2>7. i = j  BY <2>5, <2>6 DEF From
    <2>8. QED  BY <2>4, <2>7
  <1>5. h \notin Elements(Tail(s))
    <2> SUFFICES ASSUME h \in Elements(Tail(s))  PROVE FALSE  OBVIOUS
    <2>1. PICK i \in 1 .. Len(s) - 1 : h = Tail(s)[i]  BY <1>2 DEF Elements
    <2>2. PICK j : j = i + 1
      OBVIOUS
    <2>3. 1 \in 1 .. Len(s) /\ j \in 1 .. Len(s) /\ s[1] = s[j] /\ 1 # j
      BY <1>2, <2>1, <2>2
    <2>4. Same(q, 1, q, j)  BY <2>3 DEF Same, s
    <2>5. QED  BY <2>3, <2>4, Once DEF s
  <1>6. \A r \in Split \ {q} : h \notin Inside(r)
    <2> SUFFICES ASSUME NEW r \in Split, r # q, h \in Inside(r)  PROVE FALSE  OBVIOUS
    <2>1. PICK i \in 1 .. Len(queue[r]) : h = queue[r][i]  BY DEF Inside, Elements
    <2>2. 1 \in 1 .. Len(s) /\ Same(q, 1, r, i)  BY <1>2, <2>1 DEF Same, s
    <2>3. QED  BY <2>1, <2>2, Once DEF s
  <1>7. \A r \in Split : Inside(r)' = Inside(r) \ {h}
    <2>1. TAKE r \in Split
    <2>2. Inside(r)' = Elements(queue'[r])  BY DEF Inside, Elements
    <2>3. CASE r = q  BY <1>1, <1>2, <1>5, <2>2, <2>3 DEF Inside, s
    <2>4. CASE r # q  BY <1>1, <1>6, <2>2, <2>4 DEF Inside
    <2>5. QED  BY <2>3, <2>4
  <1>8. Tickets' = Tickets \ {h}  BY <1>7 DEF Tickets
  <1>9. h \in Tickets  BY <1>2 DEF Tickets, Inside, s
  <1>10. \A r \in Split : HasRoom(r) => HasRoom(r)'
    <2>1. \A r \in Split : Len(queue[r]) \in Nat  BY DEF TypeOK
    <2>2. Len(queue'[q]) = Len(queue[q]) - 1  BY <1>1, <1>2 DEF s
    <2>3. \A r \in Split : Len(queue'[r]) <= Len(queue[r]) /\ Len(queue'[r]) \in Int
      BY <1>1, <2>1, <2>2
    <2>4. Depth \in Int  BY SplitAssumption
    <2>5. QED  BY <2>1, <2>3, <2>4 DEF HasRoom
  <1>11. QED  BY <1>2, <1>4, <1>7, <1>8, <1>9, <1>10 DEF h, s

LEMMA EmplaceAtStep ==
  ASSUME IInv, NEW t \in Thread, EmplaceAt(t)
  PROVE  LET q == Qid(t, tried[t])
         IN  /\ q \in Split /\ tkt[t] \in Ticket /\ tkt[t] \notin Tickets /\ tkt[t] \notin loose
             /\ \A u \in Thread \ {t} : ~Held(tkt[t], u)
             /\ HasRoom(q) => Inserts(t, q)
             /\ ~HasRoom(q) => UNCHANGED <<queue, roomy>>
  <1>1. Qid(t, tried[t]) \in Split /\ tkt[t] \in Ticket  BY QidType DEF IInv, TypeOK
  <1>2. Held(tkt[t], t)  BY DEF EmplaceAt, Held
  <1>3. HeldApart /\ LooseApart  BY Parts DEF IInv
  <1>4. QED  BY <1>1, <1>2, <1>3 DEF HeldApart, LooseApart, EmplaceAt, Inserts

-----------------------------------------------------------------------------
(* Where the tickets are *)

LEMMA PlaceStep == IInv /\ [Next]_vars => TicketInOnePlace'
  <1> SUFFICES ASSUME IInv, [Next]_vars  PROVE TicketInOnePlace'  OBVIOUS
  <1>0. /\ TypeOK /\ TypeOK'
        /\ Somewhere /\ LooseApart /\ HeldApart /\ OncePerQueue
    BY TypeStep, Parts DEF IInv
  <1> SUFFICES Somewhere' /\ LooseApart' /\ HeldApart' /\ OncePerQueue'
    BY <1>0, Parts DEF TypeOK, TicketInOnePlace, Somewhere, LooseApart, HeldApart, OncePerQueue
  <1>1. ASSUME NEW t \in Thread, Emplace(t)
        PROVE  Somewhere' /\ LooseApart' /\ HeldApart' /\ OncePerQueue'
    <2>1. PICK k \in loose : tkt' = [tkt EXCEPT ![t] = k] /\ loose' = loose \ {k}
      BY <1>1 DEF Emplace
    <2>2. queue' = queue /\ Tickets' = Tickets  BY <1>1, SameQueue DEF Emplace
    <2>3. OncePerQueue'  BY <1>0, <2>2 DEF OncePerQueue
    <2>4. \A m \in Ticket, u \in Thread : Held(m, u)' <=> IF u = t THEN m = k ELSE Held(m, u)
      BY <1>0, <1>1, <2>1 DEF Emplace, Begin, Held, TypeOK
    <2>5. \A m \in Ticket : ~Held(m, t)  BY <1>1 DEF Emplace, Begin, Held
    <2>6. k \in Ticket  BY <1>0, <2>1 DEF TypeOK
    <2>7. Somewhere'  BY <1>0, <2>1, <2>2, <2>4, <2>5, <2>6 DEF Somewhere
    <2>8. LooseApart'  BY <1>0, <2>1, <2>2, <2>4 DEF LooseApart
    <2>9. HeldApart'  BY <1>0, <2>1, <2>2, <2>4, <2>6 DEF HeldApart, LooseApart
    <2>10. QED  BY <2>3, <2>7, <2>8, <2>9
  <1>2. ASSUME NEW t \in Thread, Pop(t)
        PROVE  Somewhere' /\ LooseApart' /\ HeldApart' /\ OncePerQueue'
    <2>1. queue' = queue /\ Tickets' = Tickets /\ loose' = loose  BY <1>2, SameQueue DEF Pop
    <2>2. \A m \in Ticket, u \in Thread : Held(m, u)' <=> Held(m, u)
      BY <1>0, <1>2 DEF Pop, Begin, Held, TypeOK
    <2>3. QED  BY <1>0, <2>1, <2>2 DEF Somewhere, LooseApart, HeldApart, OncePerQueue
  <1>3. ASSUME NEW t \in Thread, EmplaceAt(t)
        PROVE  Somewhere' /\ LooseApart' /\ HeldApart' /\ OncePerQueue'
    <2> DEFINE q == Qid(t, tried[t])
               k == tkt[t]
    <2>1. /\ q \in Split /\ k \in Ticket /\ k \notin Tickets /\ k \notin loose
          /\ \A u \in Thread \ {t} : ~Held(k, u)
          /\ HasRoom(q) => Inserts(t, q)
          /\ ~HasRoom(q) => UNCHANGED <<queue, roomy>>
      BY <1>3, EmplaceAtStep
    <2>2. Held(k, t) /\ \A m \in Ticket : Held(m, t) => m = k
      BY <1>3 DEF EmplaceAt, Held
    <2>3. CASE HasRoom(q)
      <3>1. Tickets' = Tickets \union {k} /\ OncePerQueue'
        BY <1>0, <2>1, <2>3, InsertEffect
      <3>2. loose' = loose  BY <1>3, <2>3 DEF EmplaceAt
      <3>3. \A m \in Ticket, u \in Thread : Held(m, u)' <=> u # t /\ Held(m, u)
        BY <1>0, <1>3, <2>3 DEF EmplaceAt, Return, Held, TypeOK
      <3>4. Somewhere'  BY <1>0, <2>2, <3>1, <3>2, <3>3 DEF Somewhere
      <3>5. LooseApart'  BY <1>0, <2>1, <3>1, <3>2, <3>3 DEF LooseApart
      <3>6. HeldApart'  BY <1>0, <2>1, <3>1, <3>3 DEF HeldApart
      <3>7. QED  BY <3>1, <3>4, <3>5, <3>6
    <2>4. CASE ~HasRoom(q) /\ tried[t] + 1 < NumSplits
      <3>1. queue' = queue /\ Tickets' = Tickets  BY <2>1, <2>4, SameQueue
      <3>2. loose' = loose  BY <1>3, <2>4 DEF EmplaceAt
      <3>3. \A m \in Ticket, u \in Thread : Held(m, u)' <=> Held(m, u)
        BY <1>3, <2>4 DEF EmplaceAt, TryNext, Held
      <3>4. QED  BY <1>0, <3>1, <3>2, <3>3 DEF Somewhere, LooseApart, HeldApart, OncePerQueue
    <2>5. CASE ~HasRoom(q) /\ ~(tried[t] + 1 < NumSplits)
      <3>1. queue' = queue /\ Tickets' = Tickets  BY <2>1, <2>5, SameQueue
      <3>2. loose' = loose \union {k}  BY <1>3, <2>5 DEF EmplaceAt
      <3>3. \A m \in Ticket, u \in Thread : Held(m, u)' <=> u # t /\ Held(m, u)
        BY <1>0, <1>3, <2>5 DEF EmplaceAt, TryNext, Return, Held, TypeOK
      <3>4. Somewhere'  BY <1>0, <2>2, <3>1, <3>2, <3>3 DEF Somewhere
      <3>5. LooseApart'  BY <1>0, <2>1, <3>1, <3>2, <3>3 DEF LooseApart
      <3>6. HeldApart' /\ OncePerQueue'  BY <1>0, <3>1, <3>3 DEF HeldApart, OncePerQueue
      <3>7. QED  BY <3>4, <3>5, <3>6
    <2>6. QED  BY <2>3, <2>4, <2>5
  <1>4. ASSUME NEW t \in Thread, PopAt(t)
        PROVE  Somewhere' /\ LooseApart' /\ HeldApart' /\ OncePerQueue'
    <2> DEFINE q == Qid(t, tried[t])
    <2>1. q \in Split  BY <1>0, QidType DEF TypeOK
    <2>2. \A m \in Ticket, u \in Thread : Held(m, u)' <=> Held(m, u)
      BY <1>0, <1>4 DEF PopAt, TryNext, Return, Held, TypeOK
    <2>3. CASE queue[q] # <<>>
      <3>1. Removes(q) /\ loose' = loose \union {Head(queue[q])}
        BY <1>4, <2>3 DEF PopAt, Removes
      <3>2. /\ Tickets' = Tickets \ {Head(queue[q])} /\ OncePerQueue'
            /\ Head(queue[q]) \in Tickets
        BY <1>0, <2>1, <3>1, RemoveEffect
      <3>3. Somewhere'  BY <1>0, <2>2, <3>1, <3>2 DEF Somewhere
      <3>4. LooseApart'  BY <1>0, <2>2, <3>1, <3>2 DEF LooseApart, HeldApart
      <3>5. HeldApart'  BY <1>0, <2>2, <3>2 DEF HeldApart
      <3>6. QED  BY <3>2, <3>3, <3>4, <3>5
    <2>4. CASE queue[q] = <<>>
      <3>1. queue' = queue /\ Tickets' = Tickets /\ loose' = loose
        BY <1>4, <2>4, SameQueue DEF PopAt
      <3>2. QED  BY <1>0, <2>2, <3>1 DEF Somewhere, LooseApart, HeldApart, OncePerQueue
    <2>5. QED  BY <2>3, <2>4
  <1>5. CASE UNCHANGED vars
    <2>1. queue' = queue /\ Tickets' = Tickets /\ loose' = loose  BY <1>5, SameQueue DEF vars
    <2>2. \A m \in Ticket, u \in Thread : Held(m, u)' <=> Held(m, u)  BY <1>5 DEF vars, Held
    <2>3. QED  BY <1>0, <2>1, <2>2 DEF Somewhere, LooseApart, HeldApart, OncePerQueue
  <1>6. QED  BY <1>1, <1>2, <1>3, <1>4, <1>5 DEF Next

-----------------------------------------------------------------------------
(* What a scan has established *)

LEMMA SameQid ==
  ASSUME start' = start, NEW u \in Thread
  PROVE  \A i \in Split : Qid(u, i)' = Qid(u, i)
  BY DEF Qid

LEMMA ScanStep == IInv /\ [Next]_vars => ScanInv'
  <1> SUFFICES ASSUME IInv, [Next]_vars, NEW u \in Thread, (call[u] = "pop")'
               PROVE  /\ (stayed[u] \subseteq Tickets)'
                      /\ \A i \in 0 .. tried'[u] - 1 : stayed'[u] \cap (Inside(Qid(u, i)))' = {}
    BY DEF ScanInv
  <1>0. /\ TypeOK /\ TypeOK' /\ OncePerQueue /\ ScanInv  BY TypeStep, Parts DEF IInv
  <1>a. \A i \in 0 .. tried[u] - 1 : i \in Split /\ Qid(u, i) \in Split
    BY <1>0, TriedType, QidType
  <1>1. ASSUME NEW t \in Thread, Emplace(t)
        PROVE  /\ (stayed[u] \subseteq Tickets)'
               /\ \A i \in 0 .. tried'[u] - 1 : stayed'[u] \cap (Inside(Qid(u, i)))' = {}
    <2>1. u # t  BY <1>0, <1>1 DEF Emplace, Begin, TypeOK
    <2>2. call[u] = "pop" /\ tried'[u] = tried[u] /\ start'[u] = start[u] /\ stayed' = stayed
      BY <1>0, <1>1, <2>1 DEF Emplace, Begin, TypeOK
    <2>3. Tickets' = Tickets /\ \A q \in Split : Inside(q)' = Inside(q)
      BY <1>1, SameQueue DEF Emplace
    <2>4. \A i \in Split : Qid(u, i)' = Qid(u, i)  BY <2>2 DEF Qid
    <2>5. queue' = queue  BY <1>1 DEF Emplace
    <2>6. \A i \in 0 .. tried[u] - 1 : (Inside(Qid(u, i)))' = Inside(Qid(u, i))
      BY <1>a, <2>4, <2>5 DEF Inside
    <2>7. QED  BY <1>0, <2>2, <2>3, <2>6 DEF ScanInv
  <1>2. ASSUME NEW t \in Thread, Pop(t)
        PROVE  /\ (stayed[u] \subseteq Tickets)'
               /\ \A i \in 0 .. tried'[u] - 1 : stayed'[u] \cap (Inside(Qid(u, i)))' = {}
    <2>1. Tickets' = Tickets /\ queue' = queue  BY <1>2, SameQueue DEF Pop
    <2>2. CASE u = t
      <3>1. tried'[u] = 0 /\ stayed'[u] = Tickets  BY <1>0, <1>2, <2>2 DEF Pop, Begin, TypeOK
      <3>2. QED  BY <2>1, <3>1
    <2>3. CASE u # t
      <3>1. call[u] = "pop" /\ tried'[u] = tried[u] /\ start'[u] = start[u]
            /\ stayed'[u] = stayed[u]
        BY <1>0, <1>2, <2>3 DEF Pop, Begin, TypeOK
      <3>2. \A i \in 0 .. tried[u] - 1 : (Inside(Qid(u, i)))' = Inside(Qid(u, i))
        BY <2>1, <3>1 DEF Inside, Qid
      <3>3. QED  BY <1>0, <2>1, <3>1, <3>2 DEF ScanInv
    <2>4. QED  BY <2>2, <2>3
  <1>3. ASSUME NEW t \in Thread, EmplaceAt(t)
        PROVE  /\ (stayed[u] \subseteq Tickets)'
               /\ \A i \in 0 .. tried'[u] - 1 : stayed'[u] \cap (Inside(Qid(u, i)))' = {}
    <2> DEFINE q == Qid(t, tried[t])
    <2>1. /\ q \in Split /\ tkt[t] \notin Tickets
          /\ HasRoom(q) => Inserts(t, q)
          /\ ~HasRoom(q) => queue' = queue
      BY <1>3, EmplaceAtStep
    <2>2. u # t  BY <1>0, <1>3 DEF EmplaceAt, TryNext, Return, TypeOK
    <2>3. call[u] = "pop" /\ tried'[u] = tried[u] /\ start' = start /\ stayed' = stayed
      BY <1>0, <1>3, <2>2 DEF EmplaceAt, TryNext, Return, TypeOK
    <2>4. stayed[u] \subseteq Tickets /\ tkt[t] \notin stayed[u]
      BY <1>0, <2>1, <2>3 DEF ScanInv
    <2>6. CASE HasRoom(q)
      <3>1. /\ Tickets' = Tickets \union {tkt[t]}
            /\ \A r \in Split : Inside(r)' = IF r = q THEN Inside(r) \union {tkt[t]} ELSE Inside(r)
        BY <1>0, <2>1, <2>6, InsertEffect
      <3>2. \A i \in 0 .. tried[u] - 1 :
              stayed[u] \cap (Inside(Qid(u, i)))' = stayed[u] \cap Inside(Qid(u, i))
        <4>1. TAKE i \in 0 .. tried[u] - 1
        <4>2. PICK r \in Split : r = Qid(u, i)  BY <1>a
        <4>3. (Inside(Qid(u, i)))' = Inside(r)'  BY <2>3, <4>2 DEF Qid, Inside
        <4>4. QED  BY <2>4, <3>1, <4>2, <4>3
      <3>3. QED  BY <1>0, <2>3, <2>4, <3>1, <3>2 DEF ScanInv
    <2>7. CASE ~HasRoom(q)
      <3>1. Tickets' = Tickets  BY <2>1, <2>7, SameQueue
      <3>2. \A i \in 0 .. tried[u] - 1 : (Inside(Qid(u, i)))' = Inside(Qid(u, i))
        BY <2>1, <2>3, <2>7 DEF Inside, Qid
      <3>3. QED  BY <1>0, <2>3, <3>1, <3>2 DEF ScanInv
    <2>8. QED  BY <2>6, <2>7
  <1>4. ASSUME NEW t \in Thread, PopAt(t)
        PROVE  /\ (stayed[u] \subseteq Tickets)'
               /\ \A i \in 0 .. tried'[u] - 1 : stayed'[u] \cap (Inside(Qid(u, i)))' = {}
    <2> DEFINE q == Qid(t, tried[t])
    <2>1. q \in Split  BY <1>0, QidType DEF TypeOK
    <2>2. start' = start  BY <1>4 DEF PopAt
    <2>3. CASE queue[q] # <<>>
      <3> DEFINE h == Head(queue[q])
      <3>1. Removes(q)  BY <1>4, <2>3 DEF PopAt, Removes
      <3>2. Tickets' = Tickets \ {h} /\ \A r \in Split : Inside(r)' = Inside(r) \ {h}
        BY <1>0, <2>1, <3>1, RemoveEffect
      <3>3. call[u] = "pop" /\ tried'[u] = tried[u] /\ stayed'[u] = stayed[u] \ {h}
        BY <1>0, <1>4, <2>3 DEF PopAt, Return, TypeOK
      <3>4. \A i \in 0 .. tried[u] - 1 : (Inside(Qid(u, i)))' = Inside(Qid(u, i)) \ {h}
        <4>1. TAKE i \in 0 .. tried[u] - 1
        <4>2. PICK r \in Split : r = Qid(u, i)  BY <1>a
        <4>3. (Inside(Qid(u, i)))' = Inside(r)'  BY <2>2, <4>2 DEF Qid, Inside
        <4>4. QED  BY <3>2, <4>2, <4>3
      <3>5. QED  BY <1>0, <3>2, <3>3, <3>4 DEF ScanInv
    <2>4. CASE queue[q] = <<>>
      <3>1. queue' = queue /\ Tickets' = Tickets /\ stayed' = stayed
        BY <1>4, <2>4, SameQueue DEF PopAt
      <3>2. \A i \in Split : (Inside(Qid(u, i)))' = Inside(Qid(u, i))
        BY <2>2, <3>1 DEF Inside, Qid
      <3>3. CASE u # t
        <4>1. call[u] = "pop" /\ tried'[u] = tried[u]
          BY <1>0, <1>4, <2>4, <3>3 DEF PopAt, TryNext, Return, TypeOK
        <4>2. QED  BY <1>0, <1>a, <3>1, <3>2, <4>1 DEF ScanInv
      <3>4. CASE u = t
        <4>1. call[u] = "pop" /\ tried'[u] = tried[u] + 1
          BY <1>0, <1>4, <2>4, <3>4 DEF PopAt, TryNext, Return, TypeOK
        <4>2. Inside(Qid(u, tried[u])) = {}  BY <2>4, <3>4 DEF Inside, Elements
        <4>3. \A i \in 0 .. tried'[u] - 1 : i \in Split /\ (i = tried[u] \/ i \in 0 .. tried[u] - 1)
          BY <1>0, <4>1, TriedType
        <4>4. QED  BY <1>0, <3>1, <3>2, <4>1, <4>2, <4>3 DEF ScanInv
      <3>5. QED  BY <3>3, <3>4
    <2>5. QED  BY <2>3, <2>4
  <1>5. CASE UNCHANGED vars
    <2>1. queue' = queue /\ Tickets' = Tickets /\ start' = start /\ call' = call
          /\ tried' = tried /\ stayed' = stayed
      BY <1>5, SameQueue DEF vars
    <2>2. \A i \in 0 .. tried[u] - 1 : (Inside(Qid(u, i)))' = Inside(Qid(u, i))
      BY <2>1 DEF Inside, Qid
    <2>3. QED  BY <1>0, <2>1, <2>2 DEF ScanInv
  <1>6. QED  BY <1>1, <1>2, <1>3, <1>4, <1>5 DEF Next

LEMMA RoomStep == IInv /\ [Next]_vars => RoomInv'
  <1> SUFFICES ASSUME IInv, [Next]_vars, NEW u \in Thread, (call[u] = "emplace")'
               PROVE  /\ \A q \in roomy'[u] : HasRoom(q)'
                      /\ \A i \in 0 .. tried'[u] - 1 : (Qid(u, i) \notin roomy[u])'
    BY DEF RoomInv
  <1>0. /\ TypeOK /\ TypeOK' /\ OncePerQueue /\ RoomInv  BY TypeStep, Parts DEF IInv
  <1>1. ASSUME NEW t \in Thread, Emplace(t)
        PROVE  /\ \A q \in roomy'[u] : HasRoom(q)'
               /\ \A i \in 0 .. tried'[u] - 1 : (Qid(u, i) \notin roomy[u])'
    <2>1. \A q \in Split : HasRoom(q)' = HasRoom(q)  BY <1>1, SameQueue DEF Emplace
    <2>2. CASE u = t
      <3>1. tried'[u] = 0 /\ roomy'[u] = {q \in Split : HasRoom(q)}
        BY <1>0, <1>1, <2>2 DEF Emplace, Begin, TypeOK
      <3>2. QED  BY <2>1, <3>1
    <2>3. CASE u # t
      <3>1. call[u] = "emplace" /\ tried'[u] = tried[u] /\ start'[u] = start[u]
            /\ roomy'[u] = roomy[u] /\ roomy[u] \subseteq Split
        BY <1>0, <1>1, <2>3 DEF Emplace, Begin, TypeOK
      <3>2. QED  BY <1>0, <2>1, <3>1 DEF RoomInv, Qid
    <2>4. QED  BY <2>2, <2>3
  <1>2. ASSUME NEW t \in Thread, Pop(t)
        PROVE  /\ \A q \in roomy'[u] : HasRoom(q)'
               /\ \A i \in 0 .. tried'[u] - 1 : (Qid(u, i) \notin roomy[u])'
    <2>1. \A q \in Split : HasRoom(q)' = HasRoom(q)  BY <1>2, SameQueue DEF Pop
    <2>2. call[u] = "emplace" /\ tried'[u] = tried[u] /\ start'[u] = start[u]
          /\ roomy' = roomy /\ roomy[u] \subseteq Split
      BY <1>0, <1>2 DEF Pop, Begin, TypeOK
    <2>3. QED  BY <1>0, <2>1, <2>2 DEF RoomInv, Qid
  <1>3. ASSUME NEW t \in Thread, EmplaceAt(t)
        PROVE  /\ \A q \in roomy'[u] : HasRoom(q)'
               /\ \A i \in 0 .. tried'[u] - 1 : (Qid(u, i) \notin roomy[u])'
    <2>0. PICK q \in Split : q = Qid(t, tried[t])  BY <1>3, EmplaceAtStep
    <2>1. /\ tkt[t] \notin Tickets
          /\ HasRoom(q) => Inserts(t, q)
          /\ ~HasRoom(q) => UNCHANGED <<queue, roomy>>
      BY <1>3, <2>0, EmplaceAtStep
    <2>2. start' = start /\ roomy[u] \subseteq Split  BY <1>0, <1>3 DEF EmplaceAt, TypeOK
    <2>3. CASE HasRoom(q)
      <3>1. /\ \A r \in Split \ {q} : HasRoom(r)' = HasRoom(r)
            /\ Len(queue[q]) + 1 < Depth => HasRoom(q)'
        BY <1>0, <2>1, <2>3, InsertEffect
      <3>2. roomy'[u] \subseteq roomy[u]
            /\ (~(Len(queue[q]) + 1 < Depth) => q \notin roomy'[u])
        BY <1>3, <2>0, <2>3 DEF EmplaceAt
      <3>3. call[u] = "emplace" /\ tried'[u] = tried[u]
        BY <1>0, <1>3, <2>0, <2>3 DEF EmplaceAt, Return, TypeOK
      <3>4. QED  BY <1>0, <2>2, <3>1, <3>2, <3>3 DEF RoomInv, Qid
    <2>4. CASE ~HasRoom(q)
      <3>1. \A r \in Split : HasRoom(r)' = HasRoom(r)  BY <2>1, <2>4, SameQueue
      <3>2. roomy' = roomy  BY <2>1, <2>4
      <3>0. TryNext(t)  BY <1>3, <2>0, <2>4 DEF EmplaceAt
      <3>3. call[u] = "emplace"
            /\ (tried'[u] = tried[u] \/ (u = t /\ tried'[u] = tried[u] + 1))
        <4>1. CASE tried[t] + 1 < NumSplits
          BY <1>0, <1>3, <3>0, <4>1 DEF EmplaceAt, TryNext, TypeOK
        <4>2. CASE ~(tried[t] + 1 < NumSplits)
          BY <1>0, <3>0, <4>2 DEF TryNext, Return, TypeOK
        <4>3. QED  BY <4>1, <4>2
      <3>4. \A r \in roomy[u] : HasRoom(r)
            /\ \A i \in 0 .. tried[u] - 1 : Qid(u, i) \notin roomy[u]
        BY <1>0, <3>3 DEF RoomInv
      <3>5. u = t => Qid(u, tried[u]) \notin roomy[u]  BY <2>0, <2>4, <3>4
      <3>6. \A i \in 0 .. tried[u] : i = tried[u] \/ i \in 0 .. tried[u] - 1
        BY <1>0, TriedType
      <3>7. tried[u] \in Nat  BY <1>0, TriedType
      <3>8. \A i \in 0 .. tried'[u] - 1 : Qid(u, i) \notin roomy[u]
        BY <3>3, <3>4, <3>5, <3>6, <3>7
      <3>9. \A i \in 0 .. tried'[u] - 1 : Qid(u, i)' = Qid(u, i)  BY <2>2 DEF Qid
      <3>10. \A i \in 0 .. tried'[u] - 1 : (Qid(u, i) \notin roomy[u])'
        BY <2>2, <3>2, <3>8 DEF Qid
      <3>11. QED  BY <2>2, <3>1, <3>2, <3>4, <3>10
    <2>5. QED  BY <2>3, <2>4
  <1>4. ASSUME NEW t \in Thread, PopAt(t)
        PROVE  /\ \A q \in roomy'[u] : HasRoom(q)'
               /\ \A i \in 0 .. tried'[u] - 1 : (Qid(u, i) \notin roomy[u])'
    <2> DEFINE q == Qid(t, tried[t])
    <2>1. q \in Split  BY <1>0, QidType DEF TypeOK
    <2>2. u # t  BY <1>0, <1>4 DEF PopAt, TryNext, Return, TypeOK
    <2>3. call[u] = "emplace" /\ tried'[u] = tried[u] /\ start' = start
          /\ roomy' = roomy /\ roomy[u] \subseteq Split
      BY <1>0, <1>4, <2>2 DEF PopAt, TryNext, Return, TypeOK
    <2>4. \A r \in Split : HasRoom(r) => HasRoom(r)'
      <3>1. CASE queue[q] # <<>>
        <4>1. Removes(q)  BY <1>4, <3>1 DEF PopAt, Removes
        <4>2. QED  BY <1>0, <2>1, <4>1, RemoveEffect
      <3>2. CASE queue[q] = <<>>  BY <1>4, <3>2, SameQueue DEF PopAt
      <3>3. QED  BY <3>1, <3>2
    <2>5. QED  BY <1>0, <2>3, <2>4 DEF RoomInv, Qid
  <1>5. CASE UNCHANGED vars
    <2>1. queue' = queue /\ start' = start /\ call' = call /\ tried' = tried /\ roomy' = roomy
          /\ roomy[u] \subseteq Split
      BY <1>0, <1>5 DEF vars, TypeOK
    <2>2. \A q \in Split : HasRoom(q)' = HasRoom(q)  BY <2>1, SameQueue
    <2>3. QED  BY <1>0, <2>1, <2>2 DEF RoomInv, Qid
  <1>6. QED  BY <1>1, <1>2, <1>3, <1>4, <1>5 DEF Next

-----------------------------------------------------------------------------
(* The theorems *)

LEMMA Inductive == Spec => []IInv
  <1>1. IInv /\ [Next]_vars => IInv'  BY TypeStep, PlaceStep, ScanStep, RoomStep DEF IInv
  <1>2. QED  BY InitInv, <1>1, PTL DEF Spec

(***************************************************************************)
(* Types, for every number of threads, splits and slots: in particular a   *)
(* call never goes on to a split beyond the last (split_ticket_queue.h:186,*)
(* 205).                                                                   *)
(***************************************************************************)
THEOREM TypeCorrect == Spec => []TypeOK
  <1>1. IInv => TypeOK  BY DEF IInv
  <1>2. QED  BY <1>1, Inductive, PTL

(***************************************************************************)
(* No ticket is handed out twice, duplicated or lost, for every number of  *)
(* threads, tickets, splits and slots (split_ticket_queue.h:179-214).      *)
(***************************************************************************)
THEOREM TicketsConserved == Spec => []TicketInOnePlace
  <1>1. IInv => TicketInOnePlace  BY DEF IInv
  <1>2. QED  BY <1>1, Inductive, PTL

LEMMA LastSplit ==
  ASSUME TypeOK, NEW t \in Thread, ~(tried[t] + 1 < NumSplits)
  PROVE  \A q \in Split : q = Qid(t, tried[t]) \/ \E i \in 0 .. tried[t] - 1 : q = Qid(t, i)
  <1>1. \A i \in Split : i = tried[t] \/ i \in 0 .. tried[t] - 1
    BY TriedType, SplitAssumption DEF Split
  <1>2. TAKE q \in Split
  <1>3. PICK i \in Split : Qid(t, i) = q  BY AllTried
  <1>4. QED  BY <1>1, <1>3

(***************************************************************************)
(* A pop that returns the null token missed no ticket that was in the queue*)
(* throughout (split_ticket_queue.h:198-214).                              *)
(***************************************************************************)
THEOREM NothingMissed == Spec => PopMissesNothing
  <1>1. ASSUME IInv, [Next]_vars, NEW t \in Thread,
               call[t] = "pop", call'[t] = "none", UNCHANGED loose
        PROVE  stayed[t] = {}
    <2> DEFINE q == Qid(t, tried[t])
    <2>0. TypeOK /\ LooseApart /\ OncePerQueue /\ ScanInv  BY <1>1, Parts DEF IInv
    <2>1. PopAt(t)
      <3>1. \A u \in Thread : Emplace(u) \/ Pop(u) => u # t /\ call'[t] = call[t]
        BY <1>1, <2>0 DEF Emplace, Pop, Begin, TypeOK
      <3>2. \A u \in Thread \ {t} : EmplaceAt(u) \/ PopAt(u) => call'[t] = call[t]
        BY <2>0 DEF EmplaceAt, PopAt, TryNext, Return, TypeOK
      <3>3. ~EmplaceAt(t)  BY <1>1 DEF EmplaceAt
      <3>4. QED  BY <1>1, <3>1, <3>2, <3>3 DEF Next, vars
    <2>2. q \in Split  BY <2>0, QidType DEF TypeOK
    <2>3. queue[q] = <<>>
      <3> SUFFICES ASSUME queue[q] # <<>>  PROVE FALSE  OBVIOUS
      <3>1. Removes(q) /\ Head(queue[q]) \in loose'  BY <2>1 DEF PopAt, Removes
      <3>2. Head(queue[q]) \in Tickets /\ Head(queue[q]) \in Ticket
        BY <2>0, <2>2, <3>1, RemoveEffect
      <3>3. QED  BY <1>1, <2>0, <3>1, <3>2 DEF LooseApart
    <2>4. ~(tried[t] + 1 < NumSplits)  BY <1>1, <2>1, <2>3 DEF PopAt, TryNext
    <2>5. Inside(q) = {}  BY <2>3 DEF Inside, Elements
    <2>6. \A r \in Split : stayed[t] \cap Inside(r) = {}
      BY <1>1, <2>0, <2>4, <2>5, LastSplit DEF ScanInv
    <2>7. stayed[t] \subseteq Tickets  BY <1>1, <2>0 DEF ScanInv
    <2>8. QED  BY <2>6, <2>7 DEF Tickets
  <1>2. IInv /\ [Next]_vars =>
          [\A t \in Thread :
             call[t] = "pop" /\ call'[t] = "none" /\ UNCHANGED loose => stayed[t] = {}]_vars
    BY <1>1
  <1>3. QED  BY <1>2, Inductive, PTL DEF Spec, PopMissesNothing

(***************************************************************************)
(* An emplace that returns the null token found no split with room         *)
(* throughout (split_ticket_queue.h:179-195).                              *)
(***************************************************************************)
THEOREM OnlyFullRefuses == Spec => RefusedWhenFull
  <1>1. ASSUME IInv, [Next]_vars, NEW t \in Thread,
               call[t] = "emplace", call'[t] = "none", tkt[t] \in loose'
        PROVE  roomy[t] = {}
    <2> DEFINE q == Qid(t, tried[t])
    <2>0. TypeOK /\ RoomInv  BY <1>1 DEF IInv
    <2>1. EmplaceAt(t)
      <3>1. \A u \in Thread : Emplace(u) \/ Pop(u) => u # t /\ call'[t] = call[t]
        BY <1>1, <2>0 DEF Emplace, Pop, Begin, TypeOK
      <3>2. \A u \in Thread \ {t} : EmplaceAt(u) \/ PopAt(u) => call'[t] = call[t]
        BY <2>0 DEF EmplaceAt, PopAt, TryNext, Return, TypeOK
      <3>3. ~PopAt(t)  BY <1>1 DEF PopAt
      <3>4. QED  BY <1>1, <3>1, <3>2, <3>3 DEF Next, vars
    <2>2. q \in Split /\ tkt[t] \notin loose  BY <1>1, <2>1, EmplaceAtStep
    <2>3. ~HasRoom(q)  BY <1>1, <2>1, <2>2 DEF EmplaceAt
    <2>4. ~(tried[t] + 1 < NumSplits)  BY <1>1, <2>1, <2>3 DEF EmplaceAt, TryNext
    <2>5. \A r \in roomy[t] : HasRoom(r)  BY <1>1, <2>0 DEF RoomInv
    <2>6. \A i \in 0 .. tried[t] - 1 : Qid(t, i) \notin roomy[t]  BY <1>1, <2>0 DEF RoomInv
    <2>7. \A r \in Split : r \notin roomy[t]  BY <2>0, <2>3, <2>4, <2>5, <2>6, LastSplit
    <2>8. roomy[t] \subseteq Split  BY <2>0 DEF TypeOK
    <2>9. QED  BY <2>7, <2>8
  <1>2. IInv /\ [Next]_vars =>
          [\A t \in Thread :
             call[t] = "emplace" /\ call'[t] = "none" /\ tkt[t] \in loose' => roomy[t] = {}]_vars
    BY <1>1
  <1>3. QED  BY <1>2, Inductive, PTL DEF Spec, RefusedWhenFull
=============================================================================
