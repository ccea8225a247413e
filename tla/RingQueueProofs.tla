--------------------------- MODULE RingQueueProofs ---------------------------
(***************************************************************************)
(* Proofs about RingQueue for the queue types that keep their contract:    *)
(* any number of producers, any depth, any number of calls.                *)
(*                                                                         *)
(* The properties speak of popped values and of quiet moments.  What makes *)
(* them inductive is an account of every slot of the window at every step  *)
(* (Slots): it is filled exactly if its ticket was given out, no producer  *)
(* holds it any more and the consumer has not cleared it; tickets beyond   *)
(* the window are in the hands of producers that were refused or wait      *)
(* (Refused).  With it, who owns a slot is decided by tickets alone, and   *)
(* two tickets of the window never share a slot (Places).                  *)
(*                                                                         *)
(* A producer that gives its ticket back must hold the last one: that is   *)
(* where Errors => Backs \/ OneProd is needed, and why fixed_mpsc_queue    *)
(* is not among the sound ones.  pop() of the queue of words (drop) leaves *)
(* the slot filled, which Slots does not allow.                            *)
(***************************************************************************)
EXTENDS RingQueue, Integers, SequenceTheorems, TLAPS

\* The queue types whose contract the code keeps.
SoundKinds == {"mpsc_queue", "fixed_spsc_queue", "locked", "deque", "mpsc_ptr_queue"}

-----------------------------------------------------------------------------
(* The inductive invariant *)

\* A producer that holds a ticket, and the tickets that nobody holds.
Holder(p)   == ppc[p] \in {"room", "undo", "write", "ready"}
Holds(p, n) == Holder(p) /\ ptail[p] = n
Free(n)     == \A p \in Producer : ~Holds(p, n)
Refused(n)  == \E p \in Producer : Holds(p, n) /\ ppc[p] \in {"room", "undo"}

Ticket(n) == reserved[n + 1]          \* the value that has the ticket n
Live      == First .. Final - 1       \* the tickets whose value is still to be taken
Window    == head_ .. head_ + depth - 1

\* Who may be in a call at the same time.
Turns ==
  /\ Backs \/ OneProd => \A p, q \in Producer : ppc[p] # "idle" /\ ppc[q] # "idle" => p = q
  /\ Backs => cpc = "idle" \/ \A p \in Producer : ppc[p] = "idle"

ProducerSound(p) ==
  /\ phead[p] <= head_
  /\ ppc[p] # "idle" => pushes[p] > 0
  /\ Holder(p) => /\ ptail[p] \in Live /\ Ticket(ptail[p]) = Mine(p)
                  /\ Errors \/ Backs => ptail[p] = tail_ - 1
  /\ ppc[p] \in {"write", "ready"} => ptail[p] < head_ + depth
  /\ ppc[p] = "ready" => slot[At(ptail[p])].val = Mine(p)
  /\ ppc[p] = "room" => Waits
  /\ ppc[p] = "undo" => Errors
  /\ ppc[p] # "resize"

Producing == \A p \in Producer : ProducerSound(p)

Consuming ==
  /\ cop = "pop_back" => Backs
  /\ Words => cop # "drop"
  /\ cpc # "idle" => chead = head_
  /\ cpc \notin {"idle", "tail"} /\ cop = "pop_back" => ctail = tail_ /\ head_ < tail_
  /\ cpc \in {"move", "clear", "advance"} =>
       /\ head_ < tail_ /\ Target < head_ + depth /\ Free(Target) /\ cop # "peek"
       /\ slot[At(Target)].ready <=> cpc # "advance"

\* A slot of the window is filled exactly if its ticket was given out, nobody holds
\* it any more and the consumer has not cleared it.
Slots ==
  /\ \A n \in Window :
       /\ n >= tail_ \/ ~Free(n) => ~slot[At(n)].ready
       /\ n < tail_ /\ Free(n) => \/ slot[At(n)] = [ready |-> TRUE, val |-> Ticket(n)]
                                  \/ cpc = "advance" /\ n = Target
  /\ \A n \in head_ + depth .. tail_ - 1 : Refused(n)

\* The value v was pushed before the one its producer is now about to push.
Old(v) == /\ v \in Value /\ v[2] <= pushes[v[1]]
          /\ ppc[v[1]] = "draw" => v[2] < pushes[v[1]]

Before(v, w) == v[1] = w[1] => IF Backs THEN v # w ELSE v[2] < w[2]

Ordered ==
  /\ head_ <= tail_ /\ Len(reserved) = tail_
  /\ \A i \in 1 .. Len(popped) : Old(popped[i])
  /\ \A n \in Live : Old(Ticket(n))
  /\ \A i, j \in 1 .. Len(popped) : i < j => Before(popped[i], popped[j])
  /\ \A n, m \in Live : n < m => Before(Ticket(n), Ticket(m))
  /\ \A i \in 1 .. Len(popped), n \in Live : Before(popped[i], Ticket(n))

Accepting ==
  /\ PoppedSet \subseteq accepted
  /\ \A v \in accepted : v \in PoppedSet \/ \E n \in Live : v = Ticket(n)
  /\ \A n \in Live : Ticket(n) \in accepted \/ Refused(n)
  /\ \A p \in Producer : ppc[p] \in {"room", "undo"} => Mine(p) \notin accepted

Peeking ==
  peeked # NoPeek =>
    /\ peeked.tok = head_ /\ First = head_ /\ head_ < Final /\ Free(head_)
    /\ slot[At(head_)] = [ready |-> TRUE, val |-> peeked.val]

IInv == /\ TypeOK /\ kind \in SoundKinds
        /\ Turns /\ Producing /\ Consuming /\ Slots /\ Ordered /\ Accepting /\ Peeking

-----------------------------------------------------------------------------
(* Places in the ring *)

\* n is q rounds of d tickets and r more.
Parts(n, d, q, r) == n = d * q + r

\* Division with remainder, and what it says of tickets one round apart or less.
LEMMA Division ==
  ASSUME NEW d \in Nat \ {0}, NEW n \in Nat
  PROVE  n = d * (n \div d) + (n % d) /\ n \div d \in Nat /\ n % d \in 0 .. d - 1
  OBVIOUS

LEMMA Remainder ==
  ASSUME NEW d \in Nat \ {0}, NEW r \in 0 .. d - 1, NEW q \in Nat, NEW n \in Nat,
         Parts(n, d, q, r)
  PROVE  n % d = r
  BY DEF Parts

LEMMA AnotherRound ==
  ASSUME NEW d \in Nat \ {0}, NEW r \in 0 .. d - 1, NEW q \in Nat, NEW n \in Nat,
         Parts(n, d, q, r)
  PROVE  n + d \in Nat /\ q + 1 \in Nat /\ Parts(n + d, d, q + 1, r)
  BY DEF Parts

LEMMA NextRound ==
  ASSUME NEW d \in Nat \ {0}, NEW n \in Nat
  PROVE  (n + d) % d = n % d
  <1>1. PICK q \in Nat, r \in 0 .. d - 1 : Parts(n, d, q, r) /\ r = n % d
    BY Division DEF Parts
  <1>2. n + d \in Nat /\ q + 1 \in Nat /\ Parts(n + d, d, q + 1, r)
    BY <1>1, AnotherRound
  <1>3. \A m, k \in Nat : Parts(m, d, k, r) => m % d = r
    BY Remainder
  <1>4. QED  BY <1>1, <1>2, <1>3

LEMMA WithinRound ==
  ASSUME NEW d \in Nat \ {0}, NEW n \in Nat, NEW m \in Nat, n < m, m < n + d
  PROVE  n % d # m % d
  <1> SUFFICES ASSUME n % d = m % d  PROVE FALSE
    OBVIOUS
  <1> PICK q \in Nat, r \in 0 .. d - 1 : n = d * q + r /\ r = n % d  BY Division
  <1> PICK k \in Nat, s \in 0 .. d - 1 : m = d * k + s /\ s = m % d  BY Division
  <1>1. m - n = d * (k - q) /\ k - q \in Int  OBVIOUS
  <1>2. ASSUME NEW j \in Int, j >= 1  PROVE d * j >= d
    OBVIOUS
  <1>3. ASSUME NEW j \in Int, j <= 0  PROVE d * j <= 0
    OBVIOUS
  <1>4. QED  BY <1>1, <1>2, <1>3

\* The tickets of the window have slots of their own, and the next one after it has
\* the slot of the first.
LEMMA Places ==
  ASSUME TypeOK
  PROVE  /\ \A n \in Nat : At(n) \in 0 .. depth - 1
         /\ \A n, m \in Window : At(n) = At(m) => n = m
         /\ At(head_ + depth) = At(head_)
         /\ Window \subseteq Nat /\ head_ \in Window
  <1> USE DEF At
  <1>1. depth \in Nat \ {0} /\ head_ \in Nat  BY DEF TypeOK
  <1>2. \A n \in Nat : At(n) \in 0 .. depth - 1  BY <1>1, Division
  <1>3. Window \subseteq Nat /\ head_ \in Window  BY <1>1 DEF Window
  <1>4. ASSUME NEW n \in Window, NEW m \in Window, n < m  PROVE At(n) # At(m)
    <2>1. n \in Nat /\ m \in Nat /\ m < n + depth  BY <1>1, <1>4 DEF Window
    <2>2. QED  BY <1>1, <1>4, <2>1, WithinRound
  <1>5. \A n, m \in Window : At(n) = At(m) => n = m
    <2> SUFFICES ASSUME NEW n \in Window, NEW m \in Window, At(n) = At(m)  PROVE n = m
      OBVIOUS
    <2>1. n \in Nat /\ m \in Nat  BY <1>3
    <2>2. ~(n < m) /\ ~(m < n)  BY <1>4
    <2>3. QED  BY <2>1, <2>2
  <1>6. At(head_ + depth) = At(head_)  BY <1>1, NextRound
  <1>7. QED  BY <1>2, <1>3, <1>5, <1>6

\* What the flags of the sound kinds say of each other.
LEMMA SoundKind ==
  ASSUME kind \in SoundKinds
  PROVE  /\ (Waits \/ Errors) /\ ~(Waits /\ Errors) /\ ~Grows
         /\ Errors => Backs \/ OneProd
         /\ Overlap <=> ~Backs
         /\ Words => ~Backs /\ ~OneProd /\ Waits /\ kind = "mpsc_ptr_queue"
  BY DEF SoundKinds, Waits, Words, Errors, Grows, Backs, OneProd, Overlap

\* The flags and the places depend on the kind and the depth alone.
LEMMA SameKind ==
  ASSUME UNCHANGED <<kind, depth>>
  PROVE  /\ Words' = Words /\ Waits' = Waits /\ Errors' = Errors /\ Backs' = Backs
         /\ OneProd' = OneProd /\ \A n : At(n)' = At(n)
         /\ \A v, w : Before(v, w)' = Before(v, w)
  BY DEF Words, Waits, Errors, Backs, OneProd, At, Before

\* The tickets still to be taken lie between head_ and tail_ and have values.
LEMMA Bounds ==
  ASSUME TypeOK, Consuming, head_ <= tail_, Len(reserved) = tail_
  PROVE  /\ head_ \in Nat /\ tail_ \in Nat /\ depth \in Nat \ {0}
         /\ First \in Nat /\ Final \in Nat
         /\ head_ <= First /\ First <= Final /\ Final <= tail_
         /\ \A n \in Live : n \in Nat /\ head_ <= n /\ n < tail_ /\ Ticket(n) \in Value
  <1>1. head_ \in Nat /\ tail_ \in Nat /\ depth \in Nat \ {0} /\ reserved \in Seq(Value)
    BY DEF TypeOK
  <1>2. /\ First \in Nat /\ Final \in Nat
        /\ head_ <= First /\ First <= Final /\ Final <= tail_
    BY <1>1 DEF First, Final, Moved, Consuming
  <1>3. ASSUME NEW n \in Live  PROVE n \in Nat /\ head_ <= n /\ n < tail_ /\ Ticket(n) \in Value
    <2>1. n \in Nat /\ head_ <= n /\ n < tail_
      BY <1>1, <1>2 DEF Live
    <2>2. n + 1 \in 1 .. Len(reserved)
      BY <1>1, <2>1
    <2>3. QED  BY <1>1, <2>1, <2>2 DEF Ticket
  <1>4. QED  BY <1>1, <1>2, <1>3

-----------------------------------------------------------------------------
(* The producers' steps *)

\* The step lemmas: each access of emplace preserves IInv, one step per conjunct.
LEMMA LoadHeadStep ==
  ASSUME IInv, NEW p \in Producer, LoadHead(p)
  PROVE  IInv'
  <1>1. /\ ppc[p] = "idle" /\ pushes[p] < MaxPush /\ MayPush
        /\ pushes' = [pushes EXCEPT ![p] = @ + 1]
        /\ phead' = [phead EXCEPT ![p] = head_]
        /\ ppc' = [ppc EXCEPT ![p] = "draw"]
        /\ UNCHANGED <<kind, depth, head_, tail_, slot, ptail, cpc, cop, chead, ctail, peeked,
                       reserved, accepted, popped>>
    BY DEF LoadHead, PGoto, ring, consVars, history
  <1>2. TypeOK /\ kind \in SoundKinds /\ Turns /\ Producing /\ Consuming /\ Slots /\ Ordered
        /\ Accepting /\ Peeking
    BY DEF IInv
  <1>3. /\ Words' = Words /\ Waits' = Waits /\ Errors' = Errors /\ Backs' = Backs
        /\ OneProd' = OneProd /\ (\A n : At(n)' = At(n))
        /\ \A v, w : Before(v, w)' = Before(v, w)
    BY <1>1, SameKind
  <1>4. /\ \A q \in Producer : /\ Holder(q)' = Holder(q) /\ ptail'[q] = ptail[q]
                               /\ ppc'[q] = IF q = p THEN "draw" ELSE ppc[q]
                               /\ pushes'[q] = IF q = p THEN pushes[q] + 1 ELSE pushes[q]
                               /\ phead'[q] = IF q = p THEN head_ ELSE phead[q]
                               /\ pushes[q] \in Nat
        /\ head_ \in Nat
    BY <1>1, <1>2 DEF TypeOK, Holder
  <1>5. /\ \A n : Free(n)' = Free(n) /\ Refused(n)' = Refused(n) /\ Ticket(n)' = Ticket(n)
        /\ Live' = Live /\ Window' = Window /\ PoppedSet' = PoppedSet
        /\ First' = First /\ Final' = Final /\ Target' = Target
    BY <1>1, <1>4 DEF Free, Refused, Holds, Ticket, Live, Window, PoppedSet, First, Final, Moved,
                      Target
  <1>6. TypeOK'
    <2>1. pushes' \in [Producer -> 0 .. MaxPush]
      BY <1>1, <1>2, RingAssumption DEF TypeOK
    <2>2. phead' \in [Producer -> Nat]
      BY <1>1, <1>2 DEF TypeOK
    <2>3. ppc' \in [Producer -> {"idle", "draw", "room", "undo", "resize", "write", "ready"}]
      BY <1>1, <1>2 DEF TypeOK
    <2>4. QED  BY <1>1, <1>2, <2>1, <2>2, <2>3 DEF TypeOK
  <1>7. Turns'
    BY <1>1, <1>2, <1>3, <1>4 DEF Turns, MayPush, Overlap, Idle, Backs
  <1>8. Producing'
    <2> SUFFICES ASSUME NEW q \in Producer  PROVE ProducerSound(q)'
      BY DEF Producing
    <2>1. ProducerSound(q)
      BY <1>2 DEF Producing
    <2>2. CASE q = p
      BY <1>1, <1>3, <1>4, <1>5, <2>1, <2>2 DEF ProducerSound, Holder, Mine
    <2>3. CASE q # p
      BY <1>1, <1>3, <1>4, <1>5, <2>1, <2>3 DEF ProducerSound, Holder, Mine
    <2>4. QED  BY <2>2, <2>3
  <1>9. Consuming' /\ Slots' /\ Peeking'
    BY <1>1, <1>2, <1>3, <1>5 DEF Consuming, Slots, Peeking
  <1>10. \A v : Old(v) => Old(v)'
    BY <1>1, <1>4 DEF Old, Value
  <1>11. Ordered'
    BY <1>1, <1>2, <1>3, <1>5, <1>10 DEF Ordered
  <1>12. Accepting'
    BY <1>1, <1>2, <1>4, <1>5 DEF Accepting, Mine
  <1>13. QED
    BY <1>1, <1>2, <1>6, <1>7, <1>8, <1>9, <1>11, <1>12 DEF IInv

\* The invariant before a step, and what the kind of the queue says of it.
LEMMA Given ==
  ASSUME IInv
  PROVE  /\ TypeOK /\ kind \in SoundKinds /\ Turns /\ Producing /\ Consuming /\ Slots /\ Ordered
         /\ Accepting /\ Peeking
         /\ (Waits \/ Errors) /\ ~(Waits /\ Errors) /\ ~Grows
         /\ Errors => Backs \/ OneProd
         /\ Overlap <=> ~Backs
         /\ Words => ~Backs /\ ~OneProd /\ Waits /\ kind = "mpsc_ptr_queue"
         /\ head_ \in Nat /\ tail_ \in Nat /\ depth \in Nat \ {0}
         /\ First \in Nat /\ Final \in Nat
         /\ head_ <= First /\ First <= Final /\ Final <= tail_ /\ Len(reserved) = tail_
         /\ \A n \in Live : n \in Nat /\ head_ <= n /\ n < tail_ /\ Ticket(n) \in Value
  <1>1. /\ TypeOK /\ kind \in SoundKinds /\ Turns /\ Producing /\ Consuming /\ Slots /\ Ordered
        /\ Accepting /\ Peeking /\ head_ <= tail_ /\ Len(reserved) = tail_
    BY DEF IInv, Ordered
  <1>2. QED  BY <1>1, SoundKind, Bounds

LEMMA DrawTicketStep ==
  ASSUME IInv, NEW p \in Producer, DrawTicket(p)
  PROVE  IInv'
  <1> PICK new : new = tail_
    OBVIOUS
  <1> PICK mine : mine = Mine(p)
    OBVIOUS
  <1> PICK at : at = ppc'[p]
    OBVIOUS
  <1>1. /\ ppc[p] = "draw"
        /\ ptail' = [ptail EXCEPT ![p] = new]
        /\ tail_' = tail_ + 1
        /\ reserved' = Append(SubSeq(reserved, 1, tail_), mine)
        /\ UNCHANGED <<kind, depth, head_, slot, phead, pushes, cpc, cop, chead, ctail, peeked,
                       popped>>
    BY DEF DrawTicket, consVars
  <1>2. /\ TypeOK /\ kind \in SoundKinds /\ Turns /\ Producing /\ Consuming /\ Slots /\ Ordered
        /\ Accepting /\ Peeking
        /\ (Waits \/ Errors) /\ ~(Waits /\ Errors) /\ ~Grows
        /\ Errors => Backs \/ OneProd
        /\ head_ \in Nat /\ tail_ \in Nat /\ depth \in Nat \ {0}
        /\ First \in Nat /\ Final \in Nat
        /\ head_ <= First /\ First <= Final /\ Final <= tail_ /\ Len(reserved) = tail_
        /\ \A n \in Live : n \in Nat /\ head_ <= n /\ n < tail_ /\ Ticket(n) \in Value
    BY Given
  <1>3. /\ Words' = Words /\ Waits' = Waits /\ Errors' = Errors /\ Backs' = Backs
        /\ OneProd' = OneProd /\ (\A n : At(n)' = At(n))
        /\ \A v, w : Before(v, w)' = Before(v, w)
    BY <1>1, SameKind
  <1>4. /\ ppc' = [ppc EXCEPT ![p] = at]
        /\ \/ at = "write" /\ accepted' = accepted \union {mine} /\ new < head_ + depth
           \/ /\ at = IF Waits THEN "room" ELSE "undo"
              /\ accepted' = accepted
    <2>1. phead[p] <= head_ /\ phead[p] \in Nat
      BY <1>2 DEF Producing, ProducerSound, TypeOK
    <2>2. CASE Full(tail_, phead[p])
      BY <1>2, <2>2 DEF DrawTicket, PGoto, TypeOK
    <2>3. CASE ~Full(tail_, phead[p])
      <3>1. tail_ < head_ + depth
        BY <1>2, <2>1, <2>3 DEF Full
      <3>2. QED  BY <1>2, <2>3, <3>1 DEF DrawTicket, PGoto, TypeOK, Accept
    <2>4. QED  BY <2>2, <2>3
  <1>5. mine \in Value /\ mine[1] = p /\ mine[2] = pushes[p] /\ pushes[p] \in Nat
    <2>1. mine = <<p, pushes[p]>>
      BY DEF Mine
    <2>2. pushes[p] \in 0 .. MaxPush /\ pushes[p] > 0
      BY <1>1, <1>2 DEF TypeOK, Producing, ProducerSound
    <2>3. pushes[p] \in 1 .. MaxPush /\ pushes[p] \in Nat
      BY <2>2, RingAssumption
    <2>4. QED  BY <2>1, <2>3 DEF Value
  <1>6. /\ reserved' \in Seq(Value) /\ Len(reserved') = tail_ + 1
        /\ \A n \in 0 .. tail_ - 1 : Ticket(n)' = Ticket(n)
        /\ \A n : n = new => Ticket(n)' = mine
    <2>1. SubSeq(reserved, 1, tail_) = reserved
      BY <1>2 DEF TypeOK
    <2>2. reserved' = Append(reserved, mine)
      BY <1>1, <2>1
    <2>3. QED  BY <1>2, <1>5, <2>2 DEF TypeOK, Ticket
  <1>7. \A q \in Producer : /\ ppc'[q] = IF q = p THEN at ELSE ppc[q]
                            /\ ptail'[q] = IF q = p THEN new ELSE ptail[q]
                            /\ Holder(q)' <=> q = p \/ Holder(q)
                            /\ q = p => ~Holder(q)
                            /\ Mine(q)' = Mine(q)
    BY <1>1, <1>2, <1>4 DEF TypeOK, Holder, Mine
  <1>8. /\ First' = First /\ Final = tail_ /\ Final' = tail_ + 1 /\ Target' = Target
        /\ Window' = Window /\ PoppedSet' = PoppedSet
    BY <1>1, <1>2 DEF First, Final, Moved, Target, Window, PoppedSet, Turns, Consuming
  <1>9. /\ \A n : n \in Live' <=> n \in Live \/ n = new
        /\ new \notin Live
    BY <1>2, <1>8 DEF Live
  <1>10. \A n : /\ Free(n)' <=> Free(n) /\ n # new
                /\ Refused(n)' <=> Refused(n) \/ (n = new /\ at # "write")
    BY <1>4, <1>7 DEF Free, Refused, Holds, Holder
  <1>11. TypeOK'
    <2>1. ptail' \in [Producer -> Nat] /\ accepted' \subseteq Value
      BY <1>1, <1>2, <1>4, <1>5 DEF TypeOK
    <2>2. ppc' \in [Producer -> {"idle", "draw", "room", "undo", "resize", "write", "ready"}]
      BY <1>2, <1>4 DEF TypeOK
    <2>3. QED  BY <1>1, <1>2, <1>6, <2>1, <2>2 DEF TypeOK
  <1>12. Turns'
    BY <1>1, <1>2, <1>3, <1>7 DEF Turns
  <1>13. Producing'
    <2> SUFFICES ASSUME NEW q \in Producer  PROVE ProducerSound(q)'
      BY DEF Producing
    <2>1. CASE q = p
      BY <1>1, <1>2, <1>3, <1>4, <1>5, <1>6, <1>7, <1>9, <2>1
      DEF Producing, ProducerSound
    <2>2. CASE q # p
      <3>1. ProducerSound(q) /\ (Errors \/ Backs => ppc[q] = "idle")
        BY <1>1, <1>2, <2>2 DEF Producing, Turns
      <3>2. Holder(q) => Ticket(ptail[q])' = Ticket(ptail[q])
        BY <1>2, <1>6, <1>7, <2>2, <3>1 DEF ProducerSound, Ticket
      <3>3. Holder(q) => ptail[q] \in Live'
        BY <1>9, <3>1 DEF ProducerSound
      <3>4. QED
        BY <1>1, <1>3, <1>7, <2>2, <3>1, <3>2, <3>3 DEF ProducerSound, Holder, At, Ticket
    <2>3. QED  BY <2>1, <2>2
  <1>14. Consuming'
    <2>1. Backs => cpc = "idle"
      BY <1>1, <1>2 DEF Turns
    <2>2. ASSUME cpc \in {"move", "clear", "advance"}  PROVE Free(Target)'
      <3>1. Free(Target) /\ Target # new
        BY <1>2, <2>1, <2>2 DEF Consuming, Target
      <3>2. QED  BY <1>7, <1>8, <3>1 DEF Free, Holds
    <2>3. QED
      BY <1>1, <1>2, <1>3, <1>8, <2>1, <2>2 DEF Consuming, At
  <1>15. Slots'
    <2>1. ASSUME NEW n \in Window, n >= tail_ + 1 \/ ~Free(n)'  PROVE ~slot[At(n)].ready
      <3>1. n \in Int /\ (n = new => n >= tail_) /\ (n >= tail_ + 1 => n >= tail_)
        BY <1>2 DEF Window
      <3>2. n >= tail_ \/ ~Free(n)
        BY <1>10, <2>1, <3>1
      <3>3. QED  BY <1>2, <3>2 DEF Slots
    <2>2. ASSUME NEW n \in Window, n < tail_ + 1, Free(n)'
          PROVE  \/ slot[At(n)] = [ready |-> TRUE, val |-> Ticket(n)']
                 \/ cpc = "advance" /\ n = Target
      <3>1. Free(n) /\ n # new /\ n \in Nat
        BY <1>2, <1>10, <2>2 DEF Window
      <3>2. QED  BY <1>2, <1>6, <2>2, <3>1 DEF Slots
    <2>3. ASSUME NEW n \in head_ + depth .. tail_  PROVE Refused(n)'
      <3>1. CASE n = new
        BY <1>2, <1>4, <1>10, <3>1
      <3>2. CASE n # new
        BY <1>2, <1>10, <3>2 DEF Slots
      <3>3. QED  BY <3>1, <3>2
    <2>4. QED
      BY <1>1, <1>2, <1>3, <1>8, <2>1, <2>2, <2>3 DEF Slots
  <1>16. Ordered'
    <2>1. \A v : Old(v) => Old(v)' /\ Before(v, mine)
      BY <1>1, <1>4, <1>5, <1>7 DEF Old, Before, Value
    <2>2. Old(mine)'
      BY <1>1, <1>4, <1>5, <1>7 DEF Old
    <2>3. /\ \A n \in Live : n < new /\ n \in Nat /\ Ticket(n)' = Ticket(n)
          /\ \A n : n = new => Ticket(n)' = mine
      BY <1>2, <1>6
    <2>4. \A i \in 1 .. Len(popped') : Old(popped[i])'
      BY <1>1, <1>2, <2>1 DEF Ordered
    <2>5. \A n \in Live' : Old(Ticket(n))'
      BY <1>2, <1>9, <2>1, <2>2, <2>3 DEF Ordered
    <2>6. \A n, m \in Live' : n < m => Before(Ticket(n), Ticket(m))'
      BY <1>2, <1>3, <1>9, <2>1, <2>3 DEF Ordered
    <2>7. \A i \in 1 .. Len(popped'), n \in Live' : Before(popped[i], Ticket(n))'
      BY <1>1, <1>2, <1>3, <1>9, <2>1, <2>3 DEF Ordered
    <2>8. QED
      BY <1>1, <1>2, <1>3, <1>6, <2>4, <2>5, <2>6, <2>7 DEF Ordered
  <1>17. Accepting'
    <2>1. \A n \in Live : n \in Nat /\ n # new /\ Ticket(n)' = Ticket(n)
      BY <1>2, <1>6
    <2>2. ASSUME NEW v \in accepted'
          PROVE  v \in PoppedSet' \/ \E n \in Live' : v = Ticket(n)'
      <3>1. CASE v = mine
        BY <1>6, <1>9, <3>1
      <3>2. CASE v # mine
        <4>1. v \in PoppedSet \/ \E n \in Live : v = Ticket(n)
          BY <1>2, <1>4, <3>2 DEF Accepting
        <4>2. QED  BY <1>8, <1>9, <2>1, <4>1
      <3>3. QED  BY <3>1, <3>2
    <2>3. ASSUME NEW n \in Live'  PROVE Ticket(n)' \in accepted' \/ Refused(n)'
      <3>1. CASE n = new
        BY <1>4, <1>6, <1>10, <3>1
      <3>2. CASE n # new
        BY <1>2, <1>4, <1>9, <1>10, <2>1, <3>2 DEF Accepting
      <3>3. QED  BY <3>1, <3>2
    <2>4. ASSUME NEW q \in Producer, ppc'[q] \in {"room", "undo"}
          PROVE  Mine(q)' \notin accepted'
      <3>1. CASE q = p
        <4>1. at # "write" /\ accepted' = accepted /\ Mine(q)' = mine
          BY <1>4, <1>7, <2>4, <3>1
        <4>2. mine \notin accepted
          BY <1>1, <1>2, <1>5 DEF Accepting, Ordered, Old, PoppedSet
        <4>3. QED  BY <4>1, <4>2
      <3>2. CASE q # p
        BY <1>2, <1>4, <1>5, <1>7, <2>4, <3>2 DEF Accepting, Mine
      <3>3. QED  BY <3>1, <3>2
    <2>5. QED
      BY <1>2, <1>4, <1>8, <2>2, <2>3, <2>4 DEF Accepting
  <1>18. Peeking'
    BY <1>1, <1>2, <1>3, <1>8, <1>10 DEF Peeking
  <1>19. QED
    BY <1>1, <1>2, <1>11, <1>12, <1>13, <1>14, <1>15, <1>16, <1>17, <1>18 DEF IInv

LEMMA AwaitRoomStep ==
  ASSUME IInv, NEW p \in Producer, AwaitRoom(p)
  PROVE  IInv'
  <1> PICK mine : mine = Mine(p)
    OBVIOUS
  <1>1. /\ ppc[p] = "room" /\ ~Full(ptail[p], head_)
        /\ phead' = [phead EXCEPT ![p] = head_]
        /\ ppc' = [ppc EXCEPT ![p] = "write"]
        /\ accepted' = accepted \union {mine}
        /\ UNCHANGED <<kind, depth, head_, tail_, slot, ptail, pushes, cpc, cop, chead, ctail,
                       peeked, reserved, popped>>
    BY DEF AwaitRoom, PGoto, Accept, ring, consVars
  <1>2. /\ TypeOK /\ kind \in SoundKinds /\ Turns /\ Producing /\ Consuming /\ Slots /\ Ordered
        /\ Accepting /\ Peeking
        /\ head_ \in Nat /\ tail_ \in Nat /\ depth \in Nat \ {0}
        /\ \A n \in Live : n \in Nat /\ head_ <= n /\ n < tail_ /\ Ticket(n) \in Value
    BY Given
  <1>3. /\ Words' = Words /\ Waits' = Waits /\ Errors' = Errors /\ Backs' = Backs
        /\ OneProd' = OneProd /\ (\A n : At(n)' = At(n))
        /\ \A v, w : Before(v, w)' = Before(v, w)
    BY <1>1, SameKind
  <1>4. /\ ptail[p] \in Live /\ Ticket(ptail[p]) = mine /\ mine \in Value /\ mine[1] = p
        /\ ptail[p] < head_ + depth /\ mine \notin accepted
    <2>1. ptail[p] \in Live /\ Ticket(ptail[p]) = mine
      BY <1>1, <1>2 DEF Producing, ProducerSound, Holder
    <2>2. ptail[p] < head_ + depth
      BY <1>1, <1>2, <2>1 DEF Full
    <2>3. QED  BY <1>1, <1>2, <2>1, <2>2 DEF Accepting, Mine
  <1>5. \A q \in Producer : /\ ppc'[q] = IF q = p THEN "write" ELSE ppc[q]
                            /\ phead'[q] = IF q = p THEN head_ ELSE phead[q]
                            /\ Holder(q)' <=> Holder(q)
                            /\ ptail'[q] = ptail[q] /\ pushes'[q] = pushes[q]
                            /\ Mine(q)' = Mine(q)
    BY <1>1, <1>2 DEF TypeOK, Holder, Mine
  <1>6. /\ \A n : Free(n)' <=> Free(n)
        /\ \A n : Ticket(n)' = Ticket(n)
        /\ Live' = Live /\ Window' = Window /\ PoppedSet' = PoppedSet
        /\ First' = First /\ Final' = Final /\ Target' = Target
    BY <1>1, <1>5 DEF Free, Holds, Ticket, Live, Window, PoppedSet, First, Final, Moved, Target
  <1>7. \A n : Refused(n) => Refused(n)' \/ n = ptail[p]
    BY <1>5 DEF Refused, Holds
  <1>8. TypeOK'
    <2>1. phead' \in [Producer -> Nat] /\ accepted' \subseteq Value
      BY <1>1, <1>2, <1>4 DEF TypeOK
    <2>2. ppc' \in [Producer -> {"idle", "draw", "room", "undo", "resize", "write", "ready"}]
      BY <1>1, <1>2 DEF TypeOK
    <2>3. QED  BY <1>1, <1>2, <2>1, <2>2 DEF TypeOK
  <1>9. Turns'
    BY <1>1, <1>2, <1>3, <1>5 DEF Turns
  <1>10. Producing'
    <2> SUFFICES ASSUME NEW q \in Producer  PROVE ProducerSound(q)'
      BY DEF Producing
    <2>1. ProducerSound(q)
      BY <1>2 DEF Producing
    <2>2. QED
      BY <1>1, <1>2, <1>3, <1>4, <1>5, <1>6, <2>1 DEF ProducerSound, Holder, At, Ticket
  <1>11. Consuming' /\ Peeking'
    BY <1>1, <1>2, <1>3, <1>6 DEF Consuming, Peeking
  <1>12. Slots'
    <2>1. ASSUME NEW n \in head_ + depth .. tail_ - 1  PROVE Refused(n)'
      BY <1>2, <1>4, <1>7 DEF Slots
    <2>2. QED  BY <1>1, <1>2, <1>3, <1>6, <2>1 DEF Slots
  <1>13. Ordered'
    <2>1. \A v : Old(v) => Old(v)'
      BY <1>1, <1>5 DEF Old, Value
    <2>2. QED  BY <1>1, <1>2, <1>3, <1>6, <2>1 DEF Ordered
  <1>14. Accepting'
    <2>1. \A v \in accepted' : v \in PoppedSet \/ \E n \in Live : v = Ticket(n)
      BY <1>1, <1>2, <1>4 DEF Accepting
    <2>2. \A n \in Live : Ticket(n) \in accepted' \/ Refused(n)'
      BY <1>1, <1>2, <1>4, <1>7 DEF Accepting
    <2>3. ASSUME NEW q \in Producer, ppc'[q] \in {"room", "undo"}
          PROVE  Mine(q)' \notin accepted'
      <3>1. q # p /\ Mine(q) # mine
        BY <1>4, <1>5, <2>3 DEF Mine
      <3>2. QED  BY <1>1, <1>2, <1>5, <2>3, <3>1 DEF Accepting
    <2>4. QED  BY <1>1, <1>2, <1>6, <2>1, <2>2, <2>3 DEF Accepting
  <1>15. QED
    BY <1>1, <1>2, <1>8, <1>9, <1>10, <1>11, <1>12, <1>13, <1>14 DEF IInv

\* A sequence cut at its end.
LEMMA Shorter ==
  ASSUME NEW S, NEW s \in Seq(S), NEW n \in 0 .. Len(s)
  PROVE  /\ SubSeq(s, 1, n) \in Seq(S) /\ Len(SubSeq(s, 1, n)) = n
         /\ \A i \in 1 .. n : SubSeq(s, 1, n)[i] = s[i]
  OBVIOUS

LEMMA UndoStep ==
  ASSUME IInv, NEW p \in Producer, Undo(p)
  PROVE  IInv'
  <1> PICK last : last = tail_ - 1
    OBVIOUS
  <1>1. /\ ppc[p] = "undo"
        /\ tail_' = last
        /\ reserved' = SubSeq(reserved, 1, last)
        /\ ppc' = [ppc EXCEPT ![p] = "idle"]
        /\ UNCHANGED <<kind, depth, head_, slot, phead, ptail, pushes, cpc, cop, chead, ctail,
                       peeked, accepted, popped>>
    BY DEF Undo, PGoto, consVars
  <1>2. /\ TypeOK /\ kind \in SoundKinds /\ Turns /\ Producing /\ Consuming /\ Slots /\ Ordered
        /\ Accepting /\ Peeking
        /\ Errors => Backs \/ OneProd
        /\ head_ \in Nat /\ tail_ \in Nat /\ depth \in Nat \ {0}
        /\ First \in Nat /\ Final \in Nat
        /\ head_ <= First /\ First <= Final /\ Final <= tail_ /\ Len(reserved) = tail_
        /\ \A n \in Live : n \in Nat /\ head_ <= n /\ n < tail_ /\ Ticket(n) \in Value
    BY Given
  <1>3. /\ Words' = Words /\ Waits' = Waits /\ Errors' = Errors /\ Backs' = Backs
        /\ OneProd' = OneProd /\ (\A n : At(n)' = At(n))
        /\ \A v, w : Before(v, w)' = Before(v, w)
    BY <1>1, SameKind
  <1>4. /\ ptail[p] = last /\ last \in Live /\ Ticket(last) = Mine(p) /\ last \in Nat
        /\ head_ <= last /\ Errors /\ Mine(p) \notin accepted
        /\ \A q \in Producer : q # p => ppc[q] = "idle"
        /\ Backs => cpc = "idle"
    <2>1. Errors /\ ptail[p] \in Live /\ Ticket(ptail[p]) = Mine(p) /\ ptail[p] = last
      BY <1>1, <1>2 DEF Producing, ProducerSound, Holder
    <2>2. Mine(p) \notin accepted
      BY <1>1, <1>2 DEF Accepting
    <2>3. QED  BY <1>1, <1>2, <2>1, <2>2 DEF Turns
  <1>5. \A q \in Producer : ppc'[q] = "idle" /\ ~Holder(q)' /\ (Holder(q) <=> q = p)
    BY <1>1, <1>2, <1>4 DEF TypeOK, Holder
  <1>6. /\ \A n : Free(n)' /\ (Free(n) <=> n # last) /\ (Refused(n) => n = last)
        /\ \A q \in Producer : Mine(q)' = Mine(q)
        /\ Window' = Window /\ PoppedSet' = PoppedSet
    BY <1>1, <1>4, <1>5 DEF Free, Refused, Holds, Mine, Window, PoppedSet
  <1>7. /\ First' = First /\ Final = tail_ /\ Final' = last /\ Target' = Target
        /\ cpc \notin {"idle", "tail"} => cop # "pop_back"
    BY <1>1, <1>2, <1>4 DEF First, Final, Moved, Target, Consuming
  <1>8. \A n : n \in Live' <=> n \in Live /\ n # last
    BY <1>2, <1>4, <1>7 DEF Live
  <1>9. /\ reserved' \in Seq(Value) /\ Len(reserved') = last
        /\ \A n \in 0 .. last - 1 : Ticket(n)' = Ticket(n)
    <2>1. reserved \in Seq(Value) /\ last \in 0 .. Len(reserved)
      BY <1>2, <1>4 DEF TypeOK
    <2>2. /\ reserved' \in Seq(Value) /\ Len(reserved') = last
          /\ \A i \in 1 .. last : reserved'[i] = reserved[i]
      BY <1>1, <2>1, Shorter
    <2>3. \A n \in 0 .. last - 1 : n + 1 \in 1 .. last
      BY <1>4
    <2>4. QED  BY <2>2, <2>3 DEF Ticket
  <1>10. \A n \in Live' : n \in Live /\ n # last /\ Ticket(n)' = Ticket(n)
    <2> SUFFICES ASSUME NEW n \in Live'
                 PROVE  n \in Live /\ n # last /\ Ticket(n)' = Ticket(n)
      OBVIOUS
    <2>1. n \in Live /\ n # last
      BY <1>8
    <2>2. n \in Nat /\ n < tail_
      BY <1>2, <2>1
    <2>3. tail_ \in Nat /\ last \in Nat /\ last = tail_ - 1
      BY <1>2, <1>4
    <2>4. n \in 0 .. last - 1
      BY <2>1, <2>2, <2>3
    <2>5. QED  BY <1>9, <2>1, <2>4
  <1>11. TypeOK'
    <2>1. ppc' \in [Producer -> {"idle", "draw", "room", "undo", "resize", "write", "ready"}]
      BY <1>1, <1>2 DEF TypeOK
    <2>2. QED  BY <1>1, <1>2, <1>4, <1>9, <2>1 DEF TypeOK
  <1>12. Turns'
    BY <1>1, <1>2, <1>3, <1>5 DEF Turns
  <1>13. Producing'
    BY <1>1, <1>2, <1>5 DEF Producing, ProducerSound
  <1>14. Consuming'
    <2>1. ASSUME cpc \in {"move", "clear", "advance"}
          PROVE  Target = head_ /\ Free(Target) /\ head_ < last /\ Free(Target)'
      <3>1. Target = head_ /\ Free(Target)
        BY <1>2, <1>7, <2>1 DEF Consuming, Target
      <3>2. head_ # last
        BY <1>6, <3>1
      <3>3. QED  BY <1>2, <1>4, <1>5, <3>1, <3>2 DEF Free, Holds
    <2>2. QED
      BY <1>1, <1>2, <1>3, <1>7, <2>1 DEF Consuming, At
  <1>15. Slots'
    <2>1. ASSUME NEW n \in Window, n >= last  PROVE ~slot[At(n)].ready
      <3>1. n >= tail_ \/ ~Free(n)
        BY <1>2, <1>6, <2>1 DEF Window
      <3>2. QED  BY <1>2, <3>1 DEF Slots
    <2>2. ASSUME NEW n \in Window, n < last
          PROVE  \/ slot[At(n)] = [ready |-> TRUE, val |-> Ticket(n)']
                 \/ cpc = "advance" /\ n = Target
      <3>1. Free(n) /\ n \in Nat /\ n < tail_
        BY <1>2, <1>6, <2>2 DEF Window
      <3>2. Ticket(n)' = Ticket(n)
        BY <1>4, <1>9, <2>2, <3>1
      <3>3. QED  BY <1>2, <3>1, <3>2 DEF Slots
    <2>3. \A n \in head_ + depth .. last - 1 : FALSE
      <3> SUFFICES ASSUME NEW n \in head_ + depth .. last - 1  PROVE FALSE
        OBVIOUS
      <3>1. n \in head_ + depth .. tail_ - 1 /\ n # last
        BY <1>2, <1>4
      <3>2. QED  BY <1>2, <1>6, <3>1 DEF Slots
    <2>4. QED
      BY <1>1, <1>2, <1>3, <1>6, <1>7, <2>1, <2>2, <2>3 DEF Slots
  <1>16. Ordered'
    <2>1. \A v : Old(v) => Old(v)'
      BY <1>1, <1>5 DEF Old, Value
    <2>2. \A n \in Live' : Old(Ticket(n))'
      BY <1>2, <1>10, <2>1 DEF Ordered
    <2>3. \A n, m \in Live' : n < m => Before(Ticket(n), Ticket(m))'
      BY <1>2, <1>3, <1>10 DEF Ordered
    <2>4. \A i \in 1 .. Len(popped'), n \in Live' : Before(popped[i], Ticket(n))'
      BY <1>1, <1>2, <1>3, <1>10 DEF Ordered
    <2>5. QED
      BY <1>1, <1>2, <1>3, <1>4, <1>9, <2>1, <2>2, <2>3, <2>4 DEF Ordered
  <1>17. Accepting'
    <2>1. ASSUME NEW v \in accepted
          PROVE  v \in PoppedSet \/ \E n \in Live' : v = Ticket(n)'
      BY <1>2, <1>4, <1>8, <1>10 DEF Accepting
    <2>2. \A n \in Live' : Ticket(n)' \in accepted
      BY <1>2, <1>6, <1>10 DEF Accepting
    <2>3. QED
      BY <1>1, <1>2, <1>5, <1>6, <2>1, <2>2 DEF Accepting
  <1>18. Peeking'
    <2>1. ASSUME peeked # NoPeek  PROVE head_ < last
      <3>1. head_ # last
        BY <1>2, <1>6, <2>1 DEF Peeking
      <3>2. QED  BY <1>2, <1>4, <3>1
    <2>2. QED
      BY <1>1, <1>2, <1>3, <1>6, <1>7, <2>1 DEF Peeking, At, Free, Holds
  <1>19. QED
    BY <1>1, <1>2, <1>11, <1>12, <1>13, <1>14, <1>15, <1>16, <1>17, <1>18 DEF IInv

\* A new ready bit leaves the value.
LEMMA SetReady ==
  ASSUME NEW S, NEW bit \in BOOLEAN, NEW r \in [ready : BOOLEAN, val : S]
  PROVE  [r EXCEPT !.ready = bit] = [ready |-> bit, val |-> r.val]
  OBVIOUS

\* Two producers never hold the same ticket: it belongs to the value of one of them.
LEMMA OneHolder ==
  ASSUME Producing, NEW p \in Producer, NEW q \in Producer, Holder(p), Holder(q),
         ptail[p] = ptail[q]
  PROVE  p = q
  <1>1. Ticket(ptail[p]) = Mine(p) /\ Ticket(ptail[q]) = Mine(q)
    BY DEF Producing, ProducerSound
  <1>2. QED  BY <1>1 DEF Mine, Ticket

\* What WriteSlot and MarkReady have in common: the slot of the producer's ticket gets
\* an entry with its value, and the call ends when the entry is ready.
LEMMA FillSlot ==
  ASSUME IInv, NEW p \in Producer, ppc[p] \in {"write", "ready"},
         NEW entry \in [ready : BOOLEAN, val : {Mine(p)}],
         NEW at, at = IF entry.ready THEN "idle" ELSE "ready",
         slot' = [slot EXCEPT ![At(ptail[p])] = entry],
         ppc' = [ppc EXCEPT ![p] = at],
         UNCHANGED <<kind, depth, head_, tail_, phead, ptail, pushes, cpc, cop, chead, ctail,
                     peeked, reserved, accepted, popped>>
  PROVE  IInv'
  <1> PICK here : here = ptail[p]
    OBVIOUS
  <1> PICK mine : mine = Mine(p)
    OBVIOUS
  <1>1. /\ ppc[p] \in {"write", "ready"}
        /\ ppc' = [ppc EXCEPT ![p] = at]
        /\ UNCHANGED <<kind, depth, head_, tail_, phead, ptail, pushes, cpc, cop, chead, ctail,
                       peeked, reserved, accepted, popped>>
    OBVIOUS
  <1>2. /\ TypeOK /\ kind \in SoundKinds /\ Turns /\ Producing /\ Consuming /\ Slots /\ Ordered
        /\ Accepting /\ Peeking
        /\ head_ \in Nat /\ tail_ \in Nat /\ depth \in Nat \ {0}
        /\ First \in Nat /\ Final \in Nat
        /\ head_ <= First /\ First <= Final /\ Final <= tail_
        /\ \A n \in Live : n \in Nat /\ head_ <= n /\ n < tail_ /\ Ticket(n) \in Value
    BY Given
  <1>3. /\ Words' = Words /\ Waits' = Waits /\ Errors' = Errors /\ Backs' = Backs
        /\ OneProd' = OneProd /\ (\A n : At(n)' = At(n))
        /\ \A v, w : Before(v, w)' = Before(v, w)
    BY <1>1, SameKind
  <1>4. /\ here \in Live /\ here \in Window /\ here \in Nat /\ here < tail_
        /\ Ticket(here) = mine /\ mine \in Value
        /\ entry.val = mine /\ entry = [ready |-> entry.ready, val |-> mine]
        /\ ~Free(here)
    <2>1. here \in Live /\ Ticket(here) = mine /\ here < head_ + depth
      BY <1>1, <1>2 DEF Producing, ProducerSound, Holder
    <2>2. here \in Window /\ here \in Nat /\ here < tail_ /\ mine \in Value
      BY <1>2, <2>1 DEF Window
    <2>3. ~Free(here)
      BY <1>1 DEF Free, Holds, Holder
    <2>4. QED  BY <2>1, <2>2, <2>3
  <1>5. \A q \in Producer : /\ ppc'[q] = IF q = p THEN at ELSE ppc[q]
                            /\ Holder(q)' <=> Holder(q) /\ (q = p => ~entry.ready)
                            /\ ptail'[q] = ptail[q] /\ pushes'[q] = pushes[q]
                            /\ Mine(q)' = Mine(q)
    BY <1>1, <1>2 DEF TypeOK, Holder, Mine
  <1>6. \A q \in Producer : Holder(q) /\ ptail[q] = here => q = p
    BY <1>1, <1>2, OneHolder DEF Holder
  <1>7. /\ \A n : Free(n)' <=> Free(n) \/ (n = here /\ entry.ready)
        /\ \A n : Refused(n)' <=> Refused(n)
    BY <1>1, <1>5, <1>6 DEF Free, Refused, Holds
  <1>8. /\ \A n : Ticket(n)' = Ticket(n)
        /\ Live' = Live /\ Window' = Window /\ PoppedSet' = PoppedSet
        /\ First' = First /\ Final' = Final /\ Target' = Target
    BY <1>1 DEF Ticket, Live, Window, PoppedSet, First, Final, Moved, Target
  <1>9. /\ slot'[At(here)] = entry
        /\ \A n \in Window : n # here => slot'[At(n)] = slot[At(n)]
        /\ slot' \in [0 .. depth - 1 -> [ready : BOOLEAN, val : Value \union {NoVal}]]
    <2>1. /\ slot \in [0 .. depth - 1 -> [ready : BOOLEAN, val : Value \union {NoVal}]]
          /\ slot' = [slot EXCEPT ![At(here)] = entry]
          /\ entry \in [ready : BOOLEAN, val : Value \union {NoVal}]
      BY <1>2, <1>4 DEF TypeOK
    <2>2. /\ \A n \in Nat : At(n) \in 0 .. depth - 1
          /\ \A n, m \in Window : At(n) = At(m) => n = m
          /\ Window \subseteq Nat
      BY <1>2, Places
    <2>3. At(here) \in 0 .. depth - 1
      BY <1>4, <2>2
    <2>4. slot'[At(here)] = entry
      BY <2>1, <2>3
    <2>5. ASSUME NEW n \in Window, n # here  PROVE slot'[At(n)] = slot[At(n)]
      <3>1. At(n) \in 0 .. depth - 1 /\ At(n) # At(here)
        BY <1>4, <2>2, <2>5
      <3>2. QED  BY <2>1, <2>3, <3>1
    <2>6. slot' \in [0 .. depth - 1 -> [ready : BOOLEAN, val : Value \union {NoVal}]]
      BY <2>1, <2>3
    <2>7. QED  BY <2>4, <2>5, <2>6
  <1>10. TypeOK'
    <2>1. ppc' \in [Producer -> {"idle", "draw", "room", "undo", "resize", "write", "ready"}]
      BY <1>1, <1>2 DEF TypeOK
    <2>2. QED  BY <1>1, <1>2, <1>9, <2>1 DEF TypeOK
  <1>11. Turns'
    BY <1>1, <1>2, <1>3, <1>5 DEF Turns
  <1>12. Producing'
    <2> SUFFICES ASSUME NEW q \in Producer  PROVE ProducerSound(q)'
      BY DEF Producing
    <2>1. ProducerSound(q)
      BY <1>2 DEF Producing
    <2>2. CASE q = p
      BY <1>1, <1>3, <1>4, <1>5, <1>8, <1>9, <2>1, <2>2
      DEF ProducerSound, Holder, At, Ticket
    <2>3. ASSUME q # p, ppc[q] = "ready"  PROVE slot'[At(ptail[q])].val = Mine(q)
      <3>1. ptail[q] \in Window /\ ptail[q] # here
        BY <1>2, <1>6, <2>1, <2>3 DEF ProducerSound, Holder, Window
      <3>2. QED  BY <1>9, <2>1, <2>3, <3>1 DEF ProducerSound
    <2>4. CASE q # p
      BY <1>1, <1>3, <1>4, <1>5, <1>8, <2>1, <2>3, <2>4
      DEF ProducerSound, Holder, At, Ticket
    <2>5. QED  BY <2>2, <2>4
  <1>13. Consuming'
    <2>1. ASSUME cpc \in {"move", "clear", "advance"}
          PROVE  Free(Target)' /\ slot'[At(Target)] = slot[At(Target)]
      <3>1. Target \in Window /\ Free(Target)
        BY <1>2, <2>1 DEF Consuming, Target, Window
      <3>2. QED  BY <1>4, <1>5, <1>8, <1>9, <3>1 DEF Free, Holds
    <2>2. QED
      BY <1>1, <1>2, <1>3, <1>8, <2>1 DEF Consuming, At
  <1>14. Slots'
    <2>1. ASSUME NEW n \in Window, n >= tail_ \/ ~Free(n)'  PROVE ~slot'[At(n)].ready
      <3>1. CASE n = here
        <4>1. ~(n >= tail_)
          BY <1>2, <1>4, <3>1
        <4>2. ~entry.ready
          BY <1>7, <2>1, <3>1, <4>1
        <4>3. slot'[At(n)] = entry
          BY <1>9, <3>1
        <4>4. QED  BY <4>2, <4>3
      <3>2. CASE n # here
        BY <1>2, <1>7, <1>9, <2>1, <3>2 DEF Slots
      <3>3. QED  BY <3>1, <3>2
    <2>2. ASSUME NEW n \in Window, n < tail_, Free(n)'
          PROVE  \/ slot'[At(n)] = [ready |-> TRUE, val |-> Ticket(n)]
                 \/ cpc = "advance" /\ n = Target
      <3>1. CASE n = here
        BY <1>4, <1>7, <1>9, <2>2, <3>1
      <3>2. CASE n # here
        BY <1>2, <1>7, <1>9, <2>2, <3>2 DEF Slots
      <3>3. QED  BY <3>1, <3>2
    <2>3. QED
      BY <1>1, <1>2, <1>3, <1>7, <1>8, <2>1, <2>2 DEF Slots
  <1>15. Ordered'
    <2>1. \A v : Old(v) => Old(v)'
      BY <1>1, <1>5 DEF Old, Value
    <2>2. QED  BY <1>1, <1>2, <1>3, <1>8, <2>1 DEF Ordered
  <1>16. Accepting'
    BY <1>1, <1>2, <1>5, <1>7, <1>8 DEF Accepting
  <1>17. Peeking'
    <2>1. ASSUME peeked # NoPeek
          PROVE  Free(head_)' /\ slot'[At(head_)] = slot[At(head_)]
      <3>1. head_ \in Window /\ head_ # here
        BY <1>2, <1>4, <2>1 DEF Peeking, Window
      <3>2. QED  BY <1>1, <1>2, <1>5, <1>9, <2>1, <3>1 DEF Free, Holds, Peeking
    <2>2. QED
      BY <1>1, <1>2, <1>3, <1>8, <2>1 DEF Peeking, At
  <1>18. QED
    BY <1>1, <1>2, <1>10, <1>11, <1>12, <1>13, <1>14, <1>15, <1>16, <1>17 DEF IInv

\* A pair is written unready, a word ready.
LEMMA WriteSlotStep ==
  ASSUME IInv, NEW p \in Producer, WriteSlot(p)
  PROVE  IInv'
  <1> PICK entry : entry = [ready |-> Words, val |-> Mine(p)]
    OBVIOUS
  <1> PICK at : at = IF entry.ready THEN "idle" ELSE "ready"
    OBVIOUS
  <1>1. /\ ppc[p] \in {"write", "ready"}
        /\ slot' = [slot EXCEPT ![At(ptail[p])] = entry]
        /\ ppc' = [ppc EXCEPT ![p] = at]
        /\ UNCHANGED <<kind, depth, head_, tail_, phead, ptail, pushes, cpc, cop, chead, ctail,
                       peeked, reserved, accepted, popped>>
    BY DEF WriteSlot, PGoto, consVars, history
  <1>2. Words \in BOOLEAN
    BY DEF Words
  <1>3. entry \in [ready : BOOLEAN, val : {Mine(p)}]
    BY <1>2
  <1>4. QED  BY <1>1, <1>3, FillSlot

\* SetBits leaves the value that the producer has just written.
LEMMA MarkReadyFills ==
  ASSUME IInv, NEW p \in Producer, MarkReady(p)
  PROVE  slot' = [slot EXCEPT ![At(ptail[p])] = [ready |-> TRUE, val |-> Mine(p)]]
  <1> PICK here, old : here = At(ptail[p]) /\ old = slot[here]
    OBVIOUS
  <1>1. /\ slot' = [slot EXCEPT ![here].ready = TRUE]
        /\ slot \in [0 .. depth - 1 -> [ready : BOOLEAN, val : Value \union {NoVal}]]
        /\ ptail[p] \in Nat /\ old.val = Mine(p)
    BY DEF MarkReady, IInv, TypeOK, Producing, ProducerSound
  <1>2. here \in 0 .. depth - 1
    BY <1>1, Places DEF IInv
  <1>3. old \in [ready : BOOLEAN, val : Value \union {NoVal}]
    BY <1>1, <1>2
  <1>4. [old EXCEPT !.ready = TRUE] = [ready |-> TRUE, val |-> old.val]
    BY <1>3, SetReady
  <1>5. QED  BY <1>1, <1>4

LEMMA MarkReadyStep ==
  ASSUME IInv, NEW p \in Producer, MarkReady(p)
  PROVE  IInv'
  <1> PICK entry : entry = [ready |-> TRUE, val |-> Mine(p)]
    OBVIOUS
  <1>1. /\ ppc[p] = "ready"
        /\ ppc' = [ppc EXCEPT ![p] = "idle"]
        /\ UNCHANGED <<kind, depth, head_, tail_, phead, ptail, pushes, cpc, cop, chead, ctail,
                       peeked, reserved, accepted, popped>>
    BY DEF MarkReady, PGoto, consVars, history
  <1>2. slot' = [slot EXCEPT ![At(ptail[p])] = entry]
    BY MarkReadyFills
  <1>3. /\ entry \in [ready : BOOLEAN, val : {Mine(p)}]
        /\ "idle" = IF entry.ready THEN "idle" ELSE "ready"
        /\ ppc[p] \in {"write", "ready"}
    BY <1>1
  <1>4. QED  BY <1>1, <1>2, <1>3, FillSlot

-----------------------------------------------------------------------------
(* The consumer's steps *)

\* The ticket a call is about, once its loads are done, is in the window.
LEMMA TargetInWindow ==
  ASSUME IInv, cpc \notin {"idle", "tail"},
         head_ < tail_ /\ Target < head_ + depth
  PROVE  /\ Target \in Window /\ Target \in Nat /\ Target < tail_ /\ head_ \in Window
         /\ First = head_ + (IF Moved /\ cop # "pop_back" THEN 1 ELSE 0)
         /\ cop # "pop_back" => Target = head_
         /\ cop = "pop_back" => Target = tail_ - 1
  BY Given DEF Target, Window, Consuming, First

\* A step of the consumer that moves nothing but its own locals.
LEMMA QuietStep ==
  ASSUME IInv,
         UNCHANGED <<kind, depth, head_, tail_, slot, ppc, phead, ptail, pushes, peeked,
                     reserved, accepted, popped>>,
         First' = First /\ Final' = Final,
         cpc = "advance" => cpc' = "advance" /\ Target' = Target,
         TypeOK', Consuming', Backs => cpc' = "idle" \/ \A p \in Producer : ppc[p] = "idle"
  PROVE  IInv'
  <1>1. /\ TypeOK /\ kind \in SoundKinds /\ Turns /\ Producing /\ Consuming /\ Slots /\ Ordered
        /\ Accepting /\ Peeking
    BY Given
  <1>2. /\ Words' = Words /\ Waits' = Waits /\ Errors' = Errors /\ Backs' = Backs
        /\ OneProd' = OneProd /\ (\A n : At(n)' = At(n))
        /\ \A v, w : Before(v, w)' = Before(v, w)
    BY SameKind
  <1>3. /\ \A n : /\ Free(n)' <=> Free(n)
                  /\ Refused(n)' <=> Refused(n)
                  /\ Ticket(n)' = Ticket(n)
        /\ \A v : Old(v)' <=> Old(v)
        /\ Live' = Live /\ Window' = Window /\ PoppedSet' = PoppedSet
    BY DEF Free, Refused, Holds, Holder, Ticket, Old, Live, Window, PoppedSet
  <1>4. Turns'
    BY <1>1, <1>2 DEF Turns
  <1>5. Producing'
    BY <1>1, <1>2, <1>3 DEF Producing, ProducerSound, Holder, Mine, At, Ticket
  <1>6. Slots'
    BY <1>1, <1>2, <1>3 DEF Slots
  <1>7. Ordered' /\ Accepting'
    BY <1>1, <1>2, <1>3 DEF Ordered, Accepting, Mine
  <1>8. Peeking'
    BY <1>1, <1>2, <1>3 DEF Peeking
  <1>9. QED
    BY <1>1, <1>4, <1>5, <1>6, <1>7, <1>8 DEF IInv

\* The step lemmas of pop, pop(), peek and pop_back.
LEMMA CallStep ==
  ASSUME IInv, NEW op \in {"pop", "drop", "peek", "pop_back"}, Call(op),
         op = "pop_back" => Backs, op = "drop" => ~Words
  PROVE  IInv'
  <1>1. /\ cpc = "idle" /\ MayPop
        /\ cop' = op /\ chead' = head_ /\ cpc' = "tail"
        /\ UNCHANGED <<kind, depth, head_, tail_, slot, ppc, phead, ptail, pushes, ctail, peeked,
                       reserved, accepted, popped>>
    BY DEF Call, ring, prodVars, history
  <1>2. First' = First /\ Final' = Final
    BY <1>1 DEF First, Final, Moved
  <1>3. TypeOK'
    BY <1>1 DEF IInv, TypeOK
  <1>4. Words' = Words /\ Backs' = Backs
    BY <1>1, SameKind
  <1>5. Consuming'
    BY <1>1, <1>4 DEF Consuming
  <1>6. Backs => \A p \in Producer : ppc[p] = "idle"
    BY <1>1, Given DEF MayPop, Idle
  <1>7. QED  BY <1>1, <1>2, <1>3, <1>5, <1>6, QuietStep

LEMMA LoadTailStep ==
  ASSUME IInv, LoadTail
  PROVE  IInv'
  <1>1. /\ cpc = "tail" /\ ctail' = tail_
        /\ cpc' = IF chead >= tail_ THEN "idle" ELSE "test"
        /\ UNCHANGED <<kind, depth, head_, tail_, slot, ppc, phead, ptail, pushes, cop, chead,
                       peeked, reserved, accepted, popped>>
    BY DEF LoadTail, ring, prodVars, history
  <1>2. TypeOK /\ Turns /\ Consuming /\ head_ \in Nat /\ tail_ \in Nat
    BY Given
  <1>3. First' = First /\ Final' = Final
    BY <1>1 DEF First, Final, Moved
  <1>4. TypeOK'
    BY <1>1, <1>2 DEF TypeOK
  <1>5. Words' = Words /\ Backs' = Backs
    BY <1>1, SameKind
  <1>6. Consuming'
    BY <1>1, <1>2, <1>5 DEF Consuming
  <1>7. Backs => \A p \in Producer : ppc[p] = "idle"
    BY <1>1, <1>2 DEF Turns
  <1>8. QED  BY <1>1, <1>3, <1>4, <1>6, <1>7, QuietStep

\* What the ready bit says to pop, peek and pop_back.
LEMMA ReadyTarget ==
  ASSUME IInv, cpc = "test", slot[At(Target)].ready
  PROVE  /\ head_ < tail_ /\ Target < head_ + depth /\ Target \in Live /\ Free(Target)
         /\ slot[At(Target)] = [ready |-> TRUE, val |-> Ticket(Target)]
         /\ First = head_ /\ Final = tail_
  <1> PICK t : t = Target
    OBVIOUS
  <1>1. /\ TypeOK /\ Turns /\ Producing /\ Consuming /\ Slots
        /\ head_ \in Nat /\ tail_ \in Nat /\ depth \in Nat \ {0}
        /\ head_ <= tail_
    BY Given DEF Ordered
  <1>2. First = head_ /\ Final = tail_ /\ Live = head_ .. tail_ - 1
    BY <1>1 DEF First, Final, Moved, Live
  <1>3. head_ \in Window
    BY <1>1 DEF Window
  <1>4. head_ < tail_ /\ t < head_ + depth /\ t \in Window /\ t < tail_ /\ Free(t)
    <2>1. CASE cop = "pop_back"
      <3>1. Backs /\ t = tail_ - 1 /\ head_ < tail_
        BY <1>1, <2>1 DEF Consuming, Target
      <3>2. \A p \in Producer : ppc[p] = "idle"
        BY <1>1, <3>1 DEF Turns
      <3>3. \A n : Free(n) /\ ~Refused(n)
        BY <3>2 DEF Free, Refused, Holds, Holder
      <3>4. t < head_ + depth
        <4>1. t \notin head_ + depth .. tail_ - 1
          BY <1>1, <3>3 DEF Slots
        <4>2. QED  BY <1>1, <3>1, <4>1
      <3>5. QED  BY <1>1, <3>1, <3>3, <3>4 DEF Window
    <2>2. CASE cop # "pop_back"
      <3>1. t = head_
        BY <1>1, <2>2 DEF Consuming, Target
      <3>2. ~(t >= tail_ \/ ~Free(t))
        BY <1>1, <1>3, <3>1 DEF Slots
      <3>3. QED  BY <1>1, <1>3, <3>1, <3>2
    <2>3. QED  BY <2>1, <2>2
  <1>5. slot[At(t)] = [ready |-> TRUE, val |-> Ticket(t)]
    BY <1>1, <1>4 DEF Slots
  <1>6. t \in Live
    BY <1>1, <1>2, <1>4 DEF Window
  <1>7. QED  BY <1>2, <1>4, <1>5, <1>6

\* The value leaves: what MoveValue and the end of pop() have in common.
LEMMA TakeStep ==
  ASSUME IInv, cpc \in {"test", "move"}, cop # "peek", Words => cop # "drop",
         head_ < tail_, Target < head_ + depth, Target \in Live, Free(Target),
         First = head_, Final = tail_,
         slot[At(Target)] = [ready |-> TRUE, val |-> Ticket(Target)],
         Take(slot[At(Target)].val), cpc' = "clear",
         UNCHANGED <<kind, depth, head_, tail_, slot, ppc, phead, ptail, pushes, cop, chead,
                     ctail, reserved, accepted>>
  PROVE  IInv'
  <1> PICK t : t = Target
    OBVIOUS
  <1> PICK val : val = Ticket(t)
    OBVIOUS
  <1>1. /\ cpc' = "clear"
        /\ popped' = Append(popped, val)
        /\ peeked' = IF peeked.tok = t THEN NoPeek ELSE peeked
        /\ UNCHANGED <<kind, depth, head_, tail_, slot, ppc, phead, ptail, pushes, cop, chead,
                       ctail, reserved, accepted>>
    BY DEF Take
  <1>2. /\ TypeOK /\ kind \in SoundKinds /\ Turns /\ Producing /\ Consuming /\ Slots /\ Ordered
        /\ Accepting /\ Peeking
        /\ head_ \in Nat /\ tail_ \in Nat /\ depth \in Nat \ {0} /\ Len(reserved) = tail_
        /\ \A n \in Live : n \in Nat /\ head_ <= n /\ n < tail_ /\ Ticket(n) \in Value
    BY Given
  <1>3. /\ Words' = Words /\ Waits' = Waits /\ Errors' = Errors /\ Backs' = Backs
        /\ OneProd' = OneProd /\ (\A n : At(n)' = At(n))
        /\ \A v, w : Before(v, w)' = Before(v, w)
    BY <1>1, SameKind
  <1>4. /\ t \in Live /\ t \in Nat /\ Free(t) /\ val \in Value /\ head_ < tail_
        /\ slot[At(t)] = [ready |-> TRUE, val |-> val]
        /\ cop = "pop_back" => Backs /\ t = tail_ - 1
        /\ cop # "pop_back" => t = head_
        /\ Target' = t
    BY <1>1, <1>2 DEF Consuming, Target
  <1>5. /\ First' = IF cop = "pop_back" THEN head_ ELSE head_ + 1
        /\ Final' = IF cop = "pop_back" THEN tail_ - 1 ELSE tail_
        /\ First = head_ /\ Final = tail_
    BY <1>1, <1>2 DEF First, Final, Moved
  <1>6. \A n : n \in Live' <=> n \in Live /\ n # t
    BY <1>2, <1>4, <1>5 DEF Live
  <1>7. /\ \A n : /\ Free(n)' <=> Free(n)
                  /\ Refused(n)' <=> Refused(n)
                  /\ Ticket(n)' = Ticket(n)
        /\ \A v : Old(v)' <=> Old(v)
        /\ Window' = Window
    BY <1>1 DEF Free, Refused, Holds, Holder, Ticket, Old, Window
  <1>8. /\ popped' \in Seq(Value) /\ Len(popped) \in Nat /\ Len(popped') = Len(popped) + 1
        /\ \A i \in 1 .. Len(popped) : popped'[i] = popped[i]
        /\ popped'[Len(popped) + 1] = val
    BY <1>1, <1>2, <1>4 DEF TypeOK
  <1>9. \A v : v \in PoppedSet' <=> v \in PoppedSet \/ v = val
    BY <1>8 DEF PoppedSet
  <1>10. TypeOK'
    <2>1. peeked' \in [tok : Nat, val : Value \union {NoVal}]
      BY <1>1, <1>2 DEF TypeOK, NoPeek
    <2>2. QED  BY <1>1, <1>2, <1>8, <2>1 DEF TypeOK
  <1>11. Turns'
    BY <1>1, <1>2, <1>3 DEF Turns
  <1>12. Producing'
    <2> SUFFICES ASSUME NEW p \in Producer  PROVE ProducerSound(p)'
      BY DEF Producing
    <2>1. ProducerSound(p)
      BY <1>2 DEF Producing
    <2>2. Holder(p) => ptail[p] \in Live'
      BY <1>4, <1>6, <2>1 DEF ProducerSound, Free, Holds
    <2>3. QED
      BY <1>1, <1>3, <2>1, <2>2 DEF ProducerSound, Holder, Mine, At, Ticket
  <1>13. Consuming'
    <2>1. Free(Target)' /\ slot[At(t)].ready /\ t < head_ + depth
      BY <1>1, <1>4 DEF Free, Holds, Holder
    <2>2. QED
      BY <1>1, <1>2, <1>3, <1>4, <2>1 DEF Consuming, At
  <1>14. Slots'
    BY <1>1, <1>2, <1>3, <1>7 DEF Slots
  <1>15. Ordered'
    <2>1. \A i \in 1 .. Len(popped') : Old(popped[i])'
      <3> SUFFICES ASSUME NEW i \in 1 .. Len(popped')  PROVE Old(popped'[i])
        BY <1>1 DEF Old
      <3>1. CASE i \in 1 .. Len(popped)
        BY <1>2, <1>8, <3>1 DEF Ordered
      <3>2. CASE i = Len(popped) + 1
        BY <1>2, <1>4, <1>8, <3>2 DEF Ordered
      <3>3. QED  BY <1>8, <3>1, <3>2
    <2>2. \A n \in Live' : Old(Ticket(n))'
      BY <1>2, <1>6, <1>7 DEF Ordered
    <2>3. ASSUME NEW i \in 1 .. Len(popped'), NEW j \in 1 .. Len(popped'), i < j
          PROVE  Before(popped'[i], popped'[j])
      <3>1. i \in 1 .. Len(popped) /\ popped'[i] = popped[i]
        BY <1>8, <2>3
      <3>2. CASE j \in 1 .. Len(popped)
        BY <1>2, <1>8, <2>3, <3>1, <3>2 DEF Ordered
      <3>3. CASE j = Len(popped) + 1
        BY <1>2, <1>4, <1>8, <3>1, <3>3 DEF Ordered
      <3>4. QED  BY <1>8, <3>2, <3>3
    <2>4. \A n, m \in Live' : n < m => Before(Ticket(n), Ticket(m))'
      BY <1>2, <1>3, <1>6, <1>7 DEF Ordered
    <2>5. ASSUME NEW i \in 1 .. Len(popped'), NEW n \in Live'
          PROVE  Before(popped'[i], Ticket(n))
      <3>1. n \in Live /\ n # t /\ n \in Nat /\ head_ <= n /\ n < tail_
        BY <1>2, <1>6
      <3>2. CASE i \in 1 .. Len(popped)
        BY <1>2, <1>8, <3>1, <3>2 DEF Ordered
      <3>3. CASE i = Len(popped) + 1
        <4>1. popped'[i] = val
          BY <1>8, <3>3
        <4>2. CASE cop = "pop_back"
          <5>1. Before(Ticket(n), val) /\ Backs
            BY <1>2, <1>4, <3>1, <4>2 DEF Ordered
          <5>2. QED  BY <4>1, <5>1 DEF Before
        <4>3. CASE cop # "pop_back"
          BY <1>2, <1>4, <3>1, <4>1, <4>3 DEF Ordered
        <4>4. QED  BY <4>2, <4>3
      <3>4. QED  BY <1>8, <3>2, <3>3
    <2>6. /\ \A i, j \in 1 .. Len(popped') : i < j => Before(popped[i], popped[j])'
          /\ \A i \in 1 .. Len(popped'), n \in Live' : Before(popped[i], Ticket(n))'
      BY <1>3, <1>7, <2>3, <2>5 DEF Before
    <2>7. QED
      BY <1>1, <1>2, <2>1, <2>2, <2>4, <2>6 DEF Ordered
  <1>16. Accepting'
    <2>1. val \in accepted
      <3>1. ~Refused(t)
        BY <1>4 DEF Free, Refused
      <3>2. QED  BY <1>2, <1>4, <3>1 DEF Accepting
    <2>2. \A v \in accepted : v \in PoppedSet' \/ \E n \in Live' : v = Ticket(n)'
      BY <1>2, <1>6, <1>7, <1>9 DEF Accepting
    <2>3. \A n \in Live' : Ticket(n)' \in accepted \/ Refused(n)'
      BY <1>2, <1>6, <1>7 DEF Accepting
    <2>4. QED
      BY <1>1, <1>2, <1>9, <2>1, <2>2, <2>3 DEF Accepting, Mine
  <1>17. Peeking'
    <2>1. ASSUME peeked' # NoPeek
          PROVE  /\ peeked' = peeked /\ peeked # NoPeek /\ peeked.tok = head_
                 /\ First' = head_ /\ head_ < Final' /\ Free(head_)'
                 /\ slot[At(head_)] = [ready |-> TRUE, val |-> peeked.val]
      <3>1. peeked' = peeked /\ peeked # NoPeek /\ peeked.tok # t
        BY <1>1, <2>1
      <3>2. /\ peeked.tok = head_ /\ Free(head_)
            /\ slot[At(head_)] = [ready |-> TRUE, val |-> peeked.val]
        BY <1>2, <3>1 DEF Peeking
      <3>3. head_ # t /\ cop = "pop_back" /\ t = tail_ - 1
        BY <1>4, <3>1, <3>2
      <3>4. First' = head_ /\ head_ < Final'
        BY <1>2, <1>4, <1>5, <3>3
      <3>5. QED  BY <1>1, <3>1, <3>2, <3>4 DEF Free, Holds, Holder
    <2>2. QED
      BY <1>1, <1>3, <2>1 DEF Peeking, At
  <1>18. QED
    BY <1>1, <1>2, <1>10, <1>11, <1>12, <1>13, <1>14, <1>15, <1>16, <1>17 DEF IInv

\* What pop and pop_back move is what the ticket was given out for.
LEMMA TargetToMove ==
  ASSUME IInv, cpc = "move"
  PROVE  /\ head_ < tail_ /\ Target < head_ + depth /\ Target \in Live /\ Free(Target)
         /\ slot[At(Target)] = [ready |-> TRUE, val |-> Ticket(Target)]
         /\ First = head_ /\ Final = tail_ /\ cop # "peek" /\ (Words => cop # "drop")
  <1> PICK t : t = Target
    OBVIOUS
  <1>1. /\ TypeOK /\ Slots /\ Consuming
        /\ head_ \in Nat /\ tail_ \in Nat /\ depth \in Nat \ {0}
    BY Given
  <1>2. /\ head_ < tail_ /\ t < head_ + depth /\ Free(t) /\ cop # "peek"
        /\ slot[At(t)].ready
        /\ Words => cop # "drop"
    BY <1>1 DEF Consuming
  <1>3. First = head_ /\ Final = tail_
    BY <1>1 DEF First, Final, Moved
  <1>4. t \in Window /\ t < tail_ /\ t \in Live
    BY <1>1, <1>2, <1>3 DEF Window, Target, Consuming, Live
  <1>5. slot[At(t)] = [ready |-> TRUE, val |-> Ticket(t)]
    BY <1>1, <1>2, <1>4 DEF Slots
  <1>6. QED  BY <1>2, <1>3, <1>4, <1>5

LEMMA MoveValueStep ==
  ASSUME IInv, MoveValue
  PROVE  IInv'
  <1>1. /\ cpc = "move" /\ Take(slot[At(Target)].val) /\ cpc' = "clear"
        /\ UNCHANGED <<kind, depth, head_, tail_, slot, ppc, phead, ptail, pushes, cop, chead,
                       ctail, reserved, accepted>>
    BY DEF MoveValue, ring, prodVars
  <1>2. QED  BY <1>1, TargetToMove, TakeStep

\* A peek that finds an entry.
LEMMA PeekStep ==
  ASSUME IInv, cpc = "test", cop = "peek", slot[At(Target)].ready,
         peeked' = [tok |-> Target, val |-> slot[At(Target)].val], cpc' = "idle",
         UNCHANGED <<kind, depth, head_, tail_, slot, ppc, phead, ptail, pushes, cop, chead,
                     ctail, reserved, accepted, popped>>
  PROVE  IInv'
  <1>1. /\ TypeOK /\ kind \in SoundKinds /\ Turns /\ Producing /\ Consuming /\ Slots /\ Ordered
        /\ Accepting
        /\ head_ \in Nat
        /\ \A n \in Live : n \in Nat /\ head_ <= n /\ n < tail_ /\ Ticket(n) \in Value
    BY Given
  <1>2. /\ head_ < tail_ /\ Free(head_) /\ Target = head_
        /\ slot[At(head_)] = [ready |-> TRUE, val |-> Ticket(head_)]
        /\ First = head_ /\ Final = tail_ /\ head_ \in Live
    BY <1>1, ReadyTarget DEF Target, Consuming
  <1>3. /\ Words' = Words /\ Waits' = Waits /\ Errors' = Errors /\ Backs' = Backs
        /\ OneProd' = OneProd /\ (\A n : At(n)' = At(n))
        /\ \A v, w : Before(v, w)' = Before(v, w)
    BY SameKind
  <1>4. /\ \A n : /\ Free(n)' <=> Free(n)
                  /\ Refused(n)' <=> Refused(n)
                  /\ Ticket(n)' = Ticket(n)
        /\ \A v : Old(v)' <=> Old(v)
        /\ First' = First /\ Final' = Final
        /\ Live' = Live /\ Window' = Window /\ PoppedSet' = PoppedSet
    BY <1>2 DEF Free, Refused, Holds, Holder, Ticket, Old, Live, Window, PoppedSet, First, Final,
                Moved
  <1>5. peeked' = [tok |-> head_, val |-> Ticket(head_)] /\ Ticket(head_) \in Value
    BY <1>1, <1>2
  <1>6. TypeOK'
    BY <1>1, <1>5 DEF TypeOK
  <1>7. Turns'
    BY <1>1, <1>3 DEF Turns
  <1>8. Producing'
    BY <1>1, <1>3, <1>4 DEF Producing, ProducerSound, Holder, Mine, At, Ticket
  <1>9. Consuming'
    BY <1>1, <1>3 DEF Consuming
  <1>10. Slots'
    BY <1>1, <1>3, <1>4 DEF Slots
  <1>11. Ordered' /\ Accepting'
    BY <1>1, <1>3, <1>4 DEF Ordered, Accepting, Mine
  <1>12. Peeking'
    BY <1>2, <1>3, <1>4, <1>5 DEF Peeking, At
  <1>13. QED
    BY <1>1, <1>6, <1>7, <1>8, <1>9, <1>10, <1>11, <1>12 DEF IInv

LEMMA TestReadyStep ==
  ASSUME IInv, TestReady
  PROVE  IInv'
  <1> PICK entry : entry = slot[At(Target)]
    OBVIOUS
  <1>1. /\ cpc = "test"
        /\ IF ~entry.ready \/ cop = "peek" THEN cpc' = "idle"
           ELSE cpc' = IF cop # "drop" THEN "move"
                       ELSE IF Words THEN "advance" ELSE "clear"
        /\ \/ entry.ready /\ cop = "drop" /\ Take(entry.val)
           \/ /\ entry.ready /\ cop = "peek"
              /\ peeked' = [tok |-> Target, val |-> entry.val]
              /\ UNCHANGED popped
           \/ /\ ~entry.ready \/ cop \notin {"drop", "peek"}
              /\ UNCHANGED <<peeked, popped>>
        /\ UNCHANGED <<kind, depth, head_, tail_, slot, ppc, phead, ptail, pushes, cop, chead,
                       ctail, reserved, accepted>>
    BY DEF TestReady, ring, prodVars
  <1>2. TypeOK /\ Turns /\ Consuming
    BY Given
  <1>3. Words' = Words /\ Backs' = Backs /\ Target' = Target
    BY <1>1, SameKind DEF Target
  <1>4. Backs => \A p \in Producer : ppc[p] = "idle"
    BY <1>1, <1>2 DEF Turns
  <1>5. CASE ~entry.ready
    <2>1. cpc' = "idle" /\ UNCHANGED <<peeked, popped>>
      BY <1>1, <1>5
    <2>2. First' = First /\ Final' = Final
      BY <1>1, <2>1 DEF First, Final, Moved
    <2>3. TypeOK'
      BY <1>1, <1>2, <2>1 DEF TypeOK
    <2>4. Consuming'
      BY <1>1, <1>2, <1>3, <2>1 DEF Consuming
    <2>5. QED  BY <1>1, <1>4, <2>1, <2>2, <2>3, <2>4, QuietStep
  <1>6. CASE entry.ready /\ cop = "peek"
    <2>1. cpc' = "idle" /\ peeked' = [tok |-> Target, val |-> entry.val] /\ UNCHANGED popped
      BY <1>1, <1>6
    <2>2. QED  BY <1>1, <1>6, <2>1, PeekStep
  <1>7. CASE entry.ready /\ cop = "drop"
    <2>1. cpc' = "clear" /\ Take(entry.val) /\ (Words => cop # "drop")
      BY <1>1, <1>2, <1>7 DEF Consuming
    <2>2. QED  BY <1>1, <1>7, <2>1, ReadyTarget, TakeStep
  <1>8. CASE entry.ready /\ cop \notin {"peek", "drop"}
    <2>1. cpc' = "move" /\ UNCHANGED <<peeked, popped>>
      BY <1>1, <1>8
    <2>2. First' = First /\ Final' = Final
      BY <1>1, <2>1 DEF First, Final, Moved
    <2>3. TypeOK'
      BY <1>1, <1>2, <2>1 DEF TypeOK
    <2>4. Consuming'
      <3>1. head_ < tail_ /\ Target < head_ + depth /\ Free(Target)
        BY <1>1, <1>8, ReadyTarget
      <3>2. Free(Target)'
        BY <1>1, <1>3, <3>1 DEF Free, Holds, Holder
      <3>3. QED
        BY <1>1, <1>2, <1>3, <1>8, <2>1, <3>1, <3>2 DEF Consuming, At
    <2>5. QED  BY <1>1, <1>4, <2>1, <2>2, <2>3, <2>4, QuietStep
  <1>9. QED  BY <1>5, <1>6, <1>7, <1>8

LEMMA ClearReadyStep ==
  ASSUME IInv, ClearReady
  PROVE  IInv'
  <1> PICK t : t = Target
    OBVIOUS
  <1> PICK here, old : here = At(t) /\ old = slot[here]
    OBVIOUS
  <1>1. /\ cpc = "clear" /\ cpc' = "advance"
        /\ slot' = [slot EXCEPT ![here].ready = FALSE]
        /\ UNCHANGED <<kind, depth, head_, tail_, ppc, phead, ptail, pushes, cop, chead, ctail,
                       peeked, reserved, accepted, popped>>
    BY DEF ClearReady, prodVars, history
  <1>2. /\ TypeOK /\ kind \in SoundKinds /\ Turns /\ Producing /\ Consuming /\ Slots /\ Ordered
        /\ Accepting /\ Peeking
        /\ head_ \in Nat /\ tail_ \in Nat /\ depth \in Nat \ {0}
        /\ First \in Nat /\ head_ <= First
        /\ \A n \in Live : n \in Nat /\ head_ <= n /\ n < tail_ /\ Ticket(n) \in Value
    BY Given
  <1>3. /\ Words' = Words /\ Waits' = Waits /\ Errors' = Errors /\ Backs' = Backs
        /\ OneProd' = OneProd /\ (\A n : At(n)' = At(n))
        /\ \A v, w : Before(v, w)' = Before(v, w)
    BY <1>1, SameKind
  <1>4. /\ head_ < tail_ /\ t < head_ + depth /\ Free(t) /\ cop # "peek"
        /\ t \in Window /\ t < tail_ /\ Target' = t /\ head_ \in Window
    BY <1>1, <1>2 DEF Consuming, Target, Window
  <1>5. /\ \A n : /\ Free(n)' <=> Free(n)
                  /\ Refused(n)' <=> Refused(n)
                  /\ Ticket(n)' = Ticket(n)
        /\ \A v : Old(v)' <=> Old(v)
        /\ First' = First /\ Final' = Final
        /\ Live' = Live /\ Window' = Window /\ PoppedSet' = PoppedSet
    BY <1>1 DEF Free, Refused, Holds, Holder, Ticket, Old, Live, Window, PoppedSet, First, Final,
                Moved
  <1>6. /\ ~slot'[At(t)].ready
        /\ \A n \in Window : n # t => slot'[At(n)] = slot[At(n)]
        /\ slot' \in [0 .. depth - 1 -> [ready : BOOLEAN, val : Value \union {NoVal}]]
    <2>1. /\ \A n \in Nat : At(n) \in 0 .. depth - 1
          /\ \A n, m \in Window : At(n) = At(m) => n = m
          /\ Window \subseteq Nat
      BY <1>2, Places
    <2>2. /\ slot \in [0 .. depth - 1 -> [ready : BOOLEAN, val : Value \union {NoVal}]]
          /\ here \in 0 .. depth - 1
      BY <1>2, <1>4, <2>1 DEF TypeOK
    <2>3. old \in [ready : BOOLEAN, val : Value \union {NoVal}]
      BY <2>2
    <2>4. [old EXCEPT !.ready = FALSE] = [ready |-> FALSE, val |-> old.val]
      BY <2>3, SetReady
    <2>5. slot' = [slot EXCEPT ![here] = [ready |-> FALSE, val |-> old.val]]
      BY <1>1, <2>4
    <2>6. ~slot'[At(t)].ready
      BY <2>2, <2>5
    <2>7. ASSUME NEW n \in Window, n # t  PROVE slot'[At(n)] = slot[At(n)]
      <3>1. At(n) \in 0 .. depth - 1 /\ At(n) # here
        BY <1>4, <2>1, <2>7
      <3>2. QED  BY <2>2, <2>5, <3>1
    <2>8. slot' \in [0 .. depth - 1 -> [ready : BOOLEAN, val : Value \union {NoVal}]]
      BY <2>2, <2>3, <2>5
    <2>9. QED  BY <2>6, <2>7, <2>8
  <1>7. TypeOK'
    BY <1>1, <1>2, <1>6 DEF TypeOK
  <1>8. Turns'
    BY <1>1, <1>2, <1>3 DEF Turns
  <1>9. Producing'
    <2> SUFFICES ASSUME NEW p \in Producer  PROVE ProducerSound(p)'
      BY DEF Producing
    <2>1. ProducerSound(p)
      BY <1>2 DEF Producing
    <2>2. ASSUME ppc[p] = "ready"  PROVE slot'[At(ptail[p])].val = Mine(p)
      <3>1. ptail[p] \in Window /\ ptail[p] # t
        BY <1>2, <1>4, <2>1, <2>2 DEF ProducerSound, Holder, Window, Free, Holds
      <3>2. QED  BY <1>6, <2>1, <2>2, <3>1 DEF ProducerSound
    <2>3. QED
      BY <1>1, <1>3, <1>5, <2>1, <2>2 DEF ProducerSound, Holder, Mine, At, Ticket
  <1>10. Consuming'
    <2>1. Free(Target)'
      BY <1>1, <1>4 DEF Free, Holds, Holder
    <2>2. QED
      BY <1>1, <1>2, <1>3, <1>4, <1>6, <2>1 DEF Consuming, At
  <1>11. Slots'
    <2>1. ASSUME NEW n \in Window, n >= tail_ \/ ~Free(n)  PROVE ~slot'[At(n)].ready
      BY <1>2, <1>6, <2>1 DEF Slots
    <2>2. ASSUME NEW n \in Window, n < tail_, Free(n)
          PROVE  slot'[At(n)] = [ready |-> TRUE, val |-> Ticket(n)] \/ n = t
      BY <1>1, <1>2, <1>6, <2>2 DEF Slots
    <2>3. QED
      BY <1>1, <1>2, <1>3, <1>4, <1>5, <2>1, <2>2 DEF Slots
  <1>12. Ordered' /\ Accepting'
    BY <1>1, <1>2, <1>3, <1>5 DEF Ordered, Accepting, Mine
  <1>13. Peeking'
    <2>1. ASSUME peeked # NoPeek
          PROVE  slot'[At(head_)] = slot[At(head_)] /\ Free(head_)'
      <3>1. First = head_ /\ head_ < Final /\ Free(head_)
        BY <1>2, <2>1 DEF Peeking
      <3>2. cop = "pop_back" /\ Final = tail_ - 1 /\ t = tail_ - 1
        BY <1>1, <1>2, <3>1 DEF First, Final, Moved, Target, Consuming
      <3>3. head_ # t
        BY <1>2, <3>1, <3>2
      <3>4. QED  BY <1>1, <1>4, <1>6, <3>1, <3>3 DEF Free, Holds, Holder
    <2>2. QED
      BY <1>1, <1>2, <1>3, <1>5, <2>1 DEF Peeking, At
  <1>14. QED
    BY <1>1, <1>2, <1>7, <1>8, <1>9, <1>10, <1>11, <1>12, <1>13 DEF IInv

\* head_.fetch_add(1): the window moves on by the slot that was cleared.
LEMMA PopAdvances ==
  ASSUME IInv, cpc = "advance", cop # "pop_back", head_' = head_ + 1, cpc' = "idle",
         UNCHANGED <<kind, depth, tail_, slot, ppc, phead, ptail, pushes, cop, chead, ctail,
                     peeked, reserved, accepted, popped>>
  PROVE  IInv'
  <1>1. /\ cpc = "advance" /\ cop # "pop_back" /\ head_' = head_ + 1 /\ cpc' = "idle"
        /\ UNCHANGED <<kind, depth, tail_, slot, ppc, phead, ptail, pushes, cop, chead, ctail,
                       peeked, reserved, accepted, popped>>
    OBVIOUS
  <1>2. /\ TypeOK /\ kind \in SoundKinds /\ Turns /\ Producing /\ Consuming /\ Slots /\ Ordered
        /\ Accepting /\ Peeking
        /\ head_ \in Nat /\ tail_ \in Nat /\ depth \in Nat \ {0}
        /\ Final \in Nat /\ Final <= tail_
        /\ \A n \in Live : n \in Nat /\ head_ <= n /\ n < tail_ /\ Ticket(n) \in Value
    BY Given
  <1>3. /\ Words' = Words /\ Waits' = Waits /\ Errors' = Errors /\ Backs' = Backs
        /\ OneProd' = OneProd /\ (\A n : At(n)' = At(n))
        /\ \A v, w : Before(v, w)' = Before(v, w)
    BY <1>1, SameKind
  <1>4. /\ Target = head_ /\ head_ < tail_ /\ ~slot[At(head_)].ready
        /\ First = head_ + 1 /\ First' = First /\ Final' = Final
    <2>1. Target = head_
      BY <1>1, <1>2 DEF Consuming, Target
    <2>2. head_ < tail_ /\ ~slot[At(head_)].ready
      BY <1>1, <1>2, <2>1 DEF Consuming
    <2>3. First = head_ + 1 /\ First' = First /\ Final' = Final
      BY <1>1, <1>2 DEF First, Final, Moved
    <2>4. QED  BY <2>1, <2>2, <2>3
  <1>5. /\ \A n : /\ Free(n)' <=> Free(n)
                  /\ Refused(n)' <=> Refused(n)
                  /\ Ticket(n)' = Ticket(n)
        /\ \A v : Old(v)' <=> Old(v)
        /\ Live' = Live /\ PoppedSet' = PoppedSet
    BY <1>1, <1>4 DEF Free, Refused, Holds, Holder, Ticket, Old, Live, PoppedSet
  <1>6. TypeOK'
    BY <1>1, <1>2 DEF TypeOK
  <1>7. Turns'
    BY <1>1, <1>2, <1>3 DEF Turns
  <1>8. Producing'
    <2> SUFFICES ASSUME NEW p \in Producer  PROVE ProducerSound(p)'
      BY DEF Producing
    <2>1. ProducerSound(p) /\ phead[p] \in Nat /\ ptail[p] \in Nat
      BY <1>2 DEF Producing, TypeOK
    <2>2. /\ phead[p] <= head_ + 1
          /\ ptail[p] < head_ + depth => ptail[p] < head_ + 1 + depth
      BY <1>2, <2>1 DEF ProducerSound
    <2>3. QED
      BY <1>1, <1>3, <1>5, <2>1, <2>2 DEF ProducerSound, Holder, Mine, At, Ticket
  <1>9. Consuming'
    BY <1>1, <1>2, <1>3 DEF Consuming
  <1>10. Slots'
    <2>1. ASSUME NEW n \in Window'  PROVE (n \in Window /\ n # head_) \/ n = head_ + depth
      BY <1>1, <1>2, <2>1 DEF Window
    <2>2. /\ ~slot[At(head_ + depth)].ready
          /\ head_ + depth < tail_ => ~Free(head_ + depth)
      <3>1. At(head_ + depth) = At(head_)
        BY <1>2, Places
      <3>2. head_ + depth < tail_ => head_ + depth \in head_ + depth .. tail_ - 1
        BY <1>2
      <3>3. \A n : Refused(n) => ~Free(n)
        BY DEF Refused, Free
      <3>4. QED  BY <1>2, <1>4, <3>1, <3>2, <3>3 DEF Slots
    <2>3. ASSUME NEW n \in Window', n >= tail_ \/ ~Free(n)  PROVE ~slot[At(n)].ready
      BY <1>2, <2>1, <2>2, <2>3 DEF Slots
    <2>4. ASSUME NEW n \in Window', n < tail_, Free(n)
          PROVE  slot[At(n)] = [ready |-> TRUE, val |-> Ticket(n)]
      BY <1>2, <1>4, <2>1, <2>2, <2>4 DEF Slots
    <2>5. \A n \in head_ + 1 + depth .. tail_ - 1 : Refused(n)
      BY <1>2 DEF Slots
    <2>6. QED
      BY <1>1, <1>3, <1>5, <2>3, <2>4, <2>5 DEF Slots
  <1>11. Ordered' /\ Accepting'
    BY <1>1, <1>2, <1>3, <1>4, <1>5 DEF Ordered, Accepting, Mine
  <1>12. Peeking'
    BY <1>1, <1>2, <1>4 DEF Peeking
  <1>13. QED
    BY <1>1, <1>2, <1>6, <1>7, <1>8, <1>9, <1>10, <1>11, <1>12 DEF IInv

\* tail_.fetch_sub(1): the last ticket is given back, with its slot cleared.
LEMMA BackAdvances ==
  ASSUME IInv, cpc = "advance", cop = "pop_back", tail_' = tail_ - 1, cpc' = "idle",
         reserved' = SubSeq(reserved, 1, tail_ - 1),
         UNCHANGED <<kind, depth, head_, slot, ppc, phead, ptail, pushes, cop, chead, ctail,
                     peeked, accepted, popped>>
  PROVE  IInv'
  <1> PICK last : last = tail_ - 1
    OBVIOUS
  <1>1. /\ cpc = "advance" /\ cop = "pop_back" /\ tail_' = last /\ cpc' = "idle"
        /\ reserved' = SubSeq(reserved, 1, last)
        /\ UNCHANGED <<kind, depth, head_, slot, ppc, phead, ptail, pushes, cop, chead, ctail,
                       peeked, accepted, popped>>
    OBVIOUS
  <1>2. /\ TypeOK /\ kind \in SoundKinds /\ Turns /\ Producing /\ Consuming /\ Slots /\ Ordered
        /\ Accepting /\ Peeking
        /\ head_ \in Nat /\ tail_ \in Nat /\ depth \in Nat \ {0} /\ Len(reserved) = tail_
        /\ \A n \in Live : n \in Nat /\ head_ <= n /\ n < tail_ /\ Ticket(n) \in Value
    BY Given
  <1>3. /\ Words' = Words /\ Waits' = Waits /\ Errors' = Errors /\ Backs' = Backs
        /\ OneProd' = OneProd /\ (\A n : At(n)' = At(n))
        /\ \A v, w : Before(v, w)' = Before(v, w)
    BY <1>1, SameKind
  <1>4. /\ Target = last /\ last \in Nat /\ head_ <= last /\ ~slot[At(last)].ready /\ Backs
        /\ First = head_ /\ Final = last /\ First' = First /\ Final' = Final
        /\ last < head_ + depth
        /\ \A p \in Producer : ppc[p] = "idle"
    <2>1. Target = last /\ head_ < tail_ /\ Backs
      BY <1>1, <1>2 DEF Consuming, Target
    <2>2. ~slot[At(last)].ready /\ last < head_ + depth
      BY <1>1, <1>2, <2>1 DEF Consuming
    <2>3. First = head_ /\ Final = last /\ First' = First /\ Final' = Final
      BY <1>1, <1>2 DEF First, Final, Moved
    <2>4. QED  BY <1>1, <1>2, <2>1, <2>2, <2>3 DEF Turns
  <1>5. /\ \A n : Free(n) /\ Free(n)' /\ ~Refused(n) /\ ~Refused(n)'
        /\ \A v : Old(v)' <=> Old(v)
        /\ Live' = Live /\ Window' = Window /\ PoppedSet' = PoppedSet
    BY <1>1, <1>4 DEF Free, Refused, Holds, Holder, Old, Live, Window, PoppedSet
  <1>6. /\ reserved' \in Seq(Value) /\ Len(reserved') = last
        /\ \A n \in 0 .. last - 1 : Ticket(n)' = Ticket(n)
    BY <1>1, <1>2, <1>4 DEF TypeOK, Ticket
  <1>7. \A n \in Live : Ticket(n)' = Ticket(n)
    <2> SUFFICES ASSUME NEW n \in Live  PROVE Ticket(n)' = Ticket(n)
      OBVIOUS
    <2>1. n \in 0 .. last - 1
      BY <1>2, <1>4 DEF Live
    <2>2. QED  BY <1>6, <2>1
  <1>8. TypeOK'
    BY <1>1, <1>2, <1>4, <1>6 DEF TypeOK
  <1>9. Turns'
    BY <1>1, <1>2, <1>3 DEF Turns
  <1>10. Producing'
    BY <1>1, <1>2, <1>4 DEF Producing, ProducerSound, Holder
  <1>11. Consuming'
    BY <1>1, <1>2, <1>3 DEF Consuming
  <1>12. Slots'
    <2>1. ASSUME NEW n \in Window, n >= last  PROVE ~slot[At(n)].ready
      <3>1. n = last \/ n >= tail_
        BY <1>2, <2>1 DEF Window
      <3>2. QED  BY <1>2, <1>4, <3>1 DEF Slots
    <2>2. ASSUME NEW n \in Window, n < last
          PROVE  slot[At(n)] = [ready |-> TRUE, val |-> Ticket(n)']
      <3>1. n < tail_ /\ n # Target /\ n \in 0 .. last - 1
        BY <1>2, <1>4, <2>2 DEF Window
      <3>2. slot[At(n)] = [ready |-> TRUE, val |-> Ticket(n)]
        BY <1>2, <1>5, <3>1 DEF Slots
      <3>3. QED  BY <1>6, <3>1, <3>2
    <2>3. \A n \in head_ + depth .. last - 1 : FALSE
      BY <1>2, <1>4
    <2>4. QED
      BY <1>1, <1>3, <1>5, <2>1, <2>2, <2>3 DEF Slots
  <1>13. Ordered'
    <2>1. \A n \in Live' : Old(Ticket(n))'
      BY <1>2, <1>5, <1>7 DEF Ordered
    <2>2. \A n, m \in Live' : n < m => Before(Ticket(n), Ticket(m))'
      BY <1>2, <1>3, <1>5, <1>7 DEF Ordered
    <2>3. \A i \in 1 .. Len(popped'), n \in Live' : Before(popped[i], Ticket(n))'
      BY <1>1, <1>2, <1>3, <1>5, <1>7 DEF Ordered
    <2>4. QED
      BY <1>1, <1>2, <1>3, <1>4, <1>5, <1>6, <2>1, <2>2, <2>3 DEF Ordered
  <1>14. Accepting'
    BY <1>1, <1>2, <1>4, <1>5, <1>7 DEF Accepting, Mine
  <1>15. Peeking'
    BY <1>1, <1>2, <1>3, <1>4, <1>5 DEF Peeking
  <1>16. QED
    BY <1>1, <1>2, <1>8, <1>9, <1>10, <1>11, <1>12, <1>13, <1>14, <1>15 DEF IInv

LEMMA AdvanceStep ==
  ASSUME IInv, Advance
  PROVE  IInv'
  <1>1. CASE cop = "pop_back"
    BY <1>1, BackAdvances DEF Advance, prodVars
  <1>2. CASE cop # "pop_back"
    BY <1>2, PopAdvances DEF Advance, prodVars
  <1>3. QED  BY <1>1, <1>2

-----------------------------------------------------------------------------
(* The invariant *)

LEMMA InitIInv ==
  ASSUME Kinds \subseteq SoundKinds, Init
  PROVE  IInv
  <1>1. /\ kind \in Kinds /\ kind \in SoundKinds /\ depth \in Nat \ {0}
        /\ head_ = 0 /\ tail_ = 0
        /\ slot = [i \in 0 .. depth - 1 |-> [ready |-> FALSE, val |-> NoVal]]
        /\ ppc = [p \in Producer |-> "idle"]
        /\ phead = [p \in Producer |-> 0] /\ ptail = [p \in Producer |-> 0]
        /\ pushes = [p \in Producer |-> 0]
        /\ cpc = "idle" /\ cop = "pop" /\ chead = 0 /\ ctail = 0
        /\ peeked = NoPeek
        /\ reserved = <<>> /\ accepted = {} /\ popped = <<>>
    BY RingAssumption DEF Init, Empty
  <1>2. TypeOK
    BY <1>1, RingAssumption DEF TypeOK, NoPeek
  <1>3. First = 0 /\ Final = 0 /\ Live = {}
    BY <1>1 DEF First, Final, Moved, Live
  <1>4. Turns /\ Producing /\ Consuming /\ Peeking
    BY <1>1 DEF Turns, Producing, ProducerSound, Holder, Consuming, Peeking
  <1>5. Slots
    <2>1. ASSUME NEW n \in Window  PROVE ~slot[At(n)].ready /\ n >= tail_
      <3>1. At(n) \in 0 .. depth - 1
        BY <1>2, Places
      <3>2. QED  BY <1>1, <3>1 DEF Window
    <2>2. \A n \in head_ + depth .. tail_ - 1 : FALSE
      BY <1>1
    <2>3. \A n \in Window : ~(n < tail_)
      BY <1>1 DEF Window
    <2>4. QED  BY <2>1, <2>2, <2>3 DEF Slots
  <1>6. Ordered /\ Accepting
    BY <1>1, <1>3 DEF Ordered, Accepting, PoppedSet
  <1>7. QED  BY <1>1, <1>2, <1>4, <1>5, <1>6 DEF IInv

LEMMA StutterIInv ==
  ASSUME IInv, UNCHANGED vars
  PROVE  IInv'
  <1>1. UNCHANGED <<kind, depth, head_, tail_, slot, ppc, phead, ptail, pushes, cpc, cop, chead,
                    ctail, peeked, reserved, accepted, popped>>
    BY DEF vars, ring, prodVars, consVars, history
  <1>2. /\ First' = First /\ Final' = Final /\ Target' = Target
        /\ Words' = Words /\ Backs' = Backs
    BY <1>1, SameKind DEF First, Final, Moved, Target
  <1>3. TypeOK' /\ TypeOK /\ Consuming /\ Turns
    BY <1>1, Given DEF TypeOK
  <1>4. Consuming'
    <2>1. Free(Target) => Free(Target)'
      BY <1>1, <1>2 DEF Free, Holds, Holder
    <2>2. QED  BY <1>1, <1>2, <1>3, <2>1 DEF Consuming, At
  <1>5. QED  BY <1>1, <1>2, <1>3, <1>4, QuietStep DEF Turns

LEMMA NextIInv ==
  ASSUME IInv, [Next]_vars
  PROVE  IInv'
  <1>1. kind \in SoundKinds
    BY DEF IInv
  <1>2. ASSUME NEW p \in Producer, LoadHead(p) \/ PStep(p)  PROVE IInv'
    BY <1>2, LoadHeadStep, DrawTicketStep, AwaitRoomStep, UndoStep, WriteSlotStep,
       MarkReadyStep DEF PStep
  <1>3. CASE Pop \/ Drop \/ Peek \/ Back
    BY <1>1, <1>3, CallStep DEF Pop, Drop, Peek, Back, Words, SoundKinds
  <1>4. CASE CStep
    BY <1>4, LoadTailStep, TestReadyStep, MoveValueStep, ClearReadyStep, AdvanceStep DEF CStep
  <1>5. CASE UNCHANGED vars
    BY <1>5, StutterIInv
  <1>6. QED  BY <1>2, <1>3, <1>4, <1>5 DEF Next

\* IInv is an invariant of every queue of SoundKinds, of any depth, with any producers.
THEOREM SafeIInv ==
  ASSUME Kinds \subseteq SoundKinds
  PROVE  Safe => []IInv
  <1>1. Init => IInv
    BY InitIInv
  <1>2. IInv /\ [Next]_vars => IInv'
    BY NextIInv
  <1>3. QED  BY <1>1, <1>2, PTL DEF Safe

-----------------------------------------------------------------------------
(* The properties *)

\* The indices, the slots and the locals of emplace and pop keep their types: tail_
\* never falls below zero by a fetch_sub (ring_queue.h:228, 318).
THEOREM SafeTypeOK ==
  ASSUME Kinds \subseteq SoundKinds
  PROVE  Safe => []TypeOK
  <1>1. IInv => TypeOK
    BY DEF IInv
  <1>2. QED  BY <1>1, SafeIInv, PTL

\* No value is popped twice or without having been accepted, and each producer's come
\* out in the order it pushed them (ring_queue.h:205-277).
THEOREM SafePoppedInOrder ==
  ASSUME Kinds \subseteq SoundKinds
  PROVE  Safe => []PoppedInOrder
  <1>1. IInv => PoppedInOrder
    BY DEF IInv, Accepting, Ordered, Before, PoppedInOrder
  <1>2. QED  BY <1>1, SafeIInv, PTL

\* Between calls the ring holds exactly what emplace accepted and nobody popped, ready
\* and in ticket order: an emplace that fails and a pop_back leave no trace.
THEOREM SafeQuiescentExact ==
  ASSUME Kinds \subseteq SoundKinds
  PROVE  Safe => []QuiescentExact
  <1>1. IInv => QuiescentExact
    <2> SUFFICES ASSUME IInv, Idle  PROVE Exact
      BY DEF QuiescentExact
    <2>1. /\ TypeOK /\ Slots /\ Ordered /\ Accepting
          /\ head_ \in Nat /\ tail_ \in Nat /\ depth \in Nat \ {0}
      BY Given
    <2>2. \A n : Free(n) /\ ~Refused(n)
      BY DEF Idle, Free, Refused, Holds, Holder
    <2>3. Live = head_ .. tail_ - 1 /\ cpc = "idle"
      BY <2>1 DEF Idle, Live, First, Final, Moved
    <2>4. ASSUME NEW n \in Live
          PROVE  slot[At(n)] = [ready |-> TRUE, val |-> Ticket(n)]
      <3>1. n \in Window
        <4>1. n \notin head_ + depth .. tail_ - 1
          BY <2>1, <2>2 DEF Slots
        <4>2. QED  BY <2>1, <2>3, <4>1 DEF Window
      <3>2. n < tail_
        BY <2>1, <2>3
      <3>3. QED  BY <2>1, <2>2, <2>3, <3>1, <3>2 DEF Slots
    <2>5. ASSUME NEW n \in Live  PROVE Ticket(n) \in accepted /\ Ticket(n) \notin PoppedSet
      <3>1. Ticket(n) \in accepted
        BY <2>1, <2>2 DEF Accepting
      <3>2. Ticket(n) \in Value
        BY Given
      <3>3. ASSUME NEW i \in 1 .. Len(popped), popped[i] = Ticket(n)  PROVE FALSE
        <4>1. Before(popped[i], Ticket(n))
          BY <2>1 DEF Ordered
        <4>2. Ticket(n)[2] \in Nat
          BY <3>2, RingAssumption DEF Value
        <4>3. QED  BY <3>3, <4>1, <4>2 DEF Before
      <3>4. QED  BY <3>1, <3>3 DEF PoppedSet
    <2>6. \A v \in accepted : v \in PoppedSet \/ \E n \in Live : v = Ticket(n)
      BY <2>1 DEF Accepting
    <2>7. QED  BY <2>3, <2>4, <2>5, <2>6 DEF Exact, Ticket
  <1>2. QED  BY <1>1, SafeIInv, PTL

\* The entry a peek returned stays in its slot until it is popped, however far the
\* producers get (ring_queue.h:213-230, 327-341).
THEOREM SafePeekStable ==
  ASSUME Kinds \subseteq SoundKinds
  PROVE  Safe => []PeekStable
  <1>1. IInv => PeekStable
    BY DEF IInv, Peeking, PeekStable
  <1>2. QED  BY <1>1, SafeIInv, PTL

-----------------------------------------------------------------------------
(* The reservation queue *)

Place     == [val : Value, full : BOOLEAN]
Filled(n) == n < head_ + depth /\ slot[At(n)].ready

\* What placesBar is, place by place.
Shaped ==
  /\ placesBar \in Seq(Place) /\ Len(placesBar) = Final - First
  /\ \A i \in 1 .. Final - First : /\ placesBar[i].val = Ticket(First + i - 1)
                                   /\ placesBar[i].full <=> Filled(First + i - 1)

\* The invariant gives the places their types.
LEMMA IInvShaped ==
  ASSUME IInv
  PROVE  Shaped
  <1>1. /\ TypeOK /\ head_ \in Nat /\ tail_ \in Nat /\ depth \in Nat \ {0}
        /\ First \in Nat /\ Final \in Nat /\ head_ <= First /\ First <= Final
        /\ \A n \in Live : n \in Nat /\ Ticket(n) \in Value
    BY Given
  <1>2. placesBar = [i \in 1 .. Final - First |-> [val  |-> Ticket(First + i - 1),
                                                   full |-> Filled(First + i - 1)]]
    BY <1>1 DEF placesBar, Ticket, Filled
  <1>3. ASSUME NEW i \in 1 .. Final - First
        PROVE  /\ Ticket(First + i - 1) \in Value
               /\ Filled(First + i - 1) \in BOOLEAN
    <2>1. First + i - 1 \in Live
      BY <1>1 DEF Live
    <2>2. QED  BY <1>1, <2>1 DEF Filled
  <1>4. \A i \in 1 .. Final - First : [val  |-> Ticket(First + i - 1),
                                       full |-> Filled(First + i - 1)] \in Place
    BY <1>3 DEF Place
  <1>5. Final - First \in Nat
    BY <1>1
  <1>6. placesBar \in Seq(Place) /\ Len(placesBar) = Final - First
    BY <1>2, <1>4, <1>5
  <1>7. \A i \in 1 .. Final - First : /\ placesBar[i].val = Ticket(First + i - 1)
                                      /\ placesBar[i].full <=> Filled(First + i - 1)
    BY <1>2
  <1>8. QED  BY <1>6, <1>7 DEF Shaped

\* Sequences of places are equal if their values and bits are.
LEMMA SamePlaces ==
  ASSUME NEW s \in Seq(Place), NEW t \in Seq(Place), Len(s) = Len(t),
         \A i \in 1 .. Len(s) : s[i].val = t[i].val /\ (s[i].full <=> t[i].full)
  PROVE  s = t
  <1>1. ASSUME NEW i \in 1 .. Len(s)  PROVE s[i] = t[i]
    <2>1. s[i] \in Place /\ t[i] \in Place
      OBVIOUS
    <2>2. s[i] = [val |-> s[i].val, full |-> s[i].full]
      BY <2>1 DEF Place
    <2>3. t[i] = [val |-> t[i].val, full |-> t[i].full]
      BY <2>1 DEF Place
    <2>4. s[i].full \in BOOLEAN /\ t[i].full \in BOOLEAN
      BY <2>1 DEF Place
    <2>5. s[i].full = t[i].full
      BY <2>4
    <2>6. QED  BY <2>2, <2>3, <2>5
  <1>2. QED  BY <1>1, SeqEqual

\* The conditions under which a step leaves the reservation queue alone.
LEMMA Stutters ==
  ASSUME IInv, Shaped, Shaped', First' = First, Final' = Final, UNCHANGED <<kind, depth, popped>>,
         \A n \in Live : Ticket(n)' = Ticket(n) /\ (Filled(n)' <=> Filled(n))
  PROVE  UNCHANGED RQ!vars
  <1>1. First \in Nat /\ Final \in Nat /\ First <= Final
    BY Given
  <1>2. ASSUME NEW i \in 1 .. Final - First
        PROVE  /\ placesBar'[i].val = placesBar[i].val
               /\ placesBar'[i].full <=> placesBar[i].full
    <2> PICK n : n = First + i - 1
      OBVIOUS
    <2>1. n \in Live
      BY <1>1 DEF Live
    <2>2. placesBar[i].val = Ticket(n) /\ (placesBar[i].full <=> Filled(n))
      BY DEF Shaped
    <2>3. placesBar'[i].val = Ticket(n)' /\ (placesBar'[i].full <=> Filled(n)')
      BY DEF Shaped, Ticket, Filled, At
    <2>4. QED  BY <2>1, <2>2, <2>3
  <1>3. /\ placesBar \in Seq(Place) /\ Len(placesBar) = Final - First
        /\ placesBar' \in Seq(Place) /\ Len(placesBar') = Final - First
    BY DEF Shaped
  <1>4. placesBar' = placesBar
    BY <1>2, <1>3, SamePlaces
  <1>5. Backs' = Backs
    BY SameKind
  <1>6. QED  BY <1>4, <1>5 DEF RQ!vars

\* What the mapping sees when the last place goes, and when the first goes.
LEMMA LastDropped ==
  ASSUME IInv, Shaped, Shaped', First' = First, Final' = Final - 1, First < Final,
         \A n \in Live' : Ticket(n)' = Ticket(n) /\ (Filled(n)' <=> Filled(n))
  PROVE  placesBar' = SubSeq(placesBar, 1, Len(placesBar) - 1)
  <1> PICK s : s = SubSeq(placesBar, 1, Len(placesBar) - 1)
    OBVIOUS
  <1>1. First \in Nat /\ Final \in Nat
    BY Given
  <1>2. /\ placesBar \in Seq(Place) /\ Len(placesBar) = Final - First
        /\ placesBar' \in Seq(Place) /\ Len(placesBar') = Final - 1 - First
    BY <1>1 DEF Shaped
  <1>3. s \in Seq(Place) /\ Len(s) = Final - 1 - First
        /\ \A i \in 1 .. Final - 1 - First : s[i] = placesBar[i]
    <2>1. PICK n : n = Len(placesBar) - 1
      OBVIOUS
    <2>2. n \in 0 .. Len(placesBar) /\ n = Final - 1 - First
      BY <1>1, <1>2, <2>1
    <2>3. s = SubSeq(placesBar, 1, n)
      BY <2>1
    <2>4. s \in Seq(Place) /\ Len(s) = n /\ \A i \in 1 .. n : s[i] = placesBar[i]
      BY <1>2, <2>2, <2>3, Shorter
    <2>5. QED  BY <2>2, <2>4
  <1>4. ASSUME NEW i \in 1 .. Final - 1 - First
        PROVE  /\ placesBar'[i].val = placesBar[i].val
               /\ placesBar'[i].full <=> placesBar[i].full
    <2> PICK n : n = First + i - 1
      OBVIOUS
    <2>1. n \in Live' /\ i \in 1 .. Final - First /\ i \in 1 .. Final' - First'
      BY <1>1 DEF Live
    <2>2. placesBar[i].val = Ticket(n) /\ (placesBar[i].full <=> Filled(n))
      BY <2>1 DEF Shaped
    <2>3. placesBar'[i].val = Ticket(n)' /\ (placesBar'[i].full <=> Filled(n)')
      <3>1. n = First' + i - 1
        OBVIOUS
      <3>2. (Shaped)' => /\ placesBar'[i].val = Ticket(First + i - 1)'
                         /\ placesBar'[i].full <=> Filled(First + i - 1)'
        BY <2>1 DEF Shaped
      <3>3. QED  BY <3>1, <3>2 DEF Ticket, Filled, At
    <2>4. QED  BY <2>1, <2>2, <2>3
  <1>5. Len(s) = Len(placesBar')
        /\ \A i \in 1 .. Len(s) : /\ s[i].val = placesBar'[i].val
                                  /\ s[i].full <=> placesBar'[i].full
    BY <1>2, <1>3, <1>4
  <1>6. s = placesBar'
    BY <1>2, <1>3, <1>5, SamePlaces
  <1>7. QED  BY <1>6

LEMMA FirstDropped ==
  ASSUME IInv, Shaped, Shaped', First' = First + 1, Final' = Final, First < Final,
         \A n \in Live' : Ticket(n)' = Ticket(n) /\ (Filled(n)' <=> Filled(n))
  PROVE  placesBar' = Tail(placesBar)
  <1> PICK s : s = Tail(placesBar)
    OBVIOUS
  <1>1. First \in Nat /\ Final \in Nat
    BY Given
  <1>2. /\ placesBar \in Seq(Place) /\ Len(placesBar) = Final - First /\ placesBar # <<>>
        /\ placesBar' \in Seq(Place) /\ Len(placesBar') = Final - 1 - First
    BY <1>1 DEF Shaped
  <1>3. s \in Seq(Place) /\ Len(s) = Final - 1 - First
        /\ \A i \in 1 .. Final - 1 - First : s[i] = placesBar[i + 1]
    BY <1>1, <1>2
  <1>4. ASSUME NEW i \in 1 .. Final - 1 - First
        PROVE  /\ placesBar'[i].val = placesBar[i + 1].val
               /\ placesBar'[i].full <=> placesBar[i + 1].full
    <2> PICK n : n = First + i
      OBVIOUS
    <2>1. n \in Live' /\ i + 1 \in 1 .. Final - First /\ n = First + (i + 1) - 1
          /\ i \in 1 .. Final' - First' /\ n = First' + i - 1
      BY <1>1 DEF Live
    <2>2. placesBar[i + 1].val = Ticket(n) /\ (placesBar[i + 1].full <=> Filled(n))
      BY <2>1 DEF Shaped
    <2>3. placesBar'[i].val = Ticket(n)' /\ (placesBar'[i].full <=> Filled(n)')
      BY <2>1 DEF Shaped, Ticket, Filled, At
    <2>4. QED  BY <2>1, <2>2, <2>3
  <1>5. Len(s) = Len(placesBar')
        /\ \A i \in 1 .. Len(s) : /\ s[i].val = placesBar'[i].val
                                  /\ s[i].full <=> placesBar'[i].full
    BY <1>2, <1>3, <1>4
  <1>6. s = placesBar'
    BY <1>2, <1>3, <1>5, SamePlaces
  <1>7. QED  BY <1>6

\* emplace's fetch_add reserves a place, with no value in it yet.
LEMMA DrawTicketReserves ==
  ASSUME IInv, Shaped, Shaped', NEW p \in Producer, DrawTicket(p)
  PROVE  RQ!Next
  <1> PICK mine : mine = Mine(p)
    OBVIOUS
  <1> PICK place : place = [val |-> mine, full |-> FALSE]
    OBVIOUS
  <1> PICK s : s = Append(placesBar, place)
    OBVIOUS
  <1> PICK new : new = tail_
    OBVIOUS
  <1>1. /\ ppc[p] = "draw" /\ tail_' = tail_ + 1
        /\ reserved' = Append(SubSeq(reserved, 1, tail_), mine)
        /\ UNCHANGED <<kind, depth, head_, slot, phead, pushes, cpc, cop, chead, ctail, peeked,
                       popped>>
    BY DEF DrawTicket, consVars
  <1>2. /\ TypeOK /\ Turns /\ Consuming /\ Slots /\ Producing
        /\ head_ \in Nat /\ tail_ \in Nat /\ depth \in Nat \ {0}
        /\ First \in Nat /\ Final \in Nat /\ head_ <= First /\ First <= Final
        /\ Len(reserved) = tail_
        /\ \A n \in Live : n \in Nat /\ head_ <= n /\ n < tail_ /\ Ticket(n) \in Value
    BY Given
  <1>3. mine \in Value
    <2>1. pushes[p] \in 0 .. MaxPush /\ pushes[p] > 0
      BY <1>1, <1>2 DEF TypeOK, Producing, ProducerSound
    <2>2. pushes[p] \in 1 .. MaxPush
      BY <2>1, RingAssumption
    <2>3. QED  BY <2>2 DEF Value, Mine
  <1>4. First' = First /\ Final = tail_ /\ Final' = tail_ + 1
    BY <1>1, <1>2 DEF First, Final, Moved, Turns, Consuming
  <1>5. /\ \A n \in 0 .. tail_ - 1 : Ticket(n)' = Ticket(n)
        /\ \A n : n = new => Ticket(n)' = mine
    <2>1. SubSeq(reserved, 1, tail_) = reserved
      BY <1>2 DEF TypeOK
    <2>2. reserved' = Append(reserved, mine) /\ reserved \in Seq(Value)
      BY <1>1, <1>2, <2>1 DEF TypeOK
    <2>3. QED  BY <1>2, <1>3, <2>2 DEF Ticket
  <1>6. \A n : Filled(n)' <=> Filled(n)
    BY <1>1 DEF Filled, At
  <1>7. \A n : n = new => ~Filled(n)
    <2> SUFFICES ASSUME Filled(new)  PROVE FALSE
      BY DEF Filled, At
    <2>1. new \in Window /\ new >= tail_ /\ slot[At(new)].ready
      BY <1>2, <1>4 DEF Filled, Window
    <2>2. QED  BY <1>2, <2>1 DEF Slots
  <1>8. /\ placesBar \in Seq(Place) /\ Len(placesBar) = Final - First /\ place \in Place
        /\ placesBar' \in Seq(Place) /\ Len(placesBar') = Final + 1 - First
    <2>1. place \in Place
      BY <1>3 DEF Place
    <2>2. Len(placesBar') = Final' - First' /\ Final' = Final + 1
      BY <1>4 DEF Shaped
    <2>3. QED  BY <1>2, <1>4, <2>1, <2>2 DEF Shaped
  <1>9. /\ s \in Seq(Place) /\ Len(s) = Final + 1 - First
        /\ \A i \in 1 .. Final - First : s[i] = placesBar[i]
        /\ s[Final + 1 - First] = place
    <2>1. /\ s \in Seq(Place) /\ Len(s) = Len(placesBar) + 1
          /\ \A i \in 1 .. Len(placesBar) : s[i] = placesBar[i]
          /\ s[Len(placesBar) + 1] = place
      BY <1>8, AppendProperties
    <2>2. Len(placesBar) = Final - First /\ Len(placesBar) + 1 = Final + 1 - First
      BY <1>2, <1>8
    <2>3. QED  BY <2>1, <2>2
  <1>10. ASSUME NEW i \in 1 .. Final + 1 - First
         PROVE  placesBar'[i].val = s[i].val /\ (placesBar'[i].full <=> s[i].full)
    <2> PICK n : n = First + i - 1
      OBVIOUS
    <2>1. placesBar'[i].val = Ticket(n)' /\ (placesBar'[i].full <=> Filled(n)')
      <3>1. i \in 1 .. Final' - First' /\ n = First' + i - 1
        BY <1>2, <1>4
      <3>2. QED  BY <3>1 DEF Shaped, Ticket, Filled, At
    <2>2. CASE i \in 1 .. Final - First
      <3>1. n \in 0 .. tail_ - 1
        BY <1>2, <1>4, <2>2
      <3>2. placesBar[i].val = Ticket(n) /\ (placesBar[i].full <=> Filled(n))
        BY <2>2 DEF Shaped
      <3>3. QED  BY <1>5, <1>6, <1>9, <2>1, <2>2, <3>1, <3>2
    <2>3. CASE i = Final + 1 - First
      <3>1. n = new
        BY <1>2, <1>4, <2>3
      <3>2. QED  BY <1>5, <1>6, <1>7, <1>9, <2>1, <2>3, <3>1
    <2>4. i \in 1 .. Final - First \/ i = Final + 1 - First
      BY <1>2
    <2>5. QED  BY <2>2, <2>3, <2>4
  <1>11. placesBar' = s
    BY <1>8, <1>9, <1>10, SamePlaces
  <1>12. Backs' = Backs
    BY <1>1, SameKind
  <1>13. QED  BY <1>1, <1>3, <1>11, <1>12 DEF RQ!Next, RQ!Reserve

\* emplace's fetch_sub cancels the last place.
LEMMA UndoCancels ==
  ASSUME IInv, Shaped, Shaped', NEW p \in Producer, Undo(p)
  PROVE  RQ!Next
  <1> PICK last : last = tail_ - 1
    OBVIOUS
  <1>1. /\ ppc[p] = "undo" /\ tail_' = last /\ reserved' = SubSeq(reserved, 1, last)
        /\ UNCHANGED <<kind, depth, head_, slot, cpc, cop, popped>>
    BY DEF Undo, consVars
  <1>2. /\ TypeOK /\ Turns /\ Producing /\ Consuming /\ Slots
        /\ head_ \in Nat /\ tail_ \in Nat /\ depth \in Nat \ {0}
        /\ First \in Nat /\ Final \in Nat /\ head_ <= First /\ First <= Final
        /\ Len(reserved) = tail_
        /\ \A n \in Live : n \in Nat /\ head_ <= n /\ n < tail_
        /\ Errors => Backs \/ OneProd
    BY Given
  <1>3. /\ last \in Live /\ ~Free(last) /\ last \in Nat
        /\ Backs => cpc = "idle"
    <2>1. Errors /\ ptail[p] \in Live /\ ptail[p] = last
      BY <1>1, <1>2 DEF Producing, ProducerSound, Holder
    <2>2. ~Free(last)
      BY <1>1, <2>1 DEF Free, Holds, Holder
    <2>3. QED  BY <1>1, <1>2, <2>1, <2>2 DEF Turns
  <1>4. First' = First /\ Final = tail_ /\ Final' = Final - 1 /\ First < Final
    BY <1>1, <1>2, <1>3 DEF First, Final, Moved, Consuming, Live
  <1>5. \A n \in Live' : Ticket(n)' = Ticket(n) /\ (Filled(n)' <=> Filled(n))
    <2>1. \A n : Filled(n)' <=> Filled(n)
      BY <1>1 DEF Filled, At
    <2>2. reserved \in Seq(Value)
      BY <1>2 DEF TypeOK
    <2>3. ASSUME NEW n \in Live'  PROVE Ticket(n)' = Ticket(n)
      <3>1. n \in 0 .. last - 1
        BY <1>2, <1>3, <1>4 DEF Live
      <3>2. QED  BY <1>1, <1>2, <1>3, <2>2, <3>1 DEF Ticket
    <2>4. QED  BY <2>1, <2>3
  <1>6. placesBar' = SubSeq(placesBar, 1, Len(placesBar) - 1)
    BY <1>4, <1>5, LastDropped
  <1>7. ~Filled(last)
    <2> SUFFICES ASSUME Filled(last)  PROVE FALSE
      OBVIOUS
    <2>1. last \in Window /\ slot[At(last)].ready
      BY <1>2, <1>3 DEF Filled, Window
    <2>2. QED  BY <1>2, <1>3, <2>1 DEF Slots
  <1>8. placesBar # <<>> /\ ~placesBar[Len(placesBar)].full
    <2>1. /\ Len(placesBar) = Final - First /\ Final - First \in 1 .. Final - First
          /\ last = First + (Final - First) - 1 /\ placesBar \in Seq(Place)
      BY <1>2, <1>4 DEF Shaped
    <2>2. placesBar[Final - First].full <=> Filled(last)
      BY <2>1 DEF Shaped
    <2>3. QED  BY <1>2, <1>7, <2>1, <2>2
  <1>9. Backs' = Backs
    BY <1>1, SameKind
  <1>10. QED  BY <1>1, <1>6, <1>8, <1>9 DEF RQ!Next, RQ!Cancel, RQ!Last

LEMMA SetFull ==
  ASSUME NEW bit \in BOOLEAN, NEW r \in Place
  PROVE  [r EXCEPT !.full = bit] = [val |-> r.val, full |-> bit]
  BY DEF Place

\* What publishing place i does to every place.
Fills(q, i, s) == s = [q EXCEPT ![i].full = TRUE]

LEMMA FillSeq ==
  ASSUME NEW q \in Seq(Place), NEW i \in 1 .. Len(q), NEW s, Fills(q, i, s)
  PROVE  /\ s \in Seq(Place) /\ Len(s) = Len(q)
         /\ \A j \in 1 .. Len(q) : /\ s[j].val = q[j].val
                                   /\ s[j].full <=> j = i \/ q[j].full
  <1> PICK place : place = [q[i] EXCEPT !.full = TRUE]
    OBVIOUS
  <1>1. q[i] \in Place
    OBVIOUS
  <1>2. place = [val |-> q[i].val, full |-> TRUE]
    BY <1>1, SetFull
  <1>3. place \in Place
    BY <1>1, <1>2 DEF Place
  <1>4. s = [q EXCEPT ![i] = place]
    BY DEF Fills
  <1>5. /\ s \in Seq(Place) /\ Len(s) = Len(q)
        /\ \A j \in 1 .. Len(q) : s[j] = IF j = i THEN place ELSE q[j]
    BY <1>3, <1>4, ExceptSeq
  <1>6. QED  BY <1>2, <1>5

\* The write that makes an entry ready publishes it; one that does not is invisible.
LEMMA FillPublishes ==
  ASSUME IInv, Shaped, Shaped', NEW p \in Producer, ppc[p] \in {"write", "ready"},
         NEW entry \in [ready : BOOLEAN, val : {Mine(p)}],
         slot' = [slot EXCEPT ![At(ptail[p])] = entry],
         UNCHANGED <<kind, depth, head_, tail_, cpc, cop, reserved, popped>>
  PROVE  RQ!Next \/ UNCHANGED RQ!vars
  <1> PICK here : here = ptail[p]
    OBVIOUS
  <1>1. /\ TypeOK /\ Producing /\ Slots
        /\ head_ \in Nat /\ tail_ \in Nat /\ depth \in Nat \ {0}
        /\ First \in Nat /\ Final \in Nat /\ head_ <= First /\ First <= Final
        /\ \A n \in Live : n \in Nat /\ head_ <= n /\ n < tail_
    BY Given
  <1>2. here \in Live /\ here < head_ + depth /\ here \in Window /\ ~Free(here)
    <2>1. here \in Live /\ here < head_ + depth /\ ~Free(here)
      BY <1>1 DEF Producing, ProducerSound, Holder, Free, Holds
    <2>2. QED  BY <1>1, <2>1 DEF Window
  <1>3. First' = First /\ Final' = Final /\ Backs' = Backs /\ \A n : Ticket(n)' = Ticket(n)
    BY SameKind DEF First, Final, Moved, Ticket
  <1>4. /\ ~Filled(here)
        /\ \A n : n = here => (Filled(n)' <=> entry.ready)
        /\ \A n \in Live : n # here => (Filled(n)' <=> Filled(n))
    <2>1. /\ \A n \in Nat : At(n) \in 0 .. depth - 1
          /\ \A n, m \in Window : At(n) = At(m) => n = m
      BY <1>1, Places
    <2>2. /\ slot \in [0 .. depth - 1 -> [ready : BOOLEAN, val : Value \union {NoVal}]]
          /\ slot' = [slot EXCEPT ![At(here)] = entry] /\ At(here) \in 0 .. depth - 1
      BY <1>1, <1>2, <2>1 DEF TypeOK
    <2>3. ~slot[At(here)].ready
      BY <1>1, <1>2 DEF Slots
    <2>4. ASSUME NEW n \in Live, n # here  PROVE Filled(n)' <=> Filled(n)
      <3>1. CASE n < head_ + depth
        <4>1. n \in Window /\ At(n) \in 0 .. depth - 1
          BY <1>1, <2>1, <3>1 DEF Window
        <4>2. At(n) # At(here)
          BY <1>2, <2>1, <2>4, <4>1
        <4>3. slot'[At(n)] = slot[At(n)]
          BY <2>2, <4>1, <4>2
        <4>4. QED  BY <4>3 DEF Filled, At
      <3>2. CASE ~(n < head_ + depth)
        BY <3>2 DEF Filled
      <3>3. QED  BY <3>1, <3>2
    <2>5. slot'[At(here)] = entry
      BY <2>2
    <2>6. QED  BY <1>2, <2>3, <2>4, <2>5 DEF Filled, At
  <1>5. CASE ~entry.ready
    BY <1>3, <1>4, <1>5, Stutters
  <1>6. CASE entry.ready
    <2> PICK i : i = here - First + 1
      OBVIOUS
    <2> PICK s : Fills(placesBar, i, s)
      BY DEF Fills
    <2>1. /\ i \in 1 .. Final - First /\ i <= depth /\ here = First + i - 1
      BY <1>1, <1>2 DEF Live
    <2>2. /\ placesBar \in Seq(Place) /\ Len(placesBar) = Final - First
          /\ placesBar' \in Seq(Place) /\ Len(placesBar') = Final - First
      BY <1>3 DEF Shaped
    <2>3. ~placesBar[i].full
      BY <1>4, <2>1, <2>2 DEF Shaped
    <2>4. /\ s \in Seq(Place) /\ Len(s) = Final - First
          /\ \A j \in 1 .. Final - First : /\ s[j].val = placesBar[j].val
                                           /\ s[j].full <=> j = i \/ placesBar[j].full
      <3>1. PICK q : q = placesBar
        OBVIOUS
      <3>2. q \in Seq(Place) /\ Len(q) = Final - First /\ i \in 1 .. Len(q) /\ Fills(q, i, s)
        BY <2>1, <2>2, <3>1
      <3>3. /\ s \in Seq(Place) /\ Len(s) = Len(q)
            /\ \A j \in 1 .. Len(q) : /\ s[j].val = q[j].val
                                      /\ s[j].full <=> j = i \/ q[j].full
        BY <3>2, FillSeq
      <3>4. QED  BY <3>1, <3>2, <3>3
    <2>5. ASSUME NEW j \in 1 .. Final - First
          PROVE  placesBar'[j].val = s[j].val /\ (placesBar'[j].full <=> s[j].full)
      <3> PICK n : n = First + j - 1
        OBVIOUS
      <3>1. n \in Live /\ (n = here <=> j = i)
        BY <1>1, <2>1 DEF Live
      <3>2. placesBar'[j].val = Ticket(n)' /\ (placesBar'[j].full <=> Filled(n)')
        BY <1>3 DEF Shaped, Ticket, Filled, At
      <3>3. placesBar[j].val = Ticket(n) /\ (placesBar[j].full <=> Filled(n))
        BY DEF Shaped
      <3>4. QED  BY <1>3, <1>4, <1>6, <2>4, <3>1, <3>2, <3>3
    <2>6. placesBar' = s
      BY <2>2, <2>4, <2>5, SamePlaces
    <2>7. RQ!Publish(i)
      BY <1>3, <2>1, <2>3, <2>6 DEF RQ!Publish, Fills
    <2>8. QED
      BY <1>3, <2>1, <2>2, <2>7 DEF RQ!Next, RQ!Last
  <1>7. QED  BY <1>5, <1>6

\* Moving a value out takes the first place, or the last for pop_back.
LEMMA TakeTakes ==
  ASSUME IInv, Shaped, Shaped', cpc \in {"test", "move"},
         Target < head_ + depth, Target \in Live, First = head_, Final = tail_,
         slot[At(Target)] = [ready |-> TRUE, val |-> Ticket(Target)],
         Take(slot[At(Target)].val), cpc' = "clear",
         UNCHANGED <<kind, depth, head_, tail_, slot, cop, reserved>>
  PROVE  RQ!Next
  <1> PICK t : t = Target
    OBVIOUS
  <1>1. /\ Consuming /\ head_ \in Nat /\ tail_ \in Nat /\ First <= Final
        /\ \A n \in Live : n \in Nat /\ head_ <= n /\ n < tail_
    BY Given
  <1>2. /\ t \in Live /\ t \in Nat /\ head_ <= t /\ t < tail_ /\ Filled(t)
        /\ popped' = Append(popped, Ticket(t))
        /\ cop = "pop_back" => Backs /\ t = tail_ - 1
        /\ cop # "pop_back" => t = head_
    BY <1>1 DEF Consuming, Target, Take, Filled
  <1>3. /\ \A n : Ticket(n)' = Ticket(n) /\ (Filled(n)' <=> Filled(n))
        /\ Backs' = Backs
        /\ First' = IF cop = "pop_back" THEN First ELSE First + 1
        /\ Final' = IF cop = "pop_back" THEN Final - 1 ELSE Final
        /\ First < Final
    BY <1>1, <1>2, SameKind DEF Ticket, Filled, At, First, Final, Moved
  <1>4. placesBar \in Seq(Place) /\ Len(placesBar) = Final - First /\ placesBar # <<>>
    BY <1>1, <1>3 DEF Shaped
  <1>5. CASE cop = "pop_back"
    <2>1. placesBar' = SubSeq(placesBar, 1, Len(placesBar) - 1)
      BY <1>3, <1>5, LastDropped
    <2>2. Final - First \in 1 .. Final - First /\ t = First + (Final - First) - 1
      BY <1>1, <1>2, <1>3, <1>5
    <2>3. placesBar[Final - First].val = Ticket(t) /\ (placesBar[Final - First].full <=> Filled(t))
      BY <2>2 DEF Shaped
    <2>4. QED
      BY <1>2, <1>3, <1>4, <1>5, <2>1, <2>3 DEF RQ!Next, RQ!TakeBack, RQ!Last
  <1>6. CASE cop # "pop_back"
    <2>1. placesBar' = Tail(placesBar)
      BY <1>3, <1>6, FirstDropped
    <2>2. 1 \in 1 .. Final - First /\ t = First + 1 - 1
      BY <1>1, <1>2, <1>3, <1>6
    <2>3. placesBar[1].val = Ticket(t) /\ (placesBar[1].full <=> Filled(t))
      BY <2>2 DEF Shaped
    <2>4. QED  BY <1>2, <1>3, <1>4, <2>1, <2>3 DEF RQ!Next, RQ!Take
  <1>7. QED  BY <1>5, <1>6

\* The steps of a producer, seen from the reservation queue.
LEMMA PStepSimulates ==
  ASSUME IInv, Shaped, Shaped', NEW p \in Producer, LoadHead(p) \/ PStep(p)
  PROVE  RQ!Next \/ UNCHANGED RQ!vars
  <1>1. CASE LoadHead(p) \/ AwaitRoom(p)
    <2>1. UNCHANGED <<kind, depth, head_, tail_, slot, cpc, cop, reserved, popped>>
      BY <1>1 DEF LoadHead, AwaitRoom, ring, consVars, history
    <2>2. /\ First' = First /\ Final' = Final
          /\ \A n : Ticket(n)' = Ticket(n) /\ (Filled(n)' <=> Filled(n))
      BY <2>1 DEF First, Final, Moved, Ticket, Filled, At
    <2>3. QED  BY <2>1, <2>2, Stutters
  <1>2. CASE DrawTicket(p)
    BY <1>2, DrawTicketReserves
  <1>3. CASE Undo(p)
    BY <1>3, UndoCancels
  <1>4. CASE WriteSlot(p)
    <2> PICK entry : entry = [ready |-> Words, val |-> Mine(p)]
      OBVIOUS
    <2>1. /\ ppc[p] \in {"write", "ready"}
          /\ slot' = [slot EXCEPT ![At(ptail[p])] = entry]
          /\ UNCHANGED <<kind, depth, head_, tail_, cpc, cop, reserved, popped>>
      BY <1>4 DEF WriteSlot, consVars, history
    <2>2. Words \in BOOLEAN
      BY DEF Words
    <2>3. entry \in [ready : BOOLEAN, val : {Mine(p)}]
      BY <2>2
    <2>4. QED  BY <2>1, <2>3, FillPublishes
  <1>5. CASE MarkReady(p)
    <2> PICK entry : entry = [ready |-> TRUE, val |-> Mine(p)]
      OBVIOUS
    <2>1. /\ ppc[p] \in {"write", "ready"} /\ entry \in [ready : BOOLEAN, val : {Mine(p)}]
          /\ slot' = [slot EXCEPT ![At(ptail[p])] = entry]
          /\ UNCHANGED <<kind, depth, head_, tail_, cpc, cop, reserved, popped>>
      BY <1>5, MarkReadyFills DEF MarkReady, consVars, history
    <2>2. QED  BY <2>1, FillPublishes
  <1>6. QED  BY <1>1, <1>2, <1>3, <1>4, <1>5 DEF PStep

\* The steps of the consumer, seen from the reservation queue.
LEMMA ClearReadyStutters ==
  ASSUME IInv, Shaped, Shaped', ClearReady
  PROVE  UNCHANGED RQ!vars
  <1> PICK t : t = Target
    OBVIOUS
  <1>1. /\ cpc = "clear" /\ cpc' = "advance"
        /\ slot' = [slot EXCEPT ![At(t)].ready = FALSE]
        /\ UNCHANGED <<kind, depth, head_, tail_, cop, reserved, popped>>
    BY DEF ClearReady, prodVars, history
  <1>2. /\ TypeOK /\ Consuming /\ head_ \in Nat /\ tail_ \in Nat /\ depth \in Nat \ {0}
        /\ First \in Nat /\ Final \in Nat
        /\ \A n \in Live : n \in Nat /\ head_ <= n /\ n < tail_
    BY Given
  <1>3. t \in Window /\ t \notin Live
    BY <1>1, <1>2 DEF Consuming, Target, Window, Live, First, Final, Moved
  <1>4. /\ First' = First /\ Final' = Final /\ \A n : Ticket(n)' = Ticket(n)
    BY <1>1 DEF First, Final, Moved, Ticket
  <1>5. ASSUME NEW n \in Live  PROVE Filled(n)' <=> Filled(n)
    <2>1. /\ \A m \in Nat : At(m) \in 0 .. depth - 1
          /\ \A m, k \in Window : At(m) = At(k) => m = k
          /\ Window \subseteq Nat
      BY <1>2, Places
    <2>2. slot \in [0 .. depth - 1 -> [ready : BOOLEAN, val : Value \union {NoVal}]]
      BY <1>2 DEF TypeOK
    <2>3. CASE n < head_ + depth
      <3>1. n \in Window /\ At(n) \in 0 .. depth - 1 /\ At(n) # At(t)
        BY <1>2, <1>3, <2>1, <2>3 DEF Window
      <3>2. slot'[At(n)] = slot[At(n)]
        BY <1>1, <2>2, <3>1
      <3>3. QED  BY <1>1, <3>2 DEF Filled, At
    <2>4. CASE ~(n < head_ + depth)
      BY <1>1, <2>4 DEF Filled
    <2>5. QED  BY <2>3, <2>4
  <1>6. QED  BY <1>1, <1>4, <1>5, Stutters

LEMMA AdvanceStutters ==
  ASSUME IInv, Shaped, Shaped', Advance
  PROVE  UNCHANGED RQ!vars
  <1>1. cpc = "advance" /\ cpc' = "idle" /\ UNCHANGED <<kind, depth, slot, cop, popped>>
    BY DEF Advance
  <1>2. /\ TypeOK /\ Consuming /\ Slots /\ head_ \in Nat /\ tail_ \in Nat /\ depth \in Nat \ {0}
        /\ First \in Nat /\ Final \in Nat /\ Len(reserved) = tail_
        /\ \A n \in Live : n \in Nat /\ head_ <= n /\ n < tail_
    BY Given
  <1>3. CASE cop = "pop_back"
    <2>1. head_' = head_ /\ tail_' = tail_ - 1 /\ reserved' = SubSeq(reserved, 1, tail_ - 1)
      BY <1>3 DEF Advance
    <2>2. First' = First /\ Final' = Final /\ Final = tail_ - 1 /\ First = head_
      BY <1>1, <1>2, <1>3, <2>1 DEF First, Final, Moved
    <2>3. ASSUME NEW n \in Live  PROVE Ticket(n)' = Ticket(n)
      <3>1. n \in 0 .. tail_ - 2 /\ reserved \in Seq(Value)
        BY <1>2, <2>2 DEF Live, TypeOK
      <3>2. QED  BY <1>2, <2>1, <3>1 DEF Ticket
    <2>4. \A n : Filled(n)' <=> Filled(n)
      BY <1>1, <2>1 DEF Filled, At
    <2>5. QED  BY <1>1, <2>2, <2>3, <2>4, Stutters
  <1>4. CASE cop # "pop_back"
    <2>1. head_' = head_ + 1 /\ UNCHANGED <<tail_, reserved>>
      BY <1>4 DEF Advance
    <2>2. First' = First /\ Final' = Final /\ First = head_ + 1
      BY <1>1, <1>2, <1>4, <2>1 DEF First, Final, Moved
    <2>3. ~slot[At(head_ + depth)].ready
      <3>1. Target = head_ /\ ~slot[At(Target)].ready
        BY <1>1, <1>2, <1>4 DEF Consuming, Target
      <3>2. At(head_ + depth) = At(head_)
        BY <1>2, Places
      <3>3. QED  BY <3>1, <3>2
    <2>4. ASSUME NEW n \in Live  PROVE Filled(n)' <=> Filled(n)
      <3>1. n < head_ + 1 + depth <=> n < head_ + depth \/ n = head_ + depth
        BY <1>2
      <3>2. Filled(n)' <=> n < head_ + 1 + depth /\ slot[At(n)].ready
        BY <1>1, <2>1 DEF Filled, At
      <3>3. QED  BY <2>3, <3>1, <3>2 DEF Filled
    <2>5. \A n : Ticket(n)' = Ticket(n)
      BY <2>1 DEF Ticket
    <2>6. QED  BY <1>1, <2>2, <2>4, <2>5, Stutters
  <1>5. QED  BY <1>3, <1>4

LEMMA TestReadySimulates ==
  ASSUME IInv, Shaped, Shaped', TestReady
  PROVE  RQ!Next \/ UNCHANGED RQ!vars
  <1> PICK entry : entry = slot[At(Target)]
    OBVIOUS
  <1>1. /\ cpc = "test" /\ UNCHANGED <<kind, depth, head_, tail_, slot, cop, reserved>>
        /\ IF ~entry.ready \/ cop = "peek" THEN cpc' = "idle"
           ELSE cpc' = IF cop # "drop" THEN "move"
                       ELSE IF Words THEN "advance" ELSE "clear"
        /\ \/ entry.ready /\ cop = "drop" /\ Take(entry.val)
           \/ ~(entry.ready /\ cop = "drop") /\ UNCHANGED popped
    BY DEF TestReady, ring
  <1>2. CASE entry.ready /\ cop = "drop"
    <2>1. cpc' = "clear" /\ Take(entry.val)
      BY <1>1, <1>2, Given DEF Consuming
    <2>2. QED  BY <1>1, <1>2, <2>1, ReadyTarget, TakeTakes
  <1>3. CASE ~(entry.ready /\ cop = "drop")
    <2>1. cpc' \in {"idle", "move"} /\ UNCHANGED popped
      BY <1>1, <1>3
    <2>2. /\ First' = First /\ Final' = Final
          /\ \A n : Ticket(n)' = Ticket(n) /\ (Filled(n)' <=> Filled(n))
      BY <1>1, <2>1 DEF First, Final, Moved, Ticket, Filled, At
    <2>3. QED  BY <1>1, <2>1, <2>2, Stutters
  <1>4. QED  BY <1>2, <1>3

LEMMA MoveValueTakes ==
  ASSUME IInv, Shaped, Shaped', MoveValue
  PROVE  RQ!Next
  <1>1. /\ cpc = "move" /\ Take(slot[At(Target)].val) /\ cpc' = "clear"
        /\ UNCHANGED <<kind, depth, head_, tail_, slot, cop, reserved>>
    BY DEF MoveValue, ring
  <1>2. QED  BY <1>1, TargetToMove, TakeTakes

LEMMA NextSimulates ==
  ASSUME IInv, Shaped, Shaped', [Next]_vars
  PROVE  [RQ!Next]_RQ!vars
  <1>1. ASSUME NEW p \in Producer, LoadHead(p) \/ PStep(p)
        PROVE  RQ!Next \/ UNCHANGED RQ!vars
    BY <1>1, PStepSimulates
  <1>2. CASE \/ UNCHANGED vars
             \/ Pop \/ Drop \/ Peek \/ Back \/ LoadTail
    <2>1. UNCHANGED <<kind, depth, head_, tail_, slot, reserved, popped>>
      BY <1>2 DEF Pop, Drop, Peek, Back, Call, LoadTail, vars, ring, prodVars, consVars, history
    <2>2. (cpc' = cpc /\ cop' = cop) \/ (~Moved /\ ~Moved')
      BY <1>2 DEF Pop, Drop, Peek, Back, Call, LoadTail, vars, consVars, Moved
    <2>3. /\ First' = First /\ Final' = Final
          /\ \A n : Ticket(n)' = Ticket(n) /\ (Filled(n)' <=> Filled(n))
      BY <2>1, <2>2 DEF First, Final, Moved, Ticket, Filled, At
    <2>4. QED  BY <2>1, <2>3, Stutters
  <1>3. CASE TestReady
    BY <1>3, TestReadySimulates
  <1>4. CASE MoveValue
    BY <1>4, MoveValueTakes
  <1>5. CASE ClearReady
    BY <1>5, ClearReadyStutters
  <1>6. CASE Advance
    BY <1>6, AdvanceStutters
  <1>7. QED  BY <1>1, <1>2, <1>3, <1>4, <1>5, <1>6 DEF Next, CStep

\* The ring implements the reservation queue: drawing a ticket reserves a place, the
\* ready bit publishes it, fetch_sub cancels it, and a value is taken when it is moved
\* out; every other step of emplace, pop, peek and pop_back is invisible.
THEOREM Refinement ==
  ASSUME Kinds \subseteq SoundKinds
  PROVE  Safe => ImplementsReservation
  <1>1. Init => RQ!Init
    <2> SUFFICES ASSUME Init  PROVE RQ!Init
      OBVIOUS
    <2>1. First = 0 /\ Final = 0 /\ popped = <<>> /\ depth \in Nat \ {0}
      BY RingAssumption DEF Init, First, Final, Moved
    <2>2. placesBar = <<>>
      <3>1. IInv
        BY InitIInv
      <3>2. placesBar \in Seq(Place) /\ Len(placesBar) = 0
        BY <2>1, <3>1, IInvShaped DEF Shaped
      <3>3. QED  BY <3>2
    <2>3. Backs \in BOOLEAN
      BY DEF Backs
    <2>4. QED  BY <2>1, <2>2, <2>3 DEF RQ!Init
  <1>2. IInv => Shaped
    BY IInvShaped
  <1>3. IInv /\ Shaped /\ Shaped' /\ [Next]_vars => [RQ!Next]_RQ!vars
    BY NextSimulates
  <1>4. QED  BY <1>1, <1>2, <1>3, SafeIInv, PTL DEF Safe, ImplementsReservation, RQ!Safe
=============================================================================
