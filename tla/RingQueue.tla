----------------------------- MODULE RingQueue ------------------------------
(***************************************************************************)
(* ring_queue_base (data_structures/ipc/ring_queue.h): a ring of Depth     *)
(* slots, producers that draw tickets from tail_ and one consumer that     *)
(* owns head_.  One action is one access to shared memory.                 *)
(*                                                                         *)
(* The template flags make the queue types apart: kind is the type in use  *)
(* and the way it is used, chosen at the start from Kinds.  The resize of  *)
(* ext_ring_buffer is in ExtRingBuffer.  "locked" and "deque" are the      *)
(* fixed and the waiting queue with one thread at a time in a call, who    *)
(* may also pop_back: ticket_queue has the first under its mutex, and a    *)
(* single-threaded program uses either.  "mpsc_ptr_queue" is               *)
(* ring_ptr_queue_base (ring_ptr_queue.h): a slot is one word with the     *)
(* ready bit inside; "dropped_ptr_queue" also calls its pop().             *)
(*                                                                         *)
(* head_ and tail_ are 64-bit and never wrap here; a difference that would *)
(* wrap counts as a full queue, as the huge number does.  The ready bit is *)
(* a plain word in the code: the accesses of a thread take effect in       *)
(* program order here, which x86 does and C++ does not promise.            *)
(* MaxPush bounds the calls of emplace per producer.                       *)
(***************************************************************************)
EXTENDS Naturals, Sequences, FiniteSets

CONSTANTS Producer, Kinds, Depths, MaxPush

ASSUME RingAssumption ==
  /\ Kinds \subseteq {"mpsc_queue", "fixed_spsc_queue", "fixed_mpsc_queue",
                      "circular_spsc_queue", "ext_ring_buffer", "locked", "deque",
                      "mpsc_ptr_queue", "dropped_ptr_queue"}
  /\ Depths \subseteq Nat \ {0}
  /\ MaxPush \in Nat

\* The value of the n-th emplace of producer p is <<p, n>>.
Value  == Producer \X (1 .. MaxPush)
NoVal  == <<"none", 0>>
NoPeek == [tok |-> 0, val |-> NoVal]

VARIABLES
  kind,       \* the type of the queue; it never changes
  depth,      \* queue_.size()
  head_, tail_,
  slot,       \* slot[i]: the pair (ready bit, value) of the vector
  ppc,        \* ppc[p]: where producer p is in emplace
  phead,      \* phead[p], ptail[p]: its locals head and tail
  ptail,
  pushes,     \* pushes[p]: how many calls of emplace p has begun
  cpc,        \* where the consumer is in pop, pop(), peek or pop_back
  cop,        \* which of the four it calls
  chead, ctail,
  peeked,     \* the entry a peek returned, until it is popped
  reserved,   \* history: reserved[i] is the value with ticket i - 1
  accepted,   \* history: the values emplace found room for
  popped      \* history: the values the consumer took, in order

prodVars == <<ppc, phead, ptail, pushes>>
consVars == <<cpc, cop, chead, ctail, peeked>>
ring     == <<kind, depth, head_, tail_, slot>>
history  == <<reserved, accepted, popped>>
vars     == <<ring, prodVars, consVars, history>>

Words   == kind \in {"mpsc_ptr_queue", "dropped_ptr_queue"}
Waits   == kind \in {"mpsc_queue", "deque"} \/ Words             \* WaitForSpace
Errors  == kind \in {"fixed_spsc_queue", "fixed_mpsc_queue", "locked"}
Grows   == kind = "ext_ring_buffer"                              \* DynamicSize
Backs   == kind \in {"locked", "deque"}                           \* calls pop_back
Overlap == kind \notin {"locked", "deque", "ext_ring_buffer"}
OneProd == kind \in {"fixed_spsc_queue", "circular_spsc_queue"}

At(n)   == n % depth
Mine(p) == <<p, pushes[p]>>
Idle    == cpc = "idle" /\ \A p \in Producer : ppc[p] = "idle"
MayPop  == Overlap \/ Idle
MayPush == /\ Overlap \/ Idle
           /\ OneProd => \A p \in Producer : ppc[p] = "idle"
Empty(d) == [i \in 0 .. d - 1 |-> [ready |-> FALSE, val |-> NoVal]]

TypeOK ==
  /\ kind \in Kinds
  /\ depth \in Nat \ {0} /\ head_ \in Nat /\ tail_ \in Nat
  /\ slot \in [0 .. depth - 1 -> [ready : BOOLEAN, val : Value \union {NoVal}]]
  /\ ppc \in [Producer ->
              {"idle", "draw", "room", "undo", "resize", "write", "ready"}]
  /\ phead \in [Producer -> Nat] /\ ptail \in [Producer -> Nat]
  /\ pushes \in [Producer -> 0 .. MaxPush]
  /\ cpc \in {"idle", "tail", "test", "move", "clear", "advance"}
  /\ cop \in {"pop", "drop", "peek", "pop_back"}
  /\ chead \in Nat /\ ctail \in Nat
  /\ peeked \in [tok : Nat, val : Value \union {NoVal}]
  /\ reserved \in Seq(Value)
  /\ accepted \subseteq Value
  /\ popped \in Seq(Value)

Init ==
  /\ kind \in Kinds /\ depth \in Depths
  /\ head_ = 0 /\ tail_ = 0
  /\ slot = Empty(depth)
  /\ ppc = [p \in Producer |-> "idle"]
  /\ phead = [p \in Producer |-> 0] /\ ptail = [p \in Producer |-> 0]
  /\ pushes = [p \in Producer |-> 0]
  /\ cpc = "idle" /\ cop = "pop" /\ chead = 0 /\ ctail = 0
  /\ peeked = NoPeek
  /\ reserved = <<>> /\ accepted = {} /\ popped = <<>>

-----------------------------------------------------------------------------
(* emplace *)

PGoto(p, label) == ppc' = [ppc EXCEPT ![p] = label]

\* head = head_.load(): before the ticket is drawn, so it may be old by then.
LoadHead(p) ==
  /\ ppc[p] = "idle" /\ pushes[p] < MaxPush /\ MayPush
  /\ pushes' = [pushes EXCEPT ![p] = @ + 1]
  /\ phead' = [phead EXCEPT ![p] = head_]
  /\ PGoto(p, "draw")
  /\ UNCHANGED <<ring, ptail, consVars, history>>

FullByOne(tail, head) == tail > head + depth   \* tail - head > size

\* tail - head + 1 > size, in unsigned arithmetic.
Full(tail, head) == head > tail + 1 \/ tail + 1 > head + depth

Accept(p) == accepted' = accepted \union {Mine(p)}

\* tail = tail_.fetch_add(1), and the test on the two locals that follows it.
DrawTicket(p) ==
  /\ ppc[p] = "draw"
  /\ ptail' = [ptail EXCEPT ![p] = tail_]
  /\ tail_' = tail_ + 1
  /\ reserved' = Append(SubSeq(reserved, 1, tail_), Mine(p))
  /\ IF Full(tail_, phead[p]) /\ (Waits \/ Errors \/ Grows)
       THEN /\ PGoto(p, IF Waits THEN "room" ELSE IF Errors THEN "undo" ELSE "resize")
            /\ UNCHANGED accepted
       ELSE /\ PGoto(p, "write")
            /\ Accept(p)
  /\ UNCHANGED <<kind, depth, head_, slot, phead, pushes, consVars, popped>>

\* The loop of WaitForSpace: reload head_ until the ticket fits.
AwaitRoom(p) ==
  /\ ppc[p] = "room" /\ ~Full(ptail[p], head_)
  /\ phead' = [phead EXCEPT ![p] = head_]
  /\ PGoto(p, "write")
  /\ Accept(p)
  /\ UNCHANGED <<ring, ptail, pushes, consVars, reserved, popped>>

UndoNothing(p) ==              \* ErrorOnNoSpace without tail_.fetch_sub(1)
  /\ ppc[p] = "undo"
  /\ PGoto(p, "idle")
  /\ UNCHANGED <<ring, phead, ptail, pushes, consVars, history>>

\* ErrorOnNoSpace: tail_.fetch_sub(1), and the null token to the caller.
Undo(p) ==
  /\ ppc[p] = "undo"
  /\ tail_' = tail_ - 1
  /\ reserved' = SubSeq(reserved, 1, tail_ - 1)
  /\ PGoto(p, "idle")
  /\ UNCHANGED <<kind, depth, head_, slot, phead, ptail, pushes, consVars, accepted,
                 popped>>

ReadyBeforeWrite(p) ==         \* the ready bit set with the old value still there
  /\ ppc[p] = "write"
  /\ slot' = [slot EXCEPT ![At(ptail[p])].ready = TRUE]
  /\ PGoto(p, "ready")
  /\ UNCHANGED <<kind, depth, head_, tail_, phead, ptail, pushes, consVars,
                 history>>

\* vector::replace constructs a new pair in place: its bits start at 0.  A
\* word has its bit set already (Mark) and the call is over.
WriteSlot(p) ==
  /\ ppc[p] = "write"
  /\ slot' = [slot EXCEPT ![At(ptail[p])] = [ready |-> Words, val |-> Mine(p)]]
  /\ PGoto(p, IF Words THEN "idle" ELSE "ready")
  /\ UNCHANGED <<kind, depth, head_, tail_, phead, ptail, pushes, consVars,
                 history>>

\* entry.GetFirst().SetBits(1), and the token to the caller.
MarkReady(p) ==
  /\ ppc[p] = "ready"
  /\ slot' = [slot EXCEPT ![At(ptail[p])].ready = TRUE]
  /\ PGoto(p, "idle")
  /\ UNCHANGED <<kind, depth, head_, tail_, phead, ptail, pushes, consVars,
                 history>>

-----------------------------------------------------------------------------
(* pop(val), pop() (here "drop"), peek and pop_back: the same two loads,   *)
(* then different ends.                                                    *)

Call(op) ==
  /\ cpc = "idle" /\ MayPop
  /\ cop' = op
  /\ chead' = head_
  /\ cpc' = "tail"
  /\ UNCHANGED <<ring, prodVars, ctail, peeked, history>>

LoadTail ==
  /\ cpc = "tail"
  /\ ctail' = tail_
  /\ cpc' = IF chead >= tail_ THEN "idle" ELSE "test"
  /\ UNCHANGED <<ring, prodVars, cop, chead, peeked, history>>

\* The ticket the call is about: the last one for pop_back, else the first.
Target == IF cop = "pop_back" THEN ctail - 1 ELSE chead

TestAnything ==                \* pop that does not look at the ready bit
  /\ cpc = "test"
  /\ cpc' = IF cop = "peek" THEN "idle" ELSE "move"
  /\ UNCHANGED <<ring, prodVars, cop, chead, ctail, peeked, history>>

Take(val) ==
  /\ popped' = Append(popped, val)
  /\ peeked' = IF peeked.tok = Target THEN NoPeek ELSE peeked

\* A peek ends here with a pointer to the entry, pop() discards the entry, in
\* a queue of words without clearing its bit, and the others go on to take it.
TestReady ==
  LET entry == slot[At(Target)]
  IN  /\ cpc = "test"
      /\ IF ~entry.ready \/ cop = "peek" THEN cpc' = "idle"
         ELSE cpc' = IF cop # "drop" THEN "move"
                     ELSE IF Words THEN "advance" ELSE "clear"
      /\ \/ entry.ready /\ cop = "drop" /\ Take(entry.val)
         \/ /\ entry.ready /\ cop = "peek"
            /\ peeked' = [tok |-> Target, val |-> entry.val]
            /\ UNCHANGED popped
         \/ /\ ~entry.ready \/ cop \notin {"drop", "peek"}
            /\ UNCHANGED <<peeked, popped>>
      /\ UNCHANGED <<ring, prodVars, cop, chead, ctail, reserved, accepted>>

\* val = std::move(entry.GetSecond())
MoveValue ==
  /\ cpc = "move"
  /\ Take(slot[At(Target)].val)
  /\ cpc' = "clear"
  /\ UNCHANGED <<ring, prodVars, cop, chead, ctail, reserved, accepted>>

ClearNothing ==                \* pop that leaves the ready bit set
  /\ cpc = "clear"
  /\ cpc' = "advance"
  /\ UNCHANGED <<ring, prodVars, cop, chead, ctail, peeked, history>>

ClearReady ==
  /\ cpc = "clear"
  /\ slot' = [slot EXCEPT ![At(Target)].ready = FALSE]
  /\ cpc' = "advance"
  /\ UNCHANGED <<kind, depth, head_, tail_, prodVars, cop, chead, ctail, peeked,
                 history>>

AdvanceNothing ==              \* pop without head_.fetch_add(1)
  /\ cpc = "advance"
  /\ cpc' = "idle"
  /\ UNCHANGED <<ring, prodVars, cop, chead, ctail, peeked, history>>

\* head_.fetch_add(1), or tail_.fetch_sub(1) for pop_back.
Advance ==
  /\ cpc = "advance"
  /\ IF cop = "pop_back"
       THEN /\ tail_' = tail_ - 1
            /\ reserved' = SubSeq(reserved, 1, tail_ - 1)
            /\ UNCHANGED head_
       ELSE head_' = head_ + 1 /\ UNCHANGED <<tail_, reserved>>
  /\ cpc' = "idle"
  /\ UNCHANGED <<kind, depth, slot, prodVars, cop, chead, ctail, peeked, accepted,
                 popped>>

-----------------------------------------------------------------------------
PStep(p) == DrawTicket(p) \/ AwaitRoom(p) \/ Undo(p) \/ WriteSlot(p)
            \/ MarkReady(p)
CStep    == LoadTail \/ TestReady \/ MoveValue \/ ClearReady \/ Advance
Drop     == kind # "mpsc_ptr_queue" /\ Call("drop")
Peek     == ~Words /\ Call("peek")
Back     == Backs /\ Call("pop_back")
Pop      == Call("pop")

Next == \/ \E p \in Producer : LoadHead(p) \/ PStep(p)
        \/ Pop \/ Drop \/ Peek \/ Back \/ CStep

Safe == Init /\ [][Next]_vars

(***************************************************************************)
(* Threads inside a call are scheduled, and the consumer polls: it calls   *)
(* pop again and again, whatever else it calls: strong fairness on Pop.    *)
(***************************************************************************)
Fairness == /\ \A p \in Producer : WF_vars(PStep(p))
            /\ WF_vars(CStep) /\ SF_vars(Pop)

Spec == Safe /\ Fairness

-----------------------------------------------------------------------------
(* Properties *)

PoppedSet == {popped[i] : i \in 1 .. Len(popped)}

(***************************************************************************)
(* No value is popped twice, none is popped that emplace did not accept,   *)
(* and the values of one producer come out in the order it pushed them     *)
(* (ring_queue.h:205-277), unless pop_back takes from the other end.       *)
(***************************************************************************)
PoppedInOrder ==
  /\ PoppedSet \subseteq accepted
  /\ \A i, j \in 1 .. Len(popped) :
       i < j /\ popped[i][1] = popped[j][1] =>
         IF Backs THEN popped[i] # popped[j] ELSE popped[i][2] < popped[j][2]

(***************************************************************************)
(* Between calls the queue is exactly the values accepted and not popped,  *)
(* in the order of their tickets: every ticket in head_ .. tail_ - 1 has a *)
(* ready slot with its value.  That all entries come and the queue is then *)
(* empty (queue.h:156-163) and that pop_back undoes emplace (queue.cc:231- *)
(* 241) are cases of it.                                                   *)
(***************************************************************************)
Exact ==
  /\ \A n \in head_ .. tail_ - 1 :
       slot[At(n)] = [ready |-> TRUE, val |-> reserved[n + 1]]
  /\ accepted \ PoppedSet = {reserved[n + 1] : n \in head_ .. tail_ - 1}

QuiescentExact == Idle => Exact

(***************************************************************************)
(* What peek returned stays in its slot, ready, until it is popped: no     *)
(* producer wraps round onto it (ring_queue.h:213-230, 327-341).           *)
(***************************************************************************)
PeekStable ==
  peeked # NoPeek => slot[At(peeked.tok)] = [ready |-> TRUE, val |-> peeked.val]

(***************************************************************************)
(* The values leave in the order of their tickets, each one once, and no   *)
(* slot is filled before its last value was taken: the ring implements     *)
(* ReservationQueue.  A value counts as taken once it is moved out.        *)
(***************************************************************************)
Moved == cpc \in {"clear", "advance"}
First == head_ + (IF Moved /\ cop # "pop_back" THEN 1 ELSE 0)
Final == tail_ - (IF Moved /\ cop = "pop_back" THEN 1 ELSE 0)

placesBar ==
  [i \in 1 .. (IF Final < First THEN 0 ELSE Final - First) |->
     LET n == First + i - 1
     IN  [val  |-> reserved[n + 1],
          full |-> n < head_ + depth /\ slot[At(n)].ready]]

RQ == INSTANCE ReservationQueue
        WITH capacity <- depth, backs <- Backs, places <- placesBar,
             delivered <- popped

ImplementsReservation == RQ!Safe

(***************************************************************************)
(* In a queue that waits for space every call of emplace returns, however  *)
(* full the ring is, as long as the consumer polls (ring_queue.h:213-224): *)
(* no producer waits for room that was already made.                       *)
(***************************************************************************)
EmplaceReturns ==
  \A p \in Producer : Overlap /\ ppc[p] # "idle" ~> ppc[p] = "idle"

(***************************************************************************)
(* And what was accepted is popped: the consumer is never stuck at a slot  *)
(* that nobody will mark ready (ring_queue.h:258-277).                     *)
(***************************************************************************)
EventuallyPopped ==
  \A v \in Value : Overlap /\ v \in accepted ~> v \in PoppedSet
=============================================================================
