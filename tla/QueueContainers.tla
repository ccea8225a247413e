-------------------------- MODULE QueueContainers --------------------------
(***************************************************************************)
(* The ring queues as objects of one thread: construction, copy, move,     *)
(* resize and destruction of ring_queue_base, ring_ptr_queue_base (both    *)
(* with kErrorOnNoSpace), ticket_queue and split_ticket_queue.  What       *)
(* concurrent calls of emplace and pop do is in RingQueue, ExtRingBuffer   *)
(* and SplitTicketQueue.                                                   *)
(*                                                                         *)
(* A ring has a vector of slots, Raw when the ready bit is off, head_      *)
(* modulo its depth and tail_ - head_: nothing else of the counters        *)
(* matters.  An object is a sequence of rings: NumSplits of them for a     *)
(* split_ticket_queue, one for the others, whose null state is a ring with *)
(* no slots; a null split_ticket_queue has no rings.  rr_tail_ and rr_head_*)
(* are taken modulo NumSplits, which divides 2^16.  heap.bufs counts the   *)
(* vectors that are allocated.                                             *)
(***************************************************************************)
EXTENDS Containers

Raw       == "raw"
NumSplits == 2
Depths    == 1 .. 2
Splits    == {"split_ticket_queue"}
Queues    == {"ring_queue", "ring_ptr_queue", "ticket_queue"} \union Splits

-----------------------------------------------------------------------------
(* One ring *)

NewRing(n)  == [slots |-> [i \in 1 .. n |-> Raw], head |-> 0, size |-> 0]
NullRing    == NewRing(0)
GetDepth(r) == Len(r.slots)
IsNull(r)   == GetDepth(r) = 0

\* The slot of the entry with i entries before it.
Slot(r, i) == 1 + ((r.head + i) % GetDepth(r))

Full(r)     == r.size >= GetDepth(r)
Waiting(r)  == [i \in 1 .. r.size |-> r.slots[Slot(r, i - 1)]]

emplace(r, v) ==
  IF Full(r) THEN r ELSE [r EXCEPT !.slots[Slot(r, r.size)] = v, !.size = @ + 1]

pop(r) ==
  IF r.size = 0 \/ r.slots[Slot(r, 0)] = Raw THEN r
  ELSE [r EXCEPT !.slots[Slot(r, 0)] = Raw, !.head = (@ + 1) % GetDepth(r), !.size = @ - 1]

pop_back(r) ==
  IF r.size = 0 \/ r.slots[Slot(r, r.size - 1)] = Raw THEN r
  ELSE [r EXCEPT !.slots[Slot(r, r.size - 1)] = Raw, !.size = @ - 1]

\* resize: whatever is popped of the old queue is pushed to the new one.
Refilled(r, n) == FoldLeft(emplace, NewRing(n), Waiting(r))

-----------------------------------------------------------------------------
(* The objects *)

\* The vectors of an object, the one of a split_ticket_queue's rings included.
Vectors(q) == Cardinality({i \in DOMAIN q : ~IsNull(q[i])})
              + (IF kind \in Splits /\ q # <<>> THEN 1 ELSE 0)

NullQueue   == IF kind \in Splits THEN <<>> ELSE <<NullRing>>
NewQueue(n) == IF kind \in Splits THEN [s \in 1 .. NumSplits |-> NewRing(n)] ELSE <<NewRing(n)>>

NewQueueObjects(n) ==
  [queue |-> [l \in Object |-> NewQueue(n)],
   rr_tail |-> [l \in Object |-> 0], rr_head |-> [l \in Object |-> 0],
   bufs |-> Cardinality(Object) * Vectors(NewQueue(n))]

Null(h, l) == Vectors(h.queue[l]) = 0

\* SetNull
Reset(h, l) == [h EXCEPT !.rr_tail[l] = 0, !.rr_head[l] = 0]

Destroy(h, l) ==
  IF Null(h, l) THEN h
  ELSE [Reset(h, l) EXCEPT !.queue[l] = NullQueue, !.bufs = @ - Vectors(h.queue[l])]

\* shm_strong_copy_op: the vector of the target is destroyed by its own copy
\* assignment, which reserves as many slots as the source has.
CopyOf(h, l, m) ==
  [Destroy(h, l) EXCEPT !.queue[l] = h.queue[m], !.bufs = @ + Vectors(h.queue[m])]

\* The vector's move assignment with one allocator, which destroys nothing.
Take(h, l, m) ==
  Reset([h EXCEPT !.queue = [@ EXCEPT ![l] = h.queue[m], ![m] = NullQueue]], m)

\* shm_move_op of an assignment.  ring_ptr_queue alone destroys its target.
MoveOf(h, l, m) == IF same THEN Take(h, l, m) ELSE Destroy(CopyOf(h, l, m), m)
PtrMoveOf(h, l, m) == MoveOf(Destroy(h, l), l, m)

\* The others forget the vectors that a target has.
Forgets(l) == Null(heap, l) \/ kind = "ring_ptr_queue" \/ kind \in Overwrites

\* resize ends in a move from the new queue, which is in the same allocator.
ResizeOf(h, l, n) ==
  LET old == h.queue[l][1]
      g   == IF kind = "ring_ptr_queue" THEN Destroy(h, l) ELSE h
  IN  [g EXCEPT !.queue[l] = <<Refilled(old, n)>>, !.bufs = @ + 1]

-----------------------------------------------------------------------------
(* Actions: a call, and what it promises *)

Ring(l) == heap.queue[l][1]
With(l, r) == [heap EXCEPT !.queue[l] = <<r>>]

shm_init(l, n) ==
  /\ Null(heap, l)
  /\ Call([Reset(heap, l) EXCEPT !.queue[l] = NewQueue(n), !.bufs = @ + Vectors(NewQueue(n))],
          content)

Push(l, v) ==
  /\ kind \notin Splits
  /\ Call(With(l, emplace(Ring(l), v)),
          IF Len(content[l]) >= GetDepth(Ring(l)) THEN content
          ELSE Inserted(l, Len(content[l]), v))

Pop(l) ==
  /\ kind \notin Splits
  /\ Call(With(l, pop(Ring(l))), Removed(l, 0, IF content[l] = <<>> THEN 0 ELSE 1))

PopBack(l) ==
  /\ kind \notin Splits \union {"ticket_queue"} /\ content[l] # <<>>
  /\ Call(With(l, pop_back(Ring(l))), Removed(l, Len(content[l]) - 1, Len(content[l])))

\* To a depth that is too small, the new queue refuses what is left.
Resize(l, n) ==
  /\ kind \notin Splits \union {"ticket_queue"} /\ Forgets(l)
  /\ n >= Ring(l).size \/ kind \in Shrinks
  /\ Call(ResizeOf(heap, l, n), content)

shm_destroy(l) == Call(Destroy(heap, l), Emptied(l))

\* The splits are copied by the copy constructor of ticket_queue, which assigns
\* to a queue that nobody has constructed: the code supports no such copy.
Copy(l, m) == l # m /\ kind \notin Splits /\ Call(CopyOf(heap, l, m), Copied(l, m))

Move(l, m) ==
  /\ l # m /\ Forgets(l)
  /\ kind \in Splits => same
  /\ Call(IF kind = "ring_ptr_queue" THEN PtrMoveOf(heap, l, m) ELSE MoveOf(heap, l, m),
          Moved(l, m))

-----------------------------------------------------------------------------
(* split_ticket_queue: the splits are tried in turn, from rr on *)

Qid(rr, i) == 1 + ((rr + i) % NumSplits)

\* The first split from rr on of those, 0 when none is.
FirstOf(splits, rr) ==
  LET tried == SelectSeq([i \in 1 .. NumSplits |-> Qid(rr, i - 1)], LAMBDA s : s \in splits)
  IN  IF tried = <<>> THEN 0 ELSE tried[1]

PushSplit(l, v) ==
  LET q == heap.queue[l]
      s == FirstOf({i \in DOMAIN q : ~Full(q[i])}, heap.rr_tail[l])
      g == [heap EXCEPT !.rr_tail[l] = (@ + 1) % NumSplits]
  IN  /\ kind \in Splits /\ ~Null(heap, l)       \* else num_splits is 0, a divisor
      /\ Call(IF s = 0 THEN g ELSE [g EXCEPT !.queue[l][s] = emplace(@, v)],
              IF Len(content[l]) >= MapThenSumSet(LAMBDA i : GetDepth(q[i]), DOMAIN q) THEN content
              ELSE Inserted(l, Len(content[l]), v))

PopSplit(l) ==
  LET q == heap.queue[l]
      s == FirstOf({i \in DOMAIN q : q[i].size > 0}, heap.rr_head[l])
      g == [heap EXCEPT !.rr_head[l] = (@ + 1) % NumSplits]
  IN  /\ kind \in Splits /\ ~Null(heap, l)
      /\ IF s = 0 THEN Call(g, Emptied(l))
         ELSE Call([g EXCEPT !.queue[l][s] = pop(@)], FirstRemoved(l, Waiting(q[s])[1]))

Next ==
  \E l \in Object :
    \/ \E n \in Depths : shm_init(l, n) \/ Resize(l, n)
    \/ \E v \in Value : Push(l, v) \/ PushSplit(l, v)
    \/ Pop(l) \/ PopBack(l) \/ PopSplit(l)
    \/ shm_destroy(l)
    \/ \E m \in Object : Copy(l, m) \/ Move(l, m)

-----------------------------------------------------------------------------
(* Properties *)

(***************************************************************************)
(* The rings of an object hold what was pushed and not popped, a single    *)
(* one in the order of the pushes, wherever the queue was copied, moved or *)
(* resized to, and nothing was refused while there was room                *)
(* (ring_queue.h:90-197, 206-334, split_ticket_queue.h:181-216).           *)
(***************************************************************************)
EntriesKept ==
  \A l \in Object :
    LET all == FoldLeft(LAMBDA s, r : s \o Waiting(r), <<>>, heap.queue[l])
    IN  IF kind \in Splits THEN ToBag(all) = ToBag(content[l]) ELSE all = content[l]

(***************************************************************************)
(* The vectors that are allocated are those of the objects                 *)
(* (ring_queue.h:120-180, ring_ptr_queue.h:131-180).                       *)
(***************************************************************************)
VectorsOwned ==
  heap.bufs = MapThenSumSet(LAMBDA l : Vectors(heap.queue[l]), Object)
=============================================================================
