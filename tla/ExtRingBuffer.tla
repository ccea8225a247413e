---------------------------- MODULE ExtRingBuffer ---------------------------
(***************************************************************************)
(* ext_ring_buffer: the ring queue with kDynamicResize.  Its counters are  *)
(* not atomic, so one thread at a time uses it, and the resize inside      *)
(* emplace runs alone: one action here.  It has drawn a ticket of the old  *)
(* ring when it resizes, and writes to that ticket's slot of the new one.  *)
(***************************************************************************)
EXTENDS RingQueue

(* DynamicSize: resize(queue.size() * 2) pops what it can into a new queue *)
(* and moves that queue here, so head_ and tail_ start again.              *)
Movable == {k \in 0 .. depth - 1 :
              \A j \in 0 .. k : head_ + j < tail_ /\ slot[At(head_ + j)].ready}

Resize(p) ==
  LET count == Cardinality(Movable)
      moved == [i \in 1 .. count |-> slot[At(head_ + i - 1)].val]
  IN  /\ ppc[p] = "resize"
      /\ depth' = 2 * depth
      /\ head_' = 0 /\ tail_' = count
      /\ slot' = [i \in 0 .. 2 * depth - 1 |->
                   IF i < count THEN [ready |-> TRUE, val |-> moved[i + 1]]
                                ELSE Empty(2 * depth)[i]]
      /\ reserved' = moved
      /\ Accept(p)
      /\ PGoto(p, "write")
      /\ UNCHANGED <<kind, phead, ptail, pushes, consVars, popped>>

ExtNext == Next \/ \E p \in Producer : Resize(p)

ExtSpec == Init /\ [][ExtNext]_vars

(***************************************************************************)
(* "Queue supports dynamic resizing" (ring_queue_flags.h:25): a resize     *)
(* keeps what the queue holds, the element that caused it included.        *)
(***************************************************************************)
ResizeKeepsAll == Idle => Exact
=============================================================================
