--------------------------- MODULE LifoListQueue ----------------------------
(***************************************************************************)
(* lifo_list_queue (data_structures/ipc/lifo_list_queue.h): a stack of     *)
(* entries that belong to the caller, who enqueues a free one and gets it  *)
(* back.  head stands for tail_shm_.  A copy is a memcpy of the header that*)
(* shares the entries: no list of its own, and left out.                   *)
(***************************************************************************)
EXTENDS LinkedEntries

Enqueue(h, l, v) ==
  LET n == Fresh(h)
  IN  [Create(h, v) EXCEPT !.next[n] = h.head[l], !.head[l] = n, !.len[l] = @ + 1]

\* dequeue: nothing from an empty queue, whatever tail_shm_ is.
Dequeue(h, l) ==
  LET n == h.head[l]
  IN  IF h.len[l] = 0 THEN h
      ELSE FreeEntry([h EXCEPT !.head[l] = h.next[n], !.len[l] = @ - 1], n)

\* dequeue(pos) at the i-th entry: an inner one is unlinked from the entry that
\* the iterator passed before it.
DequeueAt(h, l, i) ==
  LET path == Forward(h, l)
  IN  IF i = 1 THEN Dequeue(h, l)
      ELSE FreeEntry([h EXCEPT !.next[path[i - 1]] = h.next[path[i]],
                               !.len[l] = @ - 1], path[i])

\* clear: while (size()) dequeue().
Clear(h, l) == FoldLeft(LAMBDA g, i : Dequeue(g, l), h, [i \in 1 .. h.len[l] |-> i])

\* Move assignment: a memcpy over whatever the target held, whose entries are
\* the caller's again.  SetNull leaves tail_shm_ as it is.
MoveOf(l, m) ==
  LET held == Range(SubSeq(Forward(heap, l), 1, heap.len[l]))
  IN  [heap EXCEPT !.used = @ \ held, !.head[l] = heap.head[m],
                   !.len = [@ EXCEPT ![l] = heap.len[m], ![m] = 0]]

-----------------------------------------------------------------------------
(* Actions: a call, and what it promises *)

\* enqueue, push and emplace; into a moved-from queue only when ReUse says so.
Push(l, v) ==
  /\ heap.len[l] > 0 \/ heap.head[l] = Null \/ kind \in ReUse
  /\ Call(Enqueue(heap, l, v), Inserted(l, 0, v))

\* dequeue() and pop() take the first entry, the others the one at an iterator.
Pop(l)      == Call(Dequeue(heap, l), Removed(l, 0, 1))
PopAt(l, i) == Call(DequeueAt(heap, l, i), Removed(l, i - 1, i))

clear(l)    == Call(Clear(heap, l), Emptied(l))
Move(l, m)  == l # m /\ Call(MoveOf(l, m), Moved(l, m))

Next ==
  \E l \in Object :
    \/ \E v \in Value : Push(l, v)
    \/ Pop(l)
    \/ \E i \in 1 .. Len(content[l]) : PopAt(l, i)
    \/ clear(l)
    \/ \E m \in Object : Move(l, m)
=============================================================================
