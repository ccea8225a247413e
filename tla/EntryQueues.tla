---------------------------- MODULE EntryQueues -----------------------------
(***************************************************************************)
(* mpsc_lifo_list_queue and spsc_fifo_list_queue (data_structures/ipc) in  *)
(* the hands of one thread: every call that changes them or looks at the   *)
(* first entry.  PageFreeList and SpscListQueue have enqueue and dequeue   *)
(* under threads.  An entry belongs to the caller, who has it back once it *)
(* is dequeued.  head stands for tail_shm_ of the lifo queue, and len for  *)
(* tail_ - head_ of the fifo one.  Copies and moves are a memcpy that      *)
(* leaves the entries in both queues (the findings of the README): left    *)
(* out.                                                                    *)
(***************************************************************************)
EXTENDS LinkedEntries

Lifo == "mpsc_lifo_list_queue"
Fifo == "spsc_fifo_list_queue"
EntryQueueKinds == {Lifo, Fifo}

\* shm_init
NewEntryQueues == NewLists

-----------------------------------------------------------------------------
(* The lifo queue *)

\* Linked in front of the newest entry: a CAS that no other thread disturbs.
PushNewest(h, l, v) ==
  LET n == Fresh(h)
  IN  [Create(h, v) EXCEPT !.next[n] = h.head[l], !.head[l] = n, !.len[l] = @ + 1]

\* Nothing from a queue that counts no entry, or has none.
TakeNewest(h, l) ==
  LET n == h.head[l]
  IN  IF h.len[l] = 0 \/ n = Null THEN h
      ELSE FreeEntry([h EXCEPT !.head[l] = h.next[n], !.len[l] = @ - 1], n)

-----------------------------------------------------------------------------
(* The fifo queue *)

\* head_shm_ alone tells whether there is an entry to link behind: tail_shm_
\* keeps the entry that left last.
PushLast(h, l, v) ==
  LET n == Fresh(h)
      g == [Create(h, v) EXCEPT !.next[n] = Null, !.tail[l] = n, !.len[l] = @ + 1]
  IN  IF h.head[l] # Null THEN [g EXCEPT !.next[h.tail[l]] = n]
      ELSE [g EXCEPT !.head[l] = n]

\* An only link that is null while more entries are counted is one that the
\* producer has not written yet: nothing is taken.
TakeFirst(h, l) ==
  LET n == h.head[l]
  IN  IF h.len[l] = 0 \/ (h.next[n] = Null /\ h.len[l] > 1) THEN h
      ELSE FreeEntry([h EXCEPT !.head[l] = h.next[n], !.len[l] = @ - 1], n)

-----------------------------------------------------------------------------
(* Calls *)

Dequeue(h, l) == IF kind = Lifo THEN TakeNewest(h, l) ELSE TakeFirst(h, l)

Peek(h, l) == IF h.len[l] = 0 THEN Null ELSE h.head[l]

\* clear: while (size()) dequeue().
ClearLifo(h, l) == FoldLeft(LAMBDA g, i : TakeNewest(g, l), h, [i \in 1 .. h.len[l] |-> i])
ClearFifo(h, l) == FoldLeft(LAMBDA g, i : TakeFirst(g, l), h, [i \in 1 .. h.len[l] |-> i])

\* enqueue, emplace and push
EnqueueLifo(l, v) == kind = Lifo /\ Call(PushNewest(heap, l, v), Inserted(l, 0, v))
EnqueueFifo(l, v) == kind = Fifo /\ Call(PushLast(heap, l, v), Inserted(l, Len(content[l]), v))

\* dequeue and pop
DequeueLifo(l) == kind = Lifo /\ Call(TakeNewest(heap, l), Removed(l, 0, 1))
DequeueFifo(l) == kind = Fifo /\ Call(TakeFirst(heap, l), Removed(l, 0, 1))

Clear(l) ==
  Call(IF kind = Lifo THEN ClearLifo(heap, l) ELSE ClearFifo(heap, l), Emptied(l))

Next ==
  \E l \in Object :
    \/ \E v \in Value : EnqueueLifo(l, v) \/ EnqueueFifo(l, v)
    \/ DequeueLifo(l)
    \/ DequeueFifo(l)
    \/ Clear(l)

-----------------------------------------------------------------------------
(* Properties *)

\* What dequeueing until nothing comes yields.
Drained(l) ==
  LET after == [k \in 0 .. MaxLen |->
                  FoldLeft(LAMBDA g, i : Dequeue(g, l), heap, [i \in 1 .. k |-> i])]
      shown == [k \in 1 .. MaxLen |->
                  LET n == Peek(after[k - 1], l)
                  IN  IF n = Null THEN Poison ELSE after[k - 1].data[n]]
  IN  SelectSeq(shown, LAMBDA d : d # Poison)

(***************************************************************************)
(* Whatever was enqueued and not dequeued comes out, newest first or oldest*)
(* first, peek shows the entry that dequeue takes next, and size() counts  *)
(* them (mpsc_lifo_list_queue.h:177-287, spsc_fifo_list_queue.h:178-289).  *)
(***************************************************************************)
DrainsInOrder ==
  \A l \in Object : /\ Drained(l) = content[l]
                    /\ heap.len[l] = Len(content[l])
=============================================================================
