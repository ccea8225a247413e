-------------------------------- MODULE List --------------------------------
(***************************************************************************)
(* list (data_structures/ipc/list.h): the doubly linked list.              *)
(***************************************************************************)
EXTENDS LinkedEntries

\* The three cases of emplace that keep the other entries, and the inner one,
\* which links the new entry past pos.  The case of begin() looks up tail_ptr_
\* where it means head_ptr_.
EmplaceFirst(h, l, n) ==
  [h EXCEPT !.next[n] = Null, !.prior[n] = Null, !.head[l] = n, !.tail[l] = n]

EmplaceBegin(h, l, n) ==
  [h EXCEPT !.next[n] = h.head[l], !.head[l] = n,
            !.prior = [@ EXCEPT ![n] = Null, ![h.tail[l]] = n]]

EmplaceEnd(h, l, n) ==
  [h EXCEPT !.next = [@ EXCEPT ![n] = Null, ![h.tail[l]] = n],
            !.prior[n] = h.tail[l], !.tail[l] = n]

EmplaceInner(h, n, pos) ==
  [h EXCEPT !.next  = [@ EXCEPT ![n] = h.next[pos], ![h.prior[pos]] = n],
            !.prior = [@ EXCEPT ![n] = h.prior[pos], ![h.next[pos]] = n]]

\* emplace(pos, v): pos is an entry of the list, or Null for end().
Emplace(h, l, pos, v) ==
  LET n == Fresh(h)
      g == Create(h, v)
      e == IF h.len[l] = 0 THEN EmplaceFirst(g, l, n)
           ELSE IF pos = Null THEN EmplaceEnd(g, l, n)
           ELSE IF pos = h.head[l] THEN EmplaceBegin(g, l, n)
           ELSE EmplaceInner(g, n, pos)
  IN  [e EXCEPT !.len[l] = @ + 1]

RejoinNext(h, l, prior, last) ==      \* last->prior_ptr_ not set
  LET g == IF prior = Null THEN [h EXCEPT !.head[l] = last]
           ELSE [h EXCEPT !.next[prior] = last]
  IN  IF last = Null THEN [g EXCEPT !.tail[l] = prior] ELSE g

\* The ends of the gap meet: the entry before it, or Null, and the one behind it.
Rejoin(h, l, prior, last) ==
  LET g == IF prior = Null THEN [h EXCEPT !.head[l] = last]
           ELSE [h EXCEPT !.next[prior] = last]
  IN  IF last = Null THEN [g EXCEPT !.tail[l] = prior] ELSE [g EXCEPT !.prior[last] = prior]

\* erase(first, last): last is first, an entry behind it, or Null for end().
Erase(h, l, first, last) ==
  LET gone == Walk(h.next, first, last)
  IN  IF first = Null THEN h
      ELSE Rejoin([FreeEntries(h, Range(gone)) EXCEPT !.len[l] = @ - Len(gone)],
                  l, h.prior[first], last)

\* shm_destroy: clear() unless the list is empty; SetNull has nothing left to do.
Destroy(h, l) == IF h.len[l] = 0 THEN h ELSE Erase(h, l, h.head[l], Null)

\* shm_strong_copy_op, and load_list of what save_list wrote: emplace_back of
\* every value of m.
CopyOf(h, l, m) ==
  FoldLeft(LAMBDA g, v : Emplace(g, l, Null, v), h, Values(h, Forward(h, m)))

\* memcpy of the header, and SetNull of the other one.
Steal(h, l, m) ==
  [h EXCEPT !.head = [@ EXCEPT ![l] = h.head[m], ![m] = Null],
            !.tail = [@ EXCEPT ![l] = h.tail[m], ![m] = Null],
            !.len  = [@ EXCEPT ![l] = h.len[m], ![m] = 0]]

\* shm_move_op: the header is taken over when the lists have one allocator.  A
\* construction from another allocator appends to a header nothing wrote and is
\* left out; one from the same allocator is an assignment to an empty list.
MoveOf(l, m) ==
  LET g == Destroy(heap, l)
  IN  IF same THEN Steal(g, l, m) ELSE Destroy(CopyOf(g, l, m), m)

-----------------------------------------------------------------------------
(* Actions: a call, and what it promises *)

\* emplace_back, emplace_front, and emplace with i entries before the new one.
EmplaceAt(l, i, v) ==
  /\ i = 0 /\ content[l] # <<>> => kind \in Fronts
  /\ i \in 1 .. Len(content[l]) - 1 => kind \in Middles
  /\ Call(Emplace(heap, l, IterAt(heap, l, i), v), Inserted(l, i, v))

EraseRange(l, i, j) ==
  Call(Erase(heap, l, IterAt(heap, l, i), IterAt(heap, l, j)), Removed(l, i, j))

\* erase(value): the first entry that has it, if there is one.
EraseValue(l, v) ==
  LET pos == Find(heap, l, v)
  IN  Call(Erase(heap, l, pos, IF pos = Null THEN Null ELSE heap.next[pos]),
           FirstRemoved(l, v))

clear(l) == Call(Destroy(heap, l), Emptied(l))

\* operator= and the copy constructors: shm_destroy, then shm_strong_copy_op.
Copy(l, m) == l # m /\ Call(CopyOf(Destroy(heap, l), l, m), Copied(l, m))

\* Save of m, then load into l, which the tests create for it.
Load(l, m) ==
  l # m /\ content[l] = <<>> /\ Call(CopyOf(heap, l, m), Copied(l, m))

Move(l, m) == l # m /\ Call(MoveOf(l, m), Moved(l, m))

Next ==
  \E l \in Object :
    \/ \E i \in 0 .. Len(content[l]), v \in Value : EmplaceAt(l, i, v)
    \/ \E v \in Value : EraseValue(l, v)
    \/ \E i, j \in 0 .. Len(content[l]) : i <= j /\ EraseRange(l, i, j)
    \/ clear(l)
    \/ \E m \in Object : Copy(l, m) \/ Load(l, m) \/ Move(l, m)
=============================================================================
