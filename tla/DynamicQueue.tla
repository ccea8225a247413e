---------------------------- MODULE DynamicQueue ----------------------------
(***************************************************************************)
(* dynamic_queue (data_structures/ipc/dynamic_queue.h): a list of the      *)
(* elements and two counters, every call but size() and GetDepth() under a *)
(* mutex.  The list is that of List; heap has the counters beside it.      *)
(* SetNull does nothing and a queue is never null: what is moved from keeps*)
(* its counters, and its elements when the allocators differ.              *)
(*                                                                         *)
(* MaxToken bounds the tokens.                                             *)
(***************************************************************************)
EXTENDS List

MaxToken == MaxLen + 1

NewQueues ==
  [qhead |-> [l \in Object |-> 0], qtail |-> [l \in Object |-> 0]] @@ NewLists

\* pop() of the first element, whose token is head_.
pop(h, l) ==
  IF h.len[l] = 0 THEN h
  ELSE LET g == [h EXCEPT !.qhead[l] = @ + 1]
       IN  Erase(g, l, h.head[l], h.next[h.head[l]])

Counters(h, g, l, m) ==
  [h EXCEPT !.qhead[l] = g.qhead[m], !.qtail[l] = g.qtail[m]]

\* emplace: the element with token tail_ goes to the end.
Push(l, v) ==
  /\ heap.qtail[l] < MaxToken
  /\ Call(Emplace([heap EXCEPT !.qtail[l] = @ + 1], l, Null, v),
          Inserted(l, Len(content[l]), v))

Pop(l) == Call(pop(heap, l), Removed(l, 0, 1))

\* shm_strong_copy_op: the list is assigned, the counters are copied.
CopyQueue(l, m) ==
  l # m /\ Call(Counters(CopyOf(Destroy(heap, l), l, m), heap, l, m), Copied(l, m))

\* shm_move_op, of a queue that is used again only when ReUse says so.
MoveQueue(l, m) ==
  LET list == IF same THEN MoveOf(l, m) ELSE CopyOf(Destroy(heap, l), l, m)
  IN  /\ l # m
      /\ heap.qtail[m] = heap.qhead[m] \/ kind \in ReUse
      /\ Call(Counters(list, heap, l, m), Moved(l, m))

QueueNext ==
  \E l \in Object :
    \/ \E v \in Value : Push(l, v)
    \/ Pop(l)
    \/ \E m \in Object : CopyQueue(l, m) \/ MoveQueue(l, m)

(***************************************************************************)
(* size() is the number of elements, so that the token of a pop is the one *)
(* that emplace returned for the element (dynamic_queue.h:160-213).        *)
(***************************************************************************)
TokensMatch ==
  /\ HoldsContent
  /\ \A l \in Object : heap.qtail[l] = heap.qhead[l] + Len(content[l])
=============================================================================
