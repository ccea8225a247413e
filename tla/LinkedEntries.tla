--------------------------- MODULE LinkedEntries ----------------------------
(***************************************************************************)
(* What list, slist and lifo_list_queue (data_structures/ipc) share: the   *)
(* entries in the memory of an allocator and the headers of some lists.    *)
(* List, SList and LifoListQueue have the calls.                           *)
(*                                                                         *)
(* An entry is an offset in the allocator, Null the null OffsetPointer.    *)
(* The allocator returns some free entry: the lowest one here, as an offset*)
(* means nothing to a list.  A free entry holds Poison, which no walk may  *)
(* meet.                                                                   *)
(***************************************************************************)
EXTENDS Containers

Null    == 0
MaxNode == 2 * MaxLen                  \* a copy exists beside its original
Node    == 1 .. MaxNode
Poison  == MaxNode + 1

NewLists ==
  [next  |-> [n \in Node |-> Poison],
   prior |-> [n \in Node |-> Poison],
   data  |-> [n \in Node |-> Poison],
   used  |-> {},
   head  |-> [l \in Object |-> Null],              \* tail_shm_ in a queue
   tail  |-> [l \in Object |-> Null],
   len   |-> [l \in Object |-> 0]]

-----------------------------------------------------------------------------
(* Iterators *)

\* The entries an iterator passes from n along the links before it is at last.
Walk(links, n, last) ==
  LET from[k \in 0 .. MaxNode + 1] ==
        [m \in 0 .. Poison |->
           IF k = 0 \/ m \in {last, Null} THEN <<>>
           ELSE IF m = Poison THEN <<Poison>>
           ELSE <<m>> \o from[k - 1][links[m]]]
  IN  from[MaxNode + 1][n]

\* begin() to end(): nothing when length_ is 0, else along the links to null.
Forward(h, l) == IF h.len[l] = 0 THEN <<>> ELSE Walk(h.next, h.head[l], Null)

Values(h, path) ==
  [i \in DOMAIN path |-> IF path[i] \in Node THEN h.data[path[i]] ELSE Poison]

\* begin() + i: end() once the entries are passed.
IterAt(h, l, i) ==
  LET path == Forward(h, l) IN IF i < Len(path) THEN path[i + 1] ELSE Null

\* hshm::find: the first entry with that value, or end().
Find(h, l, v) ==
  LET path == Forward(h, l)
      hits == {i \in DOMAIN path : h.data[path[i]] = v}
  IN  IF hits = {} THEN Null ELSE path[Min(hits)]

-----------------------------------------------------------------------------
(* Entries *)

\* The entry that AllocateObjs returns.
Fresh(h) == CHOOSE n \in Node \ h.used : \A m \in Node \ h.used : n <= m

Create(h, v) ==
  [h EXCEPT !.used = @ \union {Fresh(h)}, !.data[Fresh(h)] = v]

\* The entries go back to the allocator, or to the caller.
FreeEntries(h, S) ==
  LET Wiped(f) == [n \in Node |-> IF n \in S THEN Poison ELSE f[n]]
  IN  [h EXCEPT !.used = @ \ S, !.next = Wiped(@), !.prior = Wiped(@), !.data = Wiped(@)]

FreeEntry(h, n) == FreeEntries(h, {n})

-----------------------------------------------------------------------------
(* Properties *)

(***************************************************************************)
(* Iterating a list from begin() to end() yields what the calls promised,  *)
(* and length_ counts it (list.h:376-516, slist.h:368-571,                 *)
(* lifo_list_queue.h:293-447).                                             *)
(***************************************************************************)
HoldsContent ==
  \A l \in Object : /\ Values(heap, Forward(heap, l)) = content[l]
                  /\ heap.len[l] = Len(content[l])

(***************************************************************************)
(* A list can be walked from either end: the prior links are the next      *)
(* links reversed, and tail_ptr_ is the last entry (list.h:92-100, 480-490;*)
(* slist.h:491-501).                                                       *)
(***************************************************************************)
BothWays ==
  \A l \in Object :
    LET path     == Forward(heap, l)
        backward == IF path = <<>> THEN <<>> ELSE Walk(heap.prior, heap.tail[l], Null)
    IN  /\ kind = "list" => backward = Reverse(path)
        /\ kind # "lifo_list_queue" =>
             heap.tail[l] = IF path = <<>> THEN Null ELSE Last(path)

(***************************************************************************)
(* Every entry that is allocated is in exactly one list: no call leaks an  *)
(* entry, frees it twice, or leaves it in two lists (list.h:342-356,       *)
(* 425-455; slist.h:337-346, 423-446).                                     *)
(***************************************************************************)
EntriesOwned ==
  LET Mine(l) == Range(SubSeq(Forward(heap, l), 1, heap.len[l]))
  IN  /\ heap.used = UNION {Mine(l) : l \in Object}
      /\ \A l, m \in Object : l # m => Mine(l) \cap Mine(m) = {}
=============================================================================
