------------------------------- MODULE KeySet -------------------------------
(***************************************************************************)
(* key_set_templ (data_structures/ipc/key_set.h) with one caller at a time *)
(* and plain data for elements: heap_ and set_ are plain memory, and the   *)
(* ring of keys that came back has one consumer (RingQueue).  Kind         *)
(* "spsc_key_set" is hshm's, which doubles when no key is left; mpmc_key_set*)
(* and hipc::spsc_key_set, which has the flags of mpmc (:86), throw.       *)
(*                                                                         *)
(* A promise is a pair of a key in use and the element stored with it.     *)
(***************************************************************************)
EXTENDS Containers

InitSize == 1
Raw      == "raw"

NewKeySets ==
  [keys |-> [l \in Object |-> <<>>],                 \* keys_, the oldest first
   set  |-> [l \in Object |-> [i \in 1 .. InitSize |-> Raw]],
   next |-> [l \in Object |-> 0],                    \* heap_
   max  |-> [l \in Object |-> InitSize]]

\* resize: set_ is reallocated with what it holds.
resize(h, l) ==
  [h EXCEPT !.set[l] = @ \o [i \in DOMAIN @ |-> Raw], !.max[l] = 2 * Len(h.set[l])]

\* pop_key: a key that came back, else the next one of the heap.
pop_key(h, l) ==
  IF h.keys[l] # <<>>
    THEN [set |-> [h EXCEPT !.keys[l] = Tail(@)], key |-> Head(h.keys[l])]
  ELSE LET g == IF h.next[l] < h.max[l] THEN h ELSE resize(h, l)
       IN  [set |-> [g EXCEPT !.next[l] = @ + 1], key |-> g.next[l]]

\* With no key left the mpmc set throws.
Throws(l) == kind = "mpmc_key_set" /\ heap.keys[l] = <<>> /\ heap.next[l] = heap.max[l]

emplace(l, v) ==
  LET got == pop_key(heap, l)
  IN  /\ ~Throws(l)
      /\ Call([got.set EXCEPT !.set[l][got.key + 1] = v],
              Holds(l, Append(content[l], [key |-> got.key, val |-> v])))

\* pop and erase of a key in use.
erase(l, i) ==
  Call([heap EXCEPT !.keys[l] = Append(@, content[l][i].key)], Removed(l, i - 1, i))

Next ==
  \E l \in Object :
    \/ \E v \in Value : emplace(l, v)
    \/ \E i \in DOMAIN content[l] : erase(l, i)

(***************************************************************************)
(* Keys in use are distinct and peek finds the element that was stored with*)
(* a key, however often keys were reused and the set grew (key_set.h:41-   *)
(* 82).                                                                    *)
(***************************************************************************)
KeysApart ==
  \A l \in Object : \A i, j \in DOMAIN content[l] :
    /\ content[l][i].key = content[l][j].key => i = j
    /\ heap.set[l][content[l][i].key + 1] = content[l][i].val
=============================================================================
