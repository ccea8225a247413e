---------------------------- MODULE UnorderedMap ----------------------------
(***************************************************************************)
(* unordered_map (data_structures/ipc/unordered_map.h): a vector of        *)
(* buckets, each an slist of pairs; a map whose vector is null was         *)
(* destroyed or moved from.  The buckets are sequences here: List and      *)
(* Vector say what becomes of their calls.  The number of buckets never    *)
(* grows, whatever max_capacity_ and growth_ are.                          *)
(*                                                                         *)
(* Move is the move assignment.  A construction from another map is the     *)
(* same within one allocator; between two it reads buckets_ and length_    *)
(* before anything wrote them (unordered_map.h:322) and is left out.       *)
(*                                                                         *)
(* A key is a number and hshm::hash keeps it.  content lists the pairs in  *)
(* no promised order.                                                      *)
(***************************************************************************)
EXTENDS Containers

NumBuckets == 2
Key        == 0 .. MaxLen
Pair(k, v) == [key |-> k, val |-> v]
NoBuckets  == [i \in 1 .. NumBuckets |-> <<>>]

NewMaps == [bkt |-> [l \in Object |-> NoBuckets], len |-> [l \in Object |-> 0]]

IsNull(h, l) == h.bkt[l] = <<>>
Hash(h, l, k) == (k % Len(h.bkt[l])) + 1

\* begin() to end(): bucket after bucket, make_correct skips the empty ones.
Entries(h, l) == FlattenSeq(h.bkt[l])

WithoutKey(bkt, k) == SelectSeq(bkt, LAMBDA p : p.key # k)
HasKey(bkt, k)     == WithoutKey(bkt, k) # bkt

\* emplace_templ: the old pair of the key is erased before the new one goes to
\* the end of its bucket, unless modify is FALSE (try_emplace).
emplace_templ(h, l, k, v, modify) ==
  LET b   == Hash(h, l, k)
      has == HasKey(h.bkt[l][b], k)
  IN  IF has /\ ~modify THEN h
      ELSE [h EXCEPT !.bkt[l][b] = Append(WithoutKey(@, k), Pair(k, v)),
                     !.len[l] = (IF has THEN @ - 1 ELSE @) + 1]

EraseOf(h, l, k) ==
  LET b == Hash(h, l, k)
  IN  IF HasKey(h.bkt[l][b], k)
        THEN [h EXCEPT !.bkt[l][b] = WithoutKey(@, k), !.len[l] = @ - 1] ELSE h

\* shm_destroy: the buckets go, length_ stays.
Destroy(h, l) == [h EXCEPT !.bkt[l] = <<>>]

\* shm_strong_copy_op: as many buckets as the other map, then pair by pair.
CopyOf(h, l, m) ==
  FoldLeft(LAMBDA g, p : emplace_templ(g, l, p.key, p.val, TRUE),
           [h EXCEPT !.bkt[l] = IF @ = <<>> THEN [i \in DOMAIN h.bkt[m] |-> <<>>] ELSE @],
           Entries(h, m))

\* shm_strong_copy_construct: the buckets are copied with their pairs and length_
\* is not set, so it has some value n; then every pair is put again over its copy.
ConstructOf(h, l, m, n) == CopyOf([h EXCEPT !.bkt[l] = h.bkt[m], !.len[l] = n], l, m)

\* shm_move_op: the buckets and length_ are taken over, and the source is left
\* with its length_; or the pairs are copied to what the target has.
MoveOf(l, m) ==
  IF same
    THEN [heap EXCEPT !.bkt = [@ EXCEPT ![l] = heap.bkt[m], ![m] = <<>>],
                      !.len[l] = heap.len[m]]
    ELSE Destroy(CopyOf(heap, l, m), m)

-----------------------------------------------------------------------------
(* Actions: a call, and what it promises *)

Put(s, k, v) == Append(WithoutKey(s, k), Pair(k, v))

Emplace(l, k, v) ==
  /\ ~IsNull(heap, l)
  /\ Call(emplace_templ(heap, l, k, v, TRUE), Holds(l, Put(content[l], k, v)))

TryEmplace(l, k, v) ==
  /\ ~IsNull(heap, l)
  /\ Call(emplace_templ(heap, l, k, v, FALSE),
          IF HasKey(content[l], k) THEN content ELSE Holds(l, Put(content[l], k, v)))

\* erase of a key, or of the pair an iterator is at.
Erase(l, k) ==
  /\ ~IsNull(heap, l)
  /\ Call(EraseOf(heap, l, k), Holds(l, WithoutKey(content[l], k)))

clear(l) ==
  /\ ~IsNull(heap, l)
  /\ Call([heap EXCEPT !.bkt[l] = [i \in DOMAIN @ |-> <<>>], !.len[l] = 0], Emptied(l))

shm_destroy(l) == Call(Destroy(heap, l), Emptied(l))

\* A map that counts nothing is the only target whose length_ comes out right.
Fresh(l) == heap.len[l] = 0 \/ kind \in Overwrites

Copy(l, m) ==
  /\ l # m /\ ~IsNull(heap, m) /\ Fresh(l)
  /\ Call(CopyOf(Destroy(heap, l), l, m), Copied(l, m))

\* The copy constructors, where a map was destroyed.  length_ comes out right
\* only if that memory happened to hold the size of the other map.
CopyConstruct(l, m) ==
  /\ IsNull(heap, l) /\ ~IsNull(heap, m)
  /\ \E n \in 0 .. MaxLen :
       /\ n = heap.len[m] \/ kind \in Overwrites
       /\ Call(ConstructOf(heap, l, m, n), Copied(l, m))

\* A target with buckets would leak them (Vector), or keep its pairs.
Move(l, m) ==
  /\ l # m /\ ~IsNull(heap, m)
  /\ \/ IsNull(heap, l) /\ (same \/ Fresh(l))
     \/ kind \in Overwrites
  /\ Call(MoveOf(l, m), Moved(l, m))

Next ==
  \E l \in Object :
    \/ \E k \in Key, v \in Value : Emplace(l, k, v) \/ TryEmplace(l, k, v)
    \/ \E k \in Key : Erase(l, k)
    \/ clear(l)
    \/ shm_destroy(l)
    \/ \E m \in Object : Copy(l, m) \/ CopyConstruct(l, m) \/ Move(l, m)

-----------------------------------------------------------------------------
(* Properties *)

(***************************************************************************)
(* Iterating a map yields every pair the calls promised, once, and size()  *)
(* counts them; a key is only ever in its own bucket, where find looks for *)
(* it (unordered_map.h:320-450).                                           *)
(***************************************************************************)
PairsKept ==
  \A l \in Object :
    LET entries == Entries(heap, l)
    IN  /\ Range(entries) = Range(content[l]) /\ Len(entries) = Len(content[l])
        /\ ~IsNull(heap, l) => heap.len[l] = Len(entries)
        /\ \A b \in DOMAIN heap.bkt[l] : \A p \in Range(heap.bkt[l][b]) :
             Hash(heap, l, p.key) = b
=============================================================================
