--------------------------- MODULE LocalSerialize ---------------------------
(***************************************************************************)
(* LocalSerialize and LocalDeserialize                                     *)
(* (data_structures/serialization/local_serialize.h) with the save_ and    *)
(* load_ functions of serialize_common.h: data_ is a sequence of words and *)
(* cur_off_ the position of a reader in it.  A value is one word; a string,*)
(* a vector, a list or a map is its size and then its elements.            *)
(*                                                                         *)
(* A promise is an item that was written, with its type; heap.got counts   *)
(* the items that the reader has read since it was made.                   *)
(***************************************************************************)
EXTENDS Containers

Words == MaxLen + 2        \* bound on the words of the archives together

NewArchives ==
  [data |-> [l \in Object |-> <<>>], off |-> [l \in Object |-> 0],
   got |-> [l \in Object |-> 0]]

\* save_string, save_vec and save_list; save_map.
save_seq(elems) == <<Len(elems)>> \o elems
save_map(pairs) == <<Len(pairs)>> \o FlattenSeq(pairs)

save(item) == CASE item.type = "value" -> <<item.of>>
                [] item.type = "seq"   -> save_seq(item.of)
                [] item.type = "map"   -> save_map(item.of)

\* write_binary: data_ is resized and the words are copied behind the old end.
write_binary(h, l, words) == [h EXCEPT !.data[l] = @ \o words]

\* read_binary of n words at off.
read_binary(h, l, off, n) == SubSeq(h.data[l], off + 1, off + n)

\* What load makes of the words at off, and where it leaves the reader.
load_value(h, l, off) == [of |-> h.data[l][off + 1], next |-> off + 1]

load_seq(h, l, off) ==
  LET n == h.data[l][off + 1]
  IN  [of |-> read_binary(h, l, off + 1, n), next |-> off + 1 + n]

load_map(h, l, off) ==
  LET n == h.data[l][off + 1]
  IN  [of   |-> [i \in 1 .. n |-> read_binary(h, l, off + 2 * i - 1, 2)],
       next |-> off + 1 + 2 * n]

load(h, l, off, type) == CASE type = "value" -> load_value(h, l, off)
                           [] type = "seq"   -> load_seq(h, l, off)
                           [] type = "map"   -> load_map(h, l, off)

Seqs  == UNION {[1 .. n -> Value] : n \in 0 .. 2}
Maps  == {<<>>} \union {<<pair>> : pair \in Value \X Value}
Items == [type : {"value"}, of : Value] \union [type : {"seq"}, of : Seqs]
           \union [type : {"map"}, of : Maps]

-----------------------------------------------------------------------------
(* Actions: a call, and what it promises *)

\* LocalSerialize(data) resizes data_ to nothing.
Start(l) ==
  Call([heap EXCEPT !.data[l] = <<>>, !.off[l] = 0, !.got[l] = 0], Emptied(l))

\* LocalSerialize::base, of the first or of a second serializer on the data.
Serialize(l, item) ==
  /\ MapThenSumSet(LAMBDA m : Len(heap.data[m]), Object) + Len(save(item)) <= Words
  /\ Call(write_binary(heap, l, save(item)), Inserted(l, Len(content[l]), item))

\* LocalDeserialize(data)
Open(l) == Call([heap EXCEPT !.off[l] = 0, !.got[l] = 0], content)

\* LocalDeserialize::base, of the type of the next item.
Deserialize(l) ==
  /\ heap.got[l] < Len(content[l])
  /\ Call([heap EXCEPT !.off[l] = load(heap, l, @, content[l][heap.got[l] + 1].type).next,
                       !.got[l] = @ + 1],
          content)

Next ==
  \E l \in Object :
    \/ Start(l) \/ Open(l) \/ Deserialize(l)
    \/ \E item \in Items : Serialize(l, item)

-----------------------------------------------------------------------------
(* Property *)

(***************************************************************************)
(* A reader finds the items that it has not read yet, in the order and     *)
(* with the types in which they were written, and then the end of the data,*)
(* although items are added while it reads (local_serialize.h:75-192,      *)
(* serialize_common.h:126-205).                                            *)
(***************************************************************************)
ReadsBack ==
  \A l \in Object :
    LET left == SubSeq(content[l], heap.got[l] + 1, Len(content[l]))
        Read(acc, item) ==
          LET got == load(heap, l, acc.off, item.type)
          IN  [off |-> got.next, ok |-> acc.ok /\ got.of = item.of]
        all  == FoldLeft(Read, [off |-> heap.off[l], ok |-> TRUE], left)
    IN  all.ok /\ all.off = Len(heap.data[l])
=============================================================================
