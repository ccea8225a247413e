------------------------------- MODULE Vector -------------------------------
(***************************************************************************)
(* vector (data_structures/ipc/vector.h): a buffer of max_length_ slots,   *)
(* length_ of them constructed.  A slot without an object is Raw; a null   *)
(* vec_ptr_ is a buffer of no slots.  heap.bufs counts the buffers that    *)
(* are allocated and heap.live the objects that are constructed and not    *)
(* destroyed: an object moved to another slot is the same one, as its old  *)
(* slot owns nothing any more.                                             *)
(*                                                                         *)
(* Move is the move assignment, and the construction from a vector of the  *)
(* same allocator.  A construction from one of another allocator calls     *)
(* shm_strong_copy_main on a header that nothing wrote (vector.h:417-425): *)
(* it is left out.                                                         *)
(***************************************************************************)
EXTENDS Containers, Integers

Raw == "raw"

NewVectors ==
  [buf |-> [l \in Object |-> <<>>], len |-> [l \in Object |-> 0], bufs |-> 0, live |-> 0]

Cap(h, l)   == Len(h.buf[l])
Elems(h, l) == SubSeq(h.buf[l], 1, h.len[l])
RawSlots(n) == [i \in 1 .. n |-> Raw]

\* 25% more, or 10 slots when that is not much.
GrownCap(cap) == LET more == (5 * cap) \div 4 IN IF more <= cap + 10 THEN more + 10 ELSE more

\* grow_vector to n slots: nothing when they are fewer, else a new buffer with
\* the elements in it and, when fill is not Raw, an object in every other slot.
grow_vector(h, l, n, fill) ==
  LET rest == n - h.len[l]
  IN  IF n < Cap(h, l) THEN h
      ELSE [h EXCEPT !.buf[l] = Elems(h, l) \o [i \in 1 .. rest |-> fill],
                     !.bufs = IF Cap(h, l) = 0 THEN @ + 1 ELSE @,
                     !.live = IF fill = Raw THEN @ ELSE @ + rest]

reserve(h, l, n) == IF n = 0 THEN h ELSE grow_vector(h, l, n, Raw)

\* Elements past a smaller size are not destroyed, and slots within the
\* capacity are not constructed.
resize(h, l, n, v) ==
  IF n = 0 THEN [h EXCEPT !.len[l] = 0]
  ELSE [grow_vector(h, l, n, v) EXCEPT !.len[l] = n]

Room(h, l) ==
  IF h.len[l] = Cap(h, l) THEN grow_vector(h, l, GrownCap(Cap(h, l)), Raw) ELSE h

emplace_back(h, l, v) ==
  LET g == Room(h, l)
  IN  [g EXCEPT !.buf[l][g.len[l] + 1] = v, !.len[l] = @ + 1, !.live = @ + 1]

\* memcpy of one slot after the other, in the order given.
CopySlots(b, from, to, order) ==
  FoldLeft(LAMBDA c, i : [c EXCEPT ![to + i] = c[from + i]], b, order)

ShiftUpwards(b, pos, len) ==           \* from the first element on: overwrites
  CopySlots(b, pos, pos + 1, [i \in 1 .. len - pos |-> i])

\* shift_right: the elements behind pos move up by one, from the last one down.
shift_right(b, pos, len) ==
  CopySlots(b, pos, pos + 1, [i \in 1 .. len - pos |-> len - pos + 1 - i])

\* shift_left: count elements behind pos are destroyed, the others close up.
shift_left(h, l, pos, count) ==
  LET len == h.len[l] - count
      b   == CopySlots(h.buf[l], pos + count, pos, [i \in 1 .. len - pos |-> i])
  IN  [h EXCEPT !.buf[l] = SubSeq(b, 1, len) \o RawSlots(Cap(h, l) - len),
                !.len[l] = len, !.live = @ - count]

\* emplace with pos elements before the new one.
emplace(h, l, pos, v) ==
  LET g == Room(h, l)
      b == shift_right(g.buf[l], pos, g.len[l])
  IN  IF pos = h.len[l] THEN emplace_back(h, l, v)
      ELSE [g EXCEPT !.buf[l] = [b EXCEPT ![pos + 1] = v],
                     !.len[l] = @ + 1, !.live = @ + 1]

\* erase(first, last), with i and j elements before them; erase(pos) and clear.
erase(h, l, i, j) == IF i = h.len[l] \/ i = j THEN h ELSE shift_left(h, l, i, j - i)

\* shm_destroy, shm_destroy_main and SetNull.
Destroy(h, l) ==
  IF Cap(h, l) = 0 THEN h
  ELSE [erase(h, l, 0, h.len[l]) EXCEPT !.buf[l] = <<>>, !.len[l] = 0, !.bufs = @ - 1]

\* shm_strong_copy_main: element by element, or a memcpy of plain data.
CopyOf(h, l, m) ==
  FoldLeft(LAMBDA g, v : emplace_back(g, l, v), reserve(h, l, h.len[m]), Elems(h, m))

\* shm_move_op: the target is not destroyed first, neither when the header is
\* taken over nor when the elements are copied behind its own.
MoveOf(l, m) ==
  IF same
    THEN [heap EXCEPT !.buf = [@ EXCEPT ![l] = heap.buf[m], ![m] = <<>>],
                      !.len = [@ EXCEPT ![l] = heap.len[m], ![m] = 0]]
    ELSE Destroy(CopyOf(heap, l, m), m)

\* load_vec of what save_vec wrote: resize, then an assignment to every slot.
LoadOf(h, l, m) ==
  LET g == resize(h, l, h.len[m], CHOOSE v \in Value : TRUE)
  IN  [g EXCEPT !.buf[l] = [i \in DOMAIN @ |-> IF i <= h.len[m] THEN h.buf[m][i] ELSE @[i]]]

-----------------------------------------------------------------------------
(* Actions: a call, and what it promises *)

Reserve(l, n) == Call(reserve(heap, l, n), content)

Resize(l, n, v) ==
  /\ n >= Cap(heap, l) \/ kind \in Shrinks
  /\ Call(resize(heap, l, n, v),
          Holds(l, [i \in 1 .. n |-> IF i <= Len(content[l]) THEN content[l][i] ELSE v]))

EmplaceBack(l, v)  == Call(emplace_back(heap, l, v), Inserted(l, Len(content[l]), v))
Emplace(l, i, v)   == Call(emplace(heap, l, i, v), Inserted(l, i, v))
Erase(l, i, j)     == Call(erase(heap, l, i, j), Removed(l, i, j))

\* DestructObj of the element, and a new one in its slot.
Replace(l, i, v) ==
  Call([heap EXCEPT !.buf[l][i] = v], Holds(l, [content[l] EXCEPT ![i] = v]))

pop_back(l) ==
  LET n == heap.len[l]
  IN  /\ n > 0
      /\ Call([heap EXCEPT !.buf[l][n] = Raw, !.len[l] = n - 1, !.live = @ - 1],
              Removed(l, n - 1, n))

Clear(l)   == Call(Destroy(heap, l), Emptied(l))
Copy(l, m) == l # m /\ Call(CopyOf(Destroy(heap, l), l, m), Copied(l, m))

\* Into a vector with no room left over, as the tests do.
Load(l, m) ==
  /\ l # m /\ heap.len[m] >= Cap(heap, l)
  /\ Call(LoadOf(heap, l, m), Copied(l, m))

Move(l, m) ==
  /\ l # m
  /\ Cap(heap, l) = 0 \/ kind \in Overwrites
  /\ Call(MoveOf(l, m), Moved(l, m))

Next ==
  \E l \in Object :
    \/ \E n \in 0 .. MaxLen : Reserve(l, n)
    \/ \E n \in 0 .. MaxLen, v \in Value : Resize(l, n, v)
    \/ \E v \in Value : EmplaceBack(l, v)
    \/ \E i \in 0 .. Len(content[l]), v \in Value : Emplace(l, i, v)
    \/ \E i, j \in 0 .. Len(content[l]) : i <= j /\ Erase(l, i, j)
    \/ \E i \in 1 .. Len(content[l]), v \in Value : Replace(l, i, v)
    \/ pop_back(l)
    \/ Clear(l)
    \/ \E m \in Object : Copy(l, m) \/ Load(l, m) \/ Move(l, m)

-----------------------------------------------------------------------------
(* Properties *)

\* Iterators: i_ counts from 0; a reverse one starts at the last element and
\* ends before the first, and ++ goes the other way.
BeginAt(h, l, fwd) == IF fwd THEN 0 ELSE h.len[l] - 1
EndAt(h, l, fwd)   == IF fwd THEN h.len[l] ELSE -1

Advance(i, count, fwd) == IF fwd THEN i + count ELSE i - count
At(h, l, i)            == h.buf[l][i + 1]

\* The elements from begin to end.
Walk(h, l, fwd) ==
  LET seen[i \in -1 .. h.len[l]] ==
        IF i = EndAt(h, l, fwd) THEN <<>> ELSE <<At(h, l, i)>> \o seen[Advance(i, 1, fwd)]
  IN  seen[BeginAt(h, l, fwd)]

(***************************************************************************)
(* The first length_ slots hold what the calls promised, each of them an   *)
(* object that was constructed (vector.h:399-760).                         *)
(***************************************************************************)
ElementsKept == \A l \in Object : Elems(heap, l) = content[l]

(***************************************************************************)
(* A walk visits every element once, from the first to the last, and a     *)
(* reverse walk the same ones backwards (vector.h:30-243, 763-797).        *)
(***************************************************************************)
BothWays ==
  \A l \in Object :
    Walk(heap, l, TRUE) = content[l] /\ Walk(heap, l, FALSE) = Reverse(content[l])

(***************************************************************************)
(* Every object that is constructed is an element of a vector and every    *)
(* buffer that is allocated belongs to one: nothing is leaked, destroyed   *)
(* twice, or freed with objects in it (vector.h:435-447, 668-736).         *)
(***************************************************************************)
NothingLeaked ==
  /\ heap.live = MapThenSumSet(LAMBDA l : heap.len[l], Object)
  /\ heap.bufs = Cardinality({l \in Object : Cap(heap, l) > 0})
=============================================================================
