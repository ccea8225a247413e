-------------------------------- MODULE Pair --------------------------------
(***************************************************************************)
(* pair (data_structures/ipc/pair.h) and tuple (tuple_base.h) of two       *)
(* strings: <<l, 1>> and <<l, 2>> are the parts of object l.  A pair keeps *)
(* them in ShmArchives, memory that its own calls construct and destroy,   *)
(* and is never null; a tuple has them as members.                         *)
(***************************************************************************)
EXTENDS Containers

Str == INSTANCE String

Sides == <<1, 2>>
Part  == Object \X {1, 2}
Pairs == {"pair", "tuple"}

NewPairs == Str!NullStrings(Part)
NoPair   == <<<<>>, <<>>>>

\* shm_destroy: a pair is never null, so its parts are destroyed every time.
Destroy(h, l) == FoldLeft(LAMBDA g, i : Str!Destroy(g, <<l, i>>), h, Sides)

\* Part by part, with the strings' own copy assignment.
CopyParts(h, l, m) ==
  FoldLeft(LAMBDA g, i : Str!StrongCopy(g, <<l, i>>, Str!str(g, <<m, i>>)), h, Sides)

\* Part by part, with the strings' own move.
MoveParts(h, l, m) ==
  FoldLeft(LAMBDA g, i : Str!MoveOf(g, <<l, i>>, <<m, i>>), h, Sides)

PairCopyOf(h, l, m) == CopyParts(Destroy(h, l), l, m)
TupleCopyOf(h, l, m) == CopyParts(h, l, m)

\* With two allocators a pair is copied and its source destroyed; a tuple
\* leaves that to each part.
PairMoveOf(h, l, m) == IF same THEN MoveParts(h, l, m) ELSE Destroy(CopyParts(h, l, m), m)
TupleMoveOf(h, l, m) == MoveParts(h, l, m)

-----------------------------------------------------------------------------
(* Actions: a call, and what it promises *)

\* Four strings, with one character less together: a buffer needs SSO + 1.
Chars  == UNION {[1 .. n -> Value] : n \in 0 .. MaxLen - 1}
Halves == {c \in Chars \X Chars : Len(c[1]) + Len(c[2]) < MaxLen}

PartCall(h, c) ==
  /\ MapThenSumSet(LAMBDA x : Len(c[x[1]][x[2]]), Part) < MaxLen
  /\ Becomes(h, c)

\* The constructors from two strings, copied, moved or made of packed arguments,
\* in the place of an object that was destroyed or moved from.
Emplace(l, first, second) ==
  /\ content[l] = NoPair
  /\ PartCall(Str!CreateFrom(Str!CreateFrom(heap, <<l, 1>>, first, Len(first)),
                             <<l, 2>>, second, Len(second)),
              Holds(l, <<first, second>>))

\* An assignment to GetFirst() or GetSecond(), Get<0>() or Get<1>().
AssignPart(l, i, chars) ==
  PartCall(Str!StrongCopy(heap, <<l, i>>, chars), [content EXCEPT ![l][i] = chars])

shm_destroy(l) == PartCall(Destroy(heap, l), Holds(l, NoPair))

Copy(l, m) ==
  /\ l # m
  /\ PartCall(IF kind = "pair" THEN PairCopyOf(heap, l, m) ELSE TupleCopyOf(heap, l, m),
              Copied(l, m))

\* The strings forget the buffers they had, unless a pair copies them.
Move(l, m) ==
  /\ l # m
  /\ (kind = "pair" /\ ~same) \/ \A i \in {1, 2} : Str!Forgets(<<l, i>>)
  /\ PartCall(IF kind = "pair" THEN PairMoveOf(heap, l, m) ELSE TupleMoveOf(heap, l, m),
              [content EXCEPT ![l] = content[m], ![m] = NoPair])

Next ==
  \E l \in Object :
    \/ \E c \in Halves : Emplace(l, c[1], c[2])
    \/ \E i \in {1, 2}, chars \in Chars : AssignPart(l, i, chars)
    \/ shm_destroy(l)
    \/ \E m \in Object : Copy(l, m) \/ Move(l, m)

-----------------------------------------------------------------------------
(* Properties *)

(***************************************************************************)
(* Both parts read as the calls promised, whatever was copied or moved     *)
(* part by part (pair.h:117-208, tuple_base.h:46-76).                      *)
(***************************************************************************)
PartsKept == \A x \in Part : Str!Reads(x, content[x[1]][x[2]])

(***************************************************************************)
(* Every buffer belongs to one part of one object (pair.h:156-222).        *)
(***************************************************************************)
PartsOwned == Str!OneOwner(Part)
=============================================================================
