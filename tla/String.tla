------------------------------- MODULE String -------------------------------
(***************************************************************************)
(* string_templ (data_structures/ipc/string.h): a string of at most SSO    *)
(* characters is in the object (sso_), a longer one in a buffer (text_);   *)
(* data() goes by length_.  kind "charwrap" is the type with kWrap, which  *)
(* points to the caller's characters until it needs more room; it is used  *)
(* with one allocator.                                                     *)
(*                                                                         *)
(* heap.text[l] is the memory that text_ (or data_) points to, Raw where   *)
(* nothing was written; heap.bufs counts the buffers that are allocated.   *)
(* A promise is Raw where a call leaves a character open.                  *)
(***************************************************************************)
EXTENDS Containers

SSO == 1
Raw == "raw"

NullStrings(S) ==
  [len  |-> [l \in S |-> 0], max  |-> [l \in S |-> 0],
   sso  |-> [l \in S |-> <<Raw>>], text |-> [l \in S |-> <<>>],
   wrap |-> [l \in S |-> FALSE], bufs |-> 0]

NewStrings == NullStrings(Object)

RawChars(n) == [i \in 1 .. n |-> Raw]

\* data(), and the length_ characters there.
data(h, l) == IF h.wrap[l] \/ h.len[l] > SSO THEN h.text[l] ELSE h.sso[l]
str(h, l)  == SubSeq(data(h, l), 1, h.len[l])

\* _create_str(length): room for n characters; text_ stays when they fit sso_.
Create(h, l, n) ==
  LET g == [h EXCEPT !.wrap[l] = FALSE, !.len[l] = n]
  IN  IF n <= SSO THEN [g EXCEPT !.max[l] = SSO]
      ELSE [g EXCEPT !.text[l] = RawChars(n), !.max[l] = n, !.bufs = @ + 1]

\* memcpy of chars to data().
Write(h, l, chars) ==
  LET over(old) == [i \in DOMAIN old |-> IF i <= Len(chars) THEN chars[i] ELSE old[i]]
  IN  IF h.wrap[l] \/ h.len[l] > SSO THEN [h EXCEPT !.text[l] = over(@)]
      ELSE [h EXCEPT !.sso[l] = over(@)]

CreateFrom(h, l, chars, n) ==
  Write(Create(h, l, n), l, SubSeq(chars, 1, IF Len(chars) < n THEN Len(chars) ELSE n))

OwnsBuffer(h, l) == h.max[l] > SSO /\ ~h.wrap[l]

\* shm_destroy: nothing when the length is 0; SetNull keeps max_length_.
Destroy(h, l) ==
  IF h.len[l] = 0 THEN h
  ELSE [h EXCEPT !.len[l] = 0, !.wrap[l] = FALSE, !.text[l] = <<>>,
                 !.bufs = IF OwnsBuffer(h, l) THEN @ - 1 ELSE @]

\* shm_strong_copy_op and shm_weak_wrap_op, assigned.
StrongCopy(h, l, chars) == CreateFrom(Destroy(h, l), l, chars, Len(chars))
WeakWrap(h, l, chars) ==
  [Destroy(h, l) EXCEPT !.wrap[l] = TRUE, !.text[l] = chars, !.len[l] = Len(chars),
                        !.max[l] = Len(chars)]

ShrinkAnyhow(h, l, n) ==               \* the buffer not freed when sso_ takes over
  IF h.len[l] = 0 THEN Create(h, l, n)
  ELSE IF h.wrap[l] /\ n < h.max[l] THEN [h EXCEPT !.len[l] = n]
  ELSE IF ~h.wrap[l] /\ h.len[l] > SSO /\ n > SSO /\ n <= h.len[l]
    THEN [h EXCEPT !.len[l] = n]
  ELSE CreateFrom(h, l, str(h, l), n)

\* resize.  A null string is created anew.  A wrapped one keeps the caller's
\* memory below its size.  From sso_ the string moves to a buffer when it
\* outgrows it, from a buffer back to sso_ when it fits; a buffer is reallocated
\* to grow and kept to shrink.
resize(h, l, n) ==
  LET chars == str(h, l)
      g     == [h EXCEPT !.len[l] = n]
  IN  IF h.len[l] = 0 THEN Create(h, l, n)
      ELSE IF h.wrap[l] THEN IF n < h.max[l] THEN g ELSE CreateFrom(h, l, chars, n)
      ELSE IF h.len[l] <= SSO THEN IF n <= SSO THEN g ELSE CreateFrom(h, l, chars, n)
      ELSE IF n > h.len[l]
        THEN [g EXCEPT !.text[l] = chars \o RawChars(n - Len(chars)), !.max[l] = n]
      ELSE IF n <= SSO THEN [CreateFrom(h, l, chars, n) EXCEPT !.bufs = @ - 1]
      ELSE g

\* shm_move_op: move_copy takes the pointers over and copies sso_ when the
\* characters are there; the target is not destroyed.  A construction is left out
\* when the allocators differ: it tests is_wrap_ before anything wrote it.
MoveOf(h, l, m) ==
  IF h.wrap[l] \/ same
    THEN [h EXCEPT
            !.len  = [@ EXCEPT ![l] = h.len[m], ![m] = 0],
            !.max[l] = h.max[m],
            !.text = [@ EXCEPT ![l] = h.text[m], ![m] = <<>>],
            !.wrap = [@ EXCEPT ![l] = h.wrap[m], ![m] = FALSE],
            !.sso[l] = IF h.len[m] <= SSO /\ ~h.wrap[m] THEN h.sso[m] ELSE @]
    ELSE Destroy(CreateFrom(h, l, str(h, m), h.len[m]), m)

-----------------------------------------------------------------------------
(* Actions: a call, and what it promises *)

Wraps == kind = "charwrap"

\* The calls that forget the buffer of their target: move assignment, and
\* assignment of a const char*, which goes by the operator of a constructor.
Forgets(l) == ~(heap.len[l] > 0 /\ OwnsBuffer(heap, l)) \/ kind \in Overwrites

Assign(l, chars) ==
  Call(IF Wraps THEN WeakWrap(heap, l, chars) ELSE StrongCopy(heap, l, chars),
       Holds(l, chars))

AssignChars(l, chars) ==
  /\ ~Wraps /\ Forgets(l)
  /\ Call(CreateFrom(heap, l, chars, Len(chars)), Holds(l, chars))

Resize(l, n) ==
  Call(resize(heap, l, n),
       Holds(l, [i \in 1 .. n |-> IF i <= Len(content[l]) THEN content[l][i] ELSE Raw]))

Clear(l)   == Call(Destroy(heap, l), Emptied(l))
Copy(l, m) ==
  l # m /\ ~Wraps /\ Call(StrongCopy(heap, l, str(heap, m)), Copied(l, m))

\* load_string of what save_string wrote: resize, then the characters.
Load(l, m) ==
  /\ l # m
  /\ ~heap.wrap[l]                     \* it would write to the caller's memory
  /\ Call(Write(resize(heap, l, heap.len[m]), l, str(heap, m)), Copied(l, m))

Move(l, m) == l # m /\ Forgets(l) /\ Call(MoveOf(heap, l, m), Moved(l, m))

Text == UNION {[1 .. n -> Value] : n \in 0 .. MaxLen}

Next ==
  \E l \in Object :
    \/ \E chars \in Text : Assign(l, chars) \/ AssignChars(l, chars)
    \/ \E n \in 0 .. MaxLen : Resize(l, n)
    \/ Clear(l)
    \/ \E m \in Object : Copy(l, m) \/ Load(l, m) \/ Move(l, m)

-----------------------------------------------------------------------------
(* Properties *)

\* data() of l shows the characters.
Reads(l, chars) ==
  /\ heap.len[l] = Len(chars)
  /\ Len(data(heap, l)) >= heap.len[l]
  /\ \A i \in DOMAIN chars : chars[i] \in {Raw, data(heap, l)[i]}

(***************************************************************************)
(* data() has length_ characters, those that the calls promised, wherever  *)
(* the string lives after they made it shorter and longer (string.h:352-   *)
(* 440).                                                                   *)
(***************************************************************************)
TextKept == \A l \in Object : Reads(l, content[l])

\* The buffers that are allocated are those of S, each of one string.
OneOwner(S) == heap.bufs = Cardinality({l \in S : heap.len[l] > 0 /\ OwnsBuffer(heap, l)})

(***************************************************************************)
(* Every buffer that is allocated belongs to one string: none is leaked or *)
(* freed twice, and the caller's characters are never freed (string.h:310- *)
(* 346, 395-440).                                                          *)
(***************************************************************************)
BuffersOwned == OneOwner(Object)
=============================================================================
