------------------------------ MODULE CharArr ------------------------------
(***************************************************************************)
(* chararr_templ (data_structures/ipc/chararr.h): up to LENGTH characters  *)
(* in the object itself, with a terminator behind them (WithNull).  A      *)
(* promise is Raw where a call leaves a character open.                    *)
(***************************************************************************)
EXTENDS Containers

LENGTH == 2
Raw    == "raw"
Nul    == "nul"

Chars == UNION {[1 .. n -> Value] : n \in 0 .. MaxLen}

\* The default constructor leaves buf_ and length_ open; every object is made
\* of an empty string.
NewArrays ==
  [buf |-> [l \in Object |-> <<Nul>> \o [i \in 1 .. LENGTH |-> Raw]],
   len |-> [l \in Object |-> 0]]

str(h, l) == SubSeq(h.buf[l], 1, h.len[l])

\* memcpy to buf_, and the terminator.
Write(h, l, chars) ==
  LET n == Len(chars)
  IN  [h EXCEPT !.len[l] = n,
                !.buf[l] = [i \in DOMAIN @ |-> IF i <= n THEN chars[i]
                                               ELSE IF i = n + 1 THEN Nul ELSE @[i]]]

\* resize: the length alone; no terminator is written.
resize(h, l, n) == [h EXCEPT !.len[l] = n]

\* read_binary after a resize, which writes no terminator either.
LoadOf(h, l, chars) ==
  LET g == resize(h, l, Len(chars))
  IN  [g EXCEPT !.buf[l] = [i \in DOMAIN @ |-> IF i <= Len(chars) THEN chars[i] ELSE @[i]]]

-----------------------------------------------------------------------------
(* Actions: a call, and what it promises *)

\* From const char *: at most LENGTH characters are taken.
Assign(l, chars) ==
  LET taken == SubSeq(chars, 1, IF Len(chars) < LENGTH THEN Len(chars) ELSE LENGTH)
  IN  Call(Write(heap, l, taken), Holds(l, taken))

\* From a sized char * or a std::string, which are trusted to fit.
AssignSized(l, chars) ==
  Len(chars) <= LENGTH /\ Call(Write(heap, l, chars), Holds(l, chars))

Resize(l, n) ==
  Call(resize(heap, l, n),
       Holds(l, [i \in 1 .. n |-> IF i <= Len(content[l]) THEN content[l][i] ELSE Raw]))

\* The source of a move keeps its characters.
Copy(l, m) == l # m /\ Call(Write(heap, l, str(heap, m)), Copied(l, m))
Load(l, m) == l # m /\ Call(LoadOf(heap, l, str(heap, m)), Copied(l, m))

Next ==
  \E l \in Object :
    \/ \E chars \in Chars : Assign(l, chars) \/ AssignSized(l, chars)
    \/ \E n \in 0 .. LENGTH : Resize(l, n)
    \/ \E m \in Object : Copy(l, m) \/ Load(l, m)

-----------------------------------------------------------------------------
(* Property *)

(***************************************************************************)
(* data() has length_ characters within buf_, those that the calls         *)
(* promised (chararr.h:40-145).                                            *)
(***************************************************************************)
CharsKept ==
  \A l \in Object :
    /\ heap.len[l] = Len(content[l]) /\ heap.len[l] <= LENGTH
    /\ \A i \in DOMAIN content[l] : content[l][i] \in {Raw, heap.buf[l][i]}
=============================================================================
