----------------------------- MODULE Containers -----------------------------
(***************************************************************************)
(* What the containers of data_structures/ipc promise to the one thread    *)
(* that uses an object: shared by the modules of the container types.  One *)
(* action is one call.                                                     *)
(*                                                                         *)
(* content is a history: what the calls so far promise every object to     *)
(* hold, as the std:: container of that name would.  heap is the memory of *)
(* the objects, laid out by the module of their kind.                      *)
(*                                                                         *)
(* Several calls break a promise (the findings of the README).  A kind     *)
(* makes such a call only when a constant names it: Fronts for             *)
(* emplace_front, Middles for emplace before an inner entry, Overwrites for*)
(* a move or a copy over an object that holds something or memory that was *)
(* not cleared, Shrinks for a resize within the capacity, ReUse for pushing*)
(* to a moved-from object.                                                 *)
(* MaxLen bounds the objects of a run together.                            *)
(***************************************************************************)
EXTENDS Naturals, Sequences, FiniteSets, SequencesExt

CONSTANTS Object, Value, Kinds, Fronts, Middles, Overwrites, Shrinks, ReUse, MaxLen

ASSUME ContainerAssumption ==
  /\ UNION {Fronts, Middles, Overwrites, Shrinks, ReUse} \subseteq Kinds
  /\ MaxLen \in Nat

VARIABLES
  kind,     \* the container type in use; it never changes
  same,     \* whether the objects have one allocator; it never changes
  heap,     \* the objects and the memory they use
  content   \* history: the values each object should hold, in order

vars == <<kind, same, heap, content>>

Lists == {"list", "slist", "lifo_list_queue"}

\* The objects hold at most MaxLen values together.
Fits(c) == MapThenSumSet(LAMBDA l : Len(c[l]), Object) <= MaxLen

\* A call that leaves the heap at h and the promises at c.
Becomes(h, c) ==
  /\ heap' = h
  /\ content' = c
  /\ UNCHANGED <<kind, same>>

Call(h, c) == Fits(c) /\ Becomes(h, c)

Holds(l, s)        == [content EXCEPT ![l] = s]
Inserted(l, i, v)  == Holds(l, InsertAt(content[l], i + 1, v))
Removed(l, i, j)   == Holds(l, SubSeq(content[l], 1, i)
                                 \o SubSeq(content[l], j + 1, Len(content[l])))
FirstRemoved(l, v) == Holds(l, IF Contains(content[l], v)
                                 THEN RemoveFirst(content[l], v) ELSE content[l])
Emptied(l)         == Holds(l, <<>>)
Copied(l, m)       == Holds(l, content[m])
Moved(l, m)        == [content EXCEPT ![l] = content[m], ![m] = <<>>]
=============================================================================
