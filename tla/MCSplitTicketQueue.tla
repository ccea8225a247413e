------------------------- MODULE MCSplitTicketQueue -------------------------
(* Three threads on two splits of one slot, or with other constants. *)
EXTENDS SplitTicketQueue, TLC

Symmetry == Permutations(Thread) \union Permutations(Ticket)
=============================================================================
