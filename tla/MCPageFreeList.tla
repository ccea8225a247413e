--------------------------- MODULE MCPageFreeList ---------------------------
(* PageFreeList for TLC: three threads free pages, two of them allocate. *)
EXTENDS PageFreeList

CONSTANTS t1, t2, t3

Threads    == {t1, t2, t3}
Allocators == {t1, t2}
=============================================================================
