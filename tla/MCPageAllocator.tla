--------------------------- MODULE MCPageAllocator ---------------------------
(* PageAllocator for TLC: classes of 2, 4 and 8 bytes, a header of 1 byte. *)
(* A request of 1 is smaller than every class, one of 9 larger.            *)
EXTENDS PageAllocator

MCRequests == [thread_local |-> {1, 2, 3}, scalable |-> {1, 3, 9}]
Perms == Permutations(Thread)
=============================================================================
