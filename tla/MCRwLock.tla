------------------------------ MODULE MCRwLock ------------------------------
(* RwLock for TLC, with the symmetry of its threads. *)
EXTENDS RwLock, TLC

Perms == Permutations(Thread)
=============================================================================
