------------------------------- MODULE MCMemory -------------------------------
(* AllocatorApi for TLC: two processes, one url, two backend ids, two regions of
   six bytes, one page of one or two bytes; the regions' main ids are <<1, 0>>,
   which goes to an allocator over pages, and <<2, 0>>, to one of the others. *)
EXTENDS AllocatorApi

MCKinds == <<{"scalable"}, {"stack", "malloc"}>>
Perms == Permutations(Process)
=============================================================================
