---------------------------- MODULE ListObjects -----------------------------
(***************************************************************************)
(* Objects that are lists, all of them of the class kind: the entries they *)
(* share and the calls of list and of slist.  MCContainers adds the other  *)
(* classes; what the two lists keep is a matter of this module alone, and  *)
(* ListProofs proves it.                                                   *)
(***************************************************************************)
EXTENDS Containers

Linked == INSTANCE LinkedEntries
DList  == INSTANCE List
SList  == INSTANCE SList
=============================================================================
