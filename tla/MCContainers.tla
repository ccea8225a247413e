---------------------------- MODULE MCContainers ----------------------------
(* Two objects of one of the container types. *)
EXTENDS ListObjects

Queue  == INSTANCE LifoListQueue
Vec    == INSTANCE Vector
Str    == INSTANCE String
Map    == INSTANCE UnorderedMap
DQueue == INSTANCE DynamicQueue
Keys   == INSTANCE KeySet
Rings  == INSTANCE QueueContainers
Two    == INSTANCE Pair
Chars  == INSTANCE CharArr
Local  == INSTANCE LocalSerialize
Mine   == INSTANCE EntryQueues

Strings == {"string", "charwrap"}
KeySets == {"spsc_key_set", "mpmc_key_set"}

Init == /\ kind \in Kinds
        /\ same \in (IF kind \in {"charwrap", "chararr", "archive"} \union KeySets \union Mine!EntryQueueKinds THEN {TRUE} ELSE BOOLEAN)
        /\ content = [l \in Object |-> IF kind \in Two!Pairs THEN Two!NoPair ELSE <<>>]
        /\ heap = CASE kind \in Lists   -> Linked!NewLists
                    [] kind \in Mine!EntryQueueKinds -> Mine!NewEntryQueues
                    [] kind = "vector"  -> Vec!NewVectors
                    [] kind \in Strings -> Str!NewStrings
                    [] kind = "unordered_map" -> Map!NewMaps
                    [] kind = "dynamic_queue" -> DQueue!NewQueues
                    [] kind \in KeySets -> Keys!NewKeySets
                    [] kind \in Rings!Queues -> Rings!NewQueueObjects(1)
                    [] kind \in Two!Pairs -> Two!NewPairs
                    [] kind = "chararr" -> Chars!NewArrays
                    [] kind = "archive" -> Local!NewArchives

Next == \/ kind = "list" /\ DList!Next
        \/ kind = "slist" /\ SList!Next
        \/ kind = "lifo_list_queue" /\ Queue!Next
        \/ kind \in Mine!EntryQueueKinds /\ Mine!Next
        \/ kind = "vector" /\ Vec!Next
        \/ kind \in Strings /\ Str!Next
        \/ kind = "unordered_map" /\ Map!Next
        \/ kind = "dynamic_queue" /\ DQueue!QueueNext
        \/ kind \in KeySets /\ Keys!Next
        \/ kind \in Rings!Queues /\ Rings!Next
        \/ kind \in Two!Pairs /\ Two!Next
        \/ kind = "chararr" /\ Chars!Next
        \/ kind = "archive" /\ Local!Next

Spec == Init /\ [][Next]_vars

-----------------------------------------------------------------------------
(* Properties *)

(***************************************************************************)
(* What the calls promised is what a reader of an object finds, in its     *)
(* order, and as much of it: list.h:483-512, slist.h:505-530,              *)
(* lifo_list_queue.h:425-447, vector.h:504-656, string.h:376-404,          *)
(* unordered_map.h:416-549.                                                *)
(***************************************************************************)
ContentsKept ==
  CASE kind \in Lists          -> Linked!HoldsContent
    [] kind \in Mine!EntryQueueKinds -> Mine!DrainsInOrder
    [] kind = "vector"         -> Vec!ElementsKept
    [] kind \in Strings        -> Str!TextKept
    [] kind = "unordered_map"  -> Map!PairsKept
    [] kind = "dynamic_queue"  -> DQueue!TokensMatch
    [] kind \in KeySets        -> Keys!KeysApart
    [] kind \in Rings!Queues   -> Rings!EntriesKept
    [] kind \in Two!Pairs      -> Two!PartsKept
    [] kind = "chararr"        -> Chars!CharsKept
    [] kind = "archive"        -> Local!ReadsBack

(***************************************************************************)
(* The entries, buffers and elements that are allocated are those of the   *)
(* objects, each of one object: no sequence of calls on objects that were  *)
(* constructed, and of assignments to them, leaks, frees twice or shares   *)
(* one (list.h:340-356, 428-455, slist.h:335-371, vector.h:435-447,        *)
(* 668-736, string.h:298-345, 406-449).                                    *)
(***************************************************************************)
MemoryOwned ==
  CASE kind \in Lists \union Mine!EntryQueueKinds \union {"dynamic_queue"} -> Linked!EntriesOwned
    [] kind = "vector"         -> Vec!NothingLeaked
    [] kind \in Strings        -> Str!BuffersOwned
    [] kind \in Rings!Queues   -> Rings!VectorsOwned
    [] kind \in Two!Pairs      -> Two!PartsOwned
    [] OTHER                   -> TRUE

(***************************************************************************)
(* A list or a vector can be walked from either end (list.h:86-132,        *)
(* 493-500, vector.h:84-165, 763-797), whatever was moved or erased: the   *)
(* prior links of a list are its next links reversed.                      *)
(***************************************************************************)
BothWays == /\ kind \in Lists => Linked!BothWays
            /\ kind = "vector" => Vec!BothWays
=============================================================================
