-------------------------- MODULE ContainerProofs ---------------------------
(***************************************************************************)
(* The theorems about list and slist as MCContainers has them, among the   *)
(* objects of all classes: what they hold is what their calls promised,    *)
(* their entries are all that is allocated, and they can be walked from    *)
(* both ends, for every finite set of objects, every set of values and     *)
(* every bound (SoundCalls has the calls that break a promise).            *)
(*                                                                         *)
(* The steps of list and slist are those of ListProofs. The calls of the   *)
(* other classes leave the class of the objects alone, so an object that   *)
(* is a list has never been anything else (KindStays).                     *)
(***************************************************************************)
EXTENDS MCContainers, ListProofs

-----------------------------------------------------------------------------
(* The steps of the other containers *)

LEMMA SameLifoListQueue ==
  ASSUME Queue!Next  PROVE kind' = kind /\ same' = same
  <1>1. \A h, c : Queue!Call(h, c) => kind' = kind /\ same' = same
    BY DEF Queue!Call, Queue!Becomes
  <1>2. QED
    BY <1>1
    DEF Queue!Next, Queue!Push, Queue!Pop, Queue!PopAt, Queue!clear, Queue!Move

LEMMA SameEntryQueues ==
  ASSUME Mine!Next  PROVE kind' = kind /\ same' = same
  <1>1. \A h, c : Mine!Call(h, c) => kind' = kind /\ same' = same
    BY DEF Mine!Call, Mine!Becomes
  <1>2. QED
    BY <1>1
    DEF Mine!Next, Mine!EnqueueLifo, Mine!EnqueueFifo, Mine!DequeueLifo, Mine!DequeueFifo,
        Mine!Clear

LEMMA SameVector ==
  ASSUME Vec!Next  PROVE kind' = kind /\ same' = same
  <1>1. \A h, c : Vec!Call(h, c) => kind' = kind /\ same' = same
    BY DEF Vec!Call, Vec!Becomes
  <1>2. QED
    BY <1>1
    DEF Vec!Next, Vec!Reserve, Vec!Resize, Vec!EmplaceBack, Vec!Emplace, Vec!Erase, Vec!Replace,
        Vec!pop_back, Vec!Clear, Vec!Copy, Vec!Load, Vec!Move

LEMMA SameString ==
  ASSUME Str!Next  PROVE kind' = kind /\ same' = same
  <1>1. \A h, c : Str!Call(h, c) => kind' = kind /\ same' = same
    BY DEF Str!Call, Str!Becomes
  <1>2. QED
    BY <1>1
    DEF Str!Next, Str!Assign, Str!AssignChars, Str!Resize, Str!Clear, Str!Copy, Str!Load, Str!Move

LEMMA SameUnorderedMap ==
  ASSUME Map!Next  PROVE kind' = kind /\ same' = same
  <1>1. \A h, c : Map!Call(h, c) => kind' = kind /\ same' = same
    BY DEF Map!Call, Map!Becomes
  <1>2. QED
    BY <1>1
    DEF Map!Next, Map!Emplace, Map!TryEmplace, Map!Erase, Map!clear, Map!shm_destroy, Map!Copy,
        Map!CopyConstruct, Map!Move

LEMMA SameDynamicQueue ==
  ASSUME DQueue!QueueNext  PROVE kind' = kind /\ same' = same
  <1>1. \A h, c : DQueue!Call(h, c) => kind' = kind /\ same' = same
    BY DEF DQueue!Call, DQueue!Becomes
  <1>2. QED
    BY <1>1
    DEF DQueue!QueueNext, DQueue!Push, DQueue!Pop, DQueue!CopyQueue, DQueue!MoveQueue

LEMMA SameKeySet ==
  ASSUME Keys!Next  PROVE kind' = kind /\ same' = same
  <1>1. \A h, c : Keys!Call(h, c) => kind' = kind /\ same' = same
    BY DEF Keys!Call, Keys!Becomes
  <1>2. QED
    BY <1>1
    DEF Keys!Next, Keys!emplace, Keys!erase

LEMMA SameQueueContainers ==
  ASSUME Rings!Next  PROVE kind' = kind /\ same' = same
  <1>1. \A h, c : Rings!Call(h, c) => kind' = kind /\ same' = same
    BY DEF Rings!Call, Rings!Becomes
  <1>2. \A l, n : Rings!shm_init(l, n) \/ Rings!Resize(l, n) => kind' = kind /\ same' = same
    BY <1>1 DEF Rings!shm_init, Rings!Resize
  <1>3. \A l, v : Rings!Push(l, v) \/ Rings!PushSplit(l, v) => kind' = kind /\ same' = same
    BY <1>1 DEF Rings!Push, Rings!PushSplit
  <1>4. \A l : Rings!Pop(l) \/ Rings!PopBack(l) \/ Rings!PopSplit(l) => kind' = kind /\ same' = same
    BY <1>1 DEF Rings!Pop, Rings!PopBack, Rings!PopSplit
  <1>5. \A l, m : Rings!Copy(l, m) \/ Rings!Move(l, m) => kind' = kind /\ same' = same
    BY <1>1 DEF Rings!Copy, Rings!Move
  <1>6. \A l : Rings!shm_destroy(l) => kind' = kind /\ same' = same
    BY <1>1 DEF Rings!shm_destroy
  <1>7. QED  BY <1>2, <1>3, <1>4, <1>5, <1>6 DEF Rings!Next

LEMMA SamePair ==
  ASSUME Two!Next  PROVE kind' = kind /\ same' = same
  <1>1. \A h, c : Two!PartCall(h, c) => kind' = kind /\ same' = same
    BY DEF Two!PartCall, Two!Becomes
  <1>2. QED
    BY <1>1
    DEF Two!Next, Two!Emplace, Two!AssignPart, Two!shm_destroy, Two!Copy, Two!Move

LEMMA SameCharArr ==
  ASSUME Chars!Next  PROVE kind' = kind /\ same' = same
  <1>1. \A h, c : Chars!Call(h, c) => kind' = kind /\ same' = same
    BY DEF Chars!Call, Chars!Becomes
  <1>2. QED
    BY <1>1
    DEF Chars!Next, Chars!Assign, Chars!AssignSized, Chars!Resize, Chars!Copy, Chars!Load

LEMMA SameLocalSerialize ==
  ASSUME Local!Next  PROVE kind' = kind /\ same' = same
  <1>1. \A h, c : Local!Call(h, c) => kind' = kind /\ same' = same
    BY DEF Local!Call, Local!Becomes
  <1>2. QED
    BY <1>1
    DEF Local!Next, Local!Start, Local!Open, Local!Deserialize, Local!Serialize

-----------------------------------------------------------------------------
(* The lists, for every finite set of objects and every bound *)

Chained == {"list", "slist"}

\* The calls that break no promise: list has no emplace_front, and no list an
\* emplace before an inner entry.
SoundCalls == IsFiniteSet(Object) /\ "list" \notin Fronts /\ Chained \cap Middles = {}

\* The inductive invariant: Links of ListProofs, for the objects that are lists.
ListsHeld == kind \in Chained => Links

LEMMA KindsApart ==
  ASSUME kind \in Chained
  PROVE  /\ kind \in Lists /\ kind # "lifo_list_queue" /\ kind # "vector" /\ kind # "unordered_map"
         /\ kind # "dynamic_queue" /\ kind # "chararr" /\ kind # "archive"
         /\ kind \notin Mine!EntryQueueKinds /\ kind \notin Strings /\ kind \notin KeySets
         /\ kind \notin Rings!Queues /\ kind \notin Two!Pairs
  BY DEF Chained, Lists, Mine!EntryQueueKinds, Mine!Lifo, Mine!Fifo, Strings, KeySets,
         Rings!Queues, Rings!Splits, Two!Pairs

LEMMA ListsStart ==
  ASSUME SoundCalls, Init
  PROVE  ListsHeld
  <1>1. SUFFICES ASSUME kind \in Chained  PROVE Links
    BY DEF ListsHeld
  <1>2. heap = Linked!NewLists
    BY <1>1, KindsApart DEF Init
  <1>3. content = [l \in Object |-> <<>>]
    BY <1>1, KindsApart DEF Init
  <1>4. Held(heap, content)
    BY <1>2, <1>3, NoneHeld DEF SoundCalls
  <1>5. Count(content) = 0
    <2>1. \A l \in Object : Len(content[l]) = 0
      BY <1>3
    <2>2. QED  BY <2>1, CountNone DEF SoundCalls
  <1>6. QED  BY <1>4, <1>5, ContainerAssumption DEF Links

LEMMA KindStays ==
  ASSUME [Next]_vars, kind \notin Chained
  PROVE  kind' = kind
  <1>1. kind # "list" /\ kind # "slist"
    BY DEF Chained
  <1>2. CASE UNCHANGED vars
    BY <1>2 DEF vars
  <1>3. CASE Next
    <2>1. \/ Queue!Next \/ Mine!Next \/ Vec!Next \/ Str!Next \/ Map!Next \/ DQueue!QueueNext
          \/ Keys!Next \/ Rings!Next \/ Two!Next \/ Chars!Next \/ Local!Next
      BY <1>1, <1>3 DEF Next
    <2>2. QED
      BY <2>1, SameLifoListQueue, SameEntryQueues, SameVector, SameString, SameUnorderedMap,
         SameDynamicQueue, SameKeySet, SameQueueContainers, SamePair, SameCharArr,
         SameLocalSerialize
  <1>4. QED  BY <1>2, <1>3

LEMMA KeptLinks ==
  ASSUME Kept
  PROVE  Links'
  <1>1. Held(heap', content') /\ Count(content') <= MaxLen /\ kind' = kind
    BY DEF Kept
  <1>2. PICK P : Laid(heap', P, content') /\ content' = [k \in Object |-> content'[k]]
    BY <1>1 DEF Held
  <1>3. /\ heap' \in Heaps /\ P \in [Object -> Seq(Nodes)]
        /\ \A l \in Object : Path(heap', l, P[l], content'[l])
        /\ \A l, m \in Object : l # m => Own(P[l]) \cap Own(P[m]) = {}
        /\ heap'.used = UNION {Own(P[l]) : l \in Object}
        /\ Cardinality(heap'.used) = Count(content')
    BY <1>2 DEF Laid
  <1>4. ASSUME NEW l \in Object  PROVE (Path(heap, l, P[l], content[l]))'
    <2>1. Path(heap', l, P[l], content'[l])
      BY <1>3
    <2>2. QED  BY Zenon, <1>1, <2>1 DEF Path
  <1>5. (Laid(heap, P, content))'
    BY <1>3, <1>4 DEF Laid
  <1>6. (Held(heap, content))'
    BY <1>2, <1>5 DEF Held
  <1>7. QED  BY <1>1, <1>6 DEF Links

LEMMA ListsStep ==
  ASSUME SoundCalls, ListsHeld, [Next]_vars
  PROVE  ListsHeld'
  <1>1. CASE kind \notin Chained
    <2>1. kind' \notin Chained
      BY <1>1, KindStays
    <2>2. QED  BY <2>1 DEF ListsHeld
  <1>2. CASE kind \in Chained
    <2>1. /\ Links /\ IsFiniteSet(Object) /\ kind \notin Middles
          /\ kind = "list" => kind \notin Fronts
      BY <1>2 DEF ListsHeld, SoundCalls
    <2>2. CASE UNCHANGED vars
      <3>1. heap' = heap /\ content' = content /\ kind' = kind /\ same' = same
        BY <2>2 DEF vars
      <3>2. Kept
        BY <2>1, <3>1 DEF Links, Kept
      <3>3. QED  BY <3>2, KeptLinks DEF ListsHeld
    <2>3. CASE Next
      <3>1. (kind = "list" /\ DList!Next) \/ (kind = "slist" /\ SList!Next)
        BY <1>2, <2>3, KindsApart DEF Next
      <3>2. ASSUME kind = "list" /\ DList!Next  PROVE Kept
        <4>1. kind = "list" /\ kind \notin Fronts /\ DList!Next
          BY <2>1, <3>2
        <4>2. QED  BY Zenon, <2>1, <4>1, ListKept
      <3>3. ASSUME kind = "slist" /\ SList!Next  PROVE Kept
        <4>1. kind # "list" /\ SList!Next
          BY <3>3
        <4>2. QED  BY Zenon, <2>1, <4>1, SListKept
      <3>4. Kept
        BY <3>1, <3>2, <3>3
      <3>5. QED  BY <3>4, KeptLinks DEF ListsHeld
    <2>4. QED  BY <2>2, <2>3
  <1>3. QED  BY <1>1, <1>2

\* The lists in memory are what their calls promised: each object has a path of entries
\* of its own, with the values of its content in order, and no entry is allocated that is
\* on no path (list.h:340-516, slist.h:335-571).
THEOREM ListsHold ==
  ASSUME SoundCalls
  PROVE  Spec => []ListsHeld
  <1>1. Init => ListsHeld
    BY ListsStart
  <1>2. ListsHeld /\ [Next]_vars => ListsHeld'
    BY ListsStep
  <1>3. QED  BY <1>1, <1>2, PTL DEF Spec

ListsKept == kind \in Chained => ContentsKept

ListsOwned == kind \in Chained => MemoryOwned

ListsBothWays == kind \in Chained => BothWays

LEMMA ListsRead ==
  ASSUME ListsHeld
  PROVE  ListsKept /\ ListsOwned /\ ListsBothWays
  <1>1. CASE kind \notin Chained
    BY <1>1 DEF ListsKept, ListsOwned, ListsBothWays
  <1>2. CASE kind \in Chained
    <2>1. Links
      BY <1>2 DEF ListsHeld
    <2>2. ContentsKept
      <3>1. Linked!HoldsContent
        BY <2>1, ReadsContent
      <3>2. QED  BY <1>2, <3>1, KindsApart DEF ContentsKept
    <2>3. MemoryOwned
      <3>1. Linked!EntriesOwned
        BY <2>1, ReadsOwned
      <3>2. QED  BY <1>2, <3>1, KindsApart DEF MemoryOwned
    <2>4. BothWays
      <3>1. Linked!BothWays
        BY <2>1, ReadsBothWays
      <3>2. QED  BY <1>2, <3>1, KindsApart DEF BothWays
    <2>5. QED  BY <2>2, <2>3, <2>4 DEF ListsKept, ListsOwned, ListsBothWays
  <1>3. QED  BY <1>1, <1>2

\* Iterating a list or slist from begin() to end() yields what the calls promised,
\* whatever was put in, erased, copied, moved or loaded (list.h, slist.h).
THEOREM ListsKeep ==
  ASSUME SoundCalls
  PROVE  Spec => [](kind \in Chained => ContentsKept)
  <1>1. ListsHeld => (kind \in Chained => ContentsKept)
    BY ListsRead DEF ListsKept
  <1>2. Spec => []ListsHeld
    BY ListsHold
  <1>3. QED  BY <1>1, <1>2, PTL

\* The entries in the allocator's memory are those of the lists, each of one list:
\* no calls of list and slist leak an entry, free it twice or share it between two
\* lists (list.h:340-356, 428-455, slist.h:335-371).
THEOREM ListsOwn ==
  ASSUME SoundCalls
  PROVE  Spec => [](kind \in Chained => MemoryOwned)
  <1>1. ListsHeld => (kind \in Chained => MemoryOwned)
    BY ListsRead DEF ListsOwned
  <1>2. Spec => []ListsHeld
    BY ListsHold
  <1>3. QED  BY <1>1, <1>2, PTL

\* A list can be walked from either end: the prior links of its entries are the next
\* links reversed, and tail_ptr_ is the last entry of a list and of an slist (list.h:
\* 92-100, 480-500, slist.h:491-501).
THEOREM ListsBothEnds ==
  ASSUME SoundCalls
  PROVE  Spec => [](kind \in Chained => BothWays)
  <1>1. ListsHeld => (kind \in Chained => BothWays)
    BY ListsRead DEF ListsBothWays
  <1>2. Spec => []ListsHeld
    BY ListsHold
  <1>3. QED  BY <1>1, <1>2, PTL
=============================================================================
