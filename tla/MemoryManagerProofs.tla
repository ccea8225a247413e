------------------------- MODULE MemoryManagerProofs -------------------------
(***************************************************************************)
(* What a process finds in its tables, what a pointer names and what the   *)
(* accounts say, proved for any processes, urls, backends, ids, sizes and  *)
(* bounds, when the allocations of AllocatorApi run over the MemoryManager *)
(* and processes wait at a barrier while an allocator is made (Barrier).   *)
(*                                                                         *)
(* The tables.  An id is in use for one allocator: OneClaim says that a    *)
(* header that can still be found, a table entry and a CreateAllocator in  *)
(* progress which name one id mean one allocator.  A scan therefore writes *)
(* over an entry only with an equal one (ScanGood), and it meets only      *)
(* complete headers, since an incomplete one belongs to a CreateAllocator  *)
(* in progress (HeadersComplete), which the barrier keeps from it.         *)
(*                                                                         *)
(* The pointers.  Every entry means what the header of its region says, so *)
(* that two processes with an allocator of one id have the same (Entries); *)
(* a page lies in memory that its allocator calls its own (PlaceIs,        *)
(* PagesKnown), the nearest allocator of such an address is that one, the  *)
(* sub-allocator in the same region and the MallocAllocator, which takes   *)
(* any address, notwithstanding (Nearest), so that the three forms of a    *)
(* call return the same handle (OneHandle), and a handle goes on naming    *)
(* its page (Handles) since its holder keeps the allocator.  OneMalloc:    *)
(* the program has one MallocAllocator.                                    *)
(***************************************************************************)
EXTENDS AllocatorApi, Sums, SequenceTheorems

-----------------------------------------------------------------------------
(* The inductive invariant *)

MainIds == {id \in AllocatorId : id[2] = 0}
Header  == [id : Backend, has_alloc : BOOLEAN, type : {"none", "stack", "scalable"},
            alloc_id : AllocatorId]
Entry   == Allocator \union {NoAlloc}
Mounts  == [Backend -> [region : DOMAIN region \union {None}, scanned : BOOLEAN]]

Types ==
  /\ region \in Seq(Header) /\ Len(region) <= MaxRegion
  /\ named \in [Url -> DOMAIN region \union {None}]
  /\ backends_ \in [Process -> Mounts]
  /\ allocators_ \in [Process -> [Index -> Entry]]
  /\ default_allocator_ \in [Process -> Allocator]
  /\ making \in [Process -> [at : {"idle", "marked", "typed", "ready"}, alloc : Entry]]
  /\ dropped \in [Process -> SUBSET (Region \union Process)]

\* A region that somebody can still scan, and those whose header is complete.
Live(r)  == \/ \E p \in Process, b \in Backend : backends_[p][b].region = r
            \/ \E u \in Url : named[u] = r
Complete(r) == region[r].type # "none" /\ region[r].alloc_id # RootId
Claimed  == {r \in DOMAIN region : Live(r) /\ Complete(r)}

Making(q) == making[q].at # "idle"

\* What a table has at the index of a main id is the allocator of that id.
Indexed(t) == \A id \in MainIds : t[ToIndex(id)] # NoAlloc => t[ToIndex(id)].id = id

TablesIndexed ==
  \A p \in Process : /\ allocators_[p][ToIndex(RootId)] = RootAlloc(p)
                     /\ Indexed(allocators_[p])
                     /\ default_allocator_[p].id[2] = 0

HeadersComplete ==
  \A r \in DOMAIN region :
    /\ region[r].alloc_id[2] = 0
    /\ region[r].type = "none" => region[r].alloc_id = RootId
    /\ region[r].type # "none" =>
         /\ region[r].has_alloc
         /\ Complete(r) \/ \E q \in Process : making[q].at = "typed" /\ making[q].alloc.region = r

\* What has been written for the allocator a of a CreateAllocator that has got so far.
MakingSound(at, a) ==
  /\ a.id \in MainIds \ {RootId} /\ a.base = 0
  /\ a.region \in DOMAIN region /\ region[a.region].has_alloc
  /\ at = "marked" => region[a.region].type = "none"
  /\ at \in {"marked", "typed"} => region[a.region].alloc_id = RootId
  /\ at = "typed" => region[a.region].type = a.kind
  /\ at = "ready" => \/ a.kind = "malloc" /\ region[a.region].type = "none"
                     \/ Discovered(a.region) = a

MakingsSound ==
  \A q \in Process : Making(q) => MakingSound(making[q].at, making[q].alloc)

MakingsApart ==
  \A p, q \in Process :
    /\ Making(p) /\ Making(q)
    /\ making[p].alloc.region = making[q].alloc.region \/ making[p].alloc.id = making[q].alloc.id
    => p = q

\* An id that a header, a table and a call name is that of one allocator.
Agrees(t) == \A r \in Claimed : t[ToIndex(region[r].alloc_id)] \in {NoAlloc, Discovered(r)}
AgreesMaking(t) ==
  \A q \in Process : Making(q) => t[ToIndex(making[q].alloc.id)] \in {NoAlloc, making[q].alloc}

OneClaim ==
  /\ \A p \in Process : Agrees(allocators_[p]) /\ AgreesMaking(allocators_[p])
  /\ \A r, s \in Claimed : region[r].alloc_id = region[s].alloc_id => r = s
  /\ \A q \in Process, r \in Claimed :
       Making(q) /\ making[q].alloc.id = region[r].alloc_id => making[q].alloc.region = r

\* The mounts of a process, and what it has seen of them.
MountsSound(mounts) ==
  \A b \in Backend :
    LET r == mounts[b].region
    IN  /\ r # None => region[r].id = b
        /\ mounts[b].scanned => r \in DOMAIN region /\ Complete(r)

Scanned(mounts, t, gone) ==
  \A b \in Backend : mounts[b].scanned =>
    \/ mounts[b].region \in gone
    \/ t[ToIndex(region[mounts[b].region].alloc_id)] = Discovered(mounts[b].region)

IInv ==
  /\ Types /\ TablesIndexed /\ HeadersComplete /\ MakingsSound /\ MakingsApart /\ OneClaim
  /\ \A p \in Process : MountsSound(backends_[p])
  /\ DefaultUsable /\ ScannedIsRegistered

-----------------------------------------------------------------------------
(* Ids and indices *)

LEMMA Ids ==
  /\ RootId \in MainIds
  /\ \A id \in AllocatorId : /\ ToIndex(id) \in Index /\ SubId(id) \in AllocatorId
                             /\ id \in MainIds => SubId(id) \notin MainIds
  /\ \A id, other \in AllocatorId : ToIndex(id) = ToIndex(other) => id = other
  /\ \A id, other \in AllocatorId :
       id \in MainIds /\ other \in MainIds /\ SubId(id) = SubId(other) => id = other
  <1> USE MemoryAssumption DEF AllocatorId, MainIds, RootId, SubId, ToIndex, Index
  <1>1. RootId \in MainIds  OBVIOUS
  <1>2. ASSUME NEW id \in AllocatorId
        PROVE  /\ ToIndex(id) \in Index /\ SubId(id) \in AllocatorId
               /\ id \in MainIds => SubId(id) \notin MainIds
    <2>1. id[1] \in 0 .. MaxMajor /\ id[2] \in {0, 1} /\ MaxMajor \in Nat  OBVIOUS
    <2>2. SubId(id) = <<id[1], 1>>  OBVIOUS
    <2>3. QED  BY <2>1, <2>2
  <1>3. ASSUME NEW id \in AllocatorId, NEW other \in AllocatorId
        PROVE  /\ ToIndex(id) = ToIndex(other) => id = other
               /\ id \in MainIds /\ other \in MainIds /\ SubId(id) = SubId(other) => id = other
    <2>1. /\ id = <<id[1], id[2]>> /\ other = <<other[1], other[2]>>
          /\ id[1] \in Nat /\ other[1] \in Nat /\ id[2] \in {0, 1} /\ other[2] \in {0, 1}
      OBVIOUS
    <2>2. ToIndex(id) = ToIndex(other) => id[1] = other[1] /\ id[2] = other[2]
      BY <2>1
    <2>3. QED  BY <2>1, <2>2
  <1>4. QED  BY <1>1, <1>2, <1>3

-----------------------------------------------------------------------------
(* AllocatorApi over the MemoryManager *)

\* A step of AllocatorApi that is not one of the MemoryManager leaves it as it is.
Step == MMNext \/ \E p \in Process, m \in 1 .. MaxMajor : UnregisterAllocator(p, <<m, 0>>)

LEMMA ApiStep == [Next]_vars => [Step]_mmVars
  <1> SUFFICES ASSUME Next  PROVE Step \/ UNCHANGED mmVars
    BY DEF vars
  <1>1. CASE MMNext  BY <1>1 DEF Step
  <1> SUFFICES ASSUME NEW p \in Process,
                      \/ NewStep(p) \/ MoveStep(p) \/ FreeStep(p)
                      \/ \E f \in held[p], q \in Process : Pass(p, q, f)
                      \/ \E m \in 1 .. MaxMajor : Unregister(p, <<m, 0>>)
               PROVE  Step \/ UNCHANGED mmVars
    BY <1>1 DEF Next
  <1>2. CASE NewStep(p)
    BY <1>2, Zenon DEF NewStep, Allocate, AllocatePtr, AllocateLocalPtr, NewObjs, NewObjsLocal, New
  <1>3. CASE MoveStep(p)
    BY <1>3 DEF MoveStep, Reallocate, ReallocatePtr, ReallocateLocalPtr,
                ReallocateConstructObjs, ReallocateConstructObjsLocal, Move
  <1>4. CASE FreeStep(p)
    BY <1>4 DEF FreeStep, Free, FreePtr, DelObjs, DelObjsLocal, Release, Drop
  <1>5. CASE \E f \in held[p], q \in Process : Pass(p, q, f)
    BY <1>5 DEF Pass
  <1>6. CASE \E m \in 1 .. MaxMajor : Unregister(p, <<m, 0>>)
    BY <1>6 DEF Unregister, Step
  <1>7. QED  BY <1>2, <1>3, <1>4, <1>5, <1>6

-----------------------------------------------------------------------------
(* What a scan finds *)

\* The region of a scanned backend is complete, so an allocator of it is claimed.
LEMMA ScannedClaimed ==
  ASSUME IInv, NEW q \in Process, NEW b \in Backend, backends_[q][b].scanned
  PROVE  backends_[q][b].region \in Claimed
  <1> PICK r : r = backends_[q][b].region
    OBVIOUS
  <1>1. r \in DOMAIN region /\ Complete(r)
    BY DEF IInv, MountsSound
  <1>2. Live(r)
    BY DEF Live
  <1>3. QED  BY <1>1, <1>2 DEF Claimed

LEMMA DiscoveredType ==
  ASSUME IInv, NEW r \in Claimed
  PROVE  /\ Discovered(r) \in Allocator /\ Discovered(r) # NoAlloc
         /\ Discovered(r).id = region[r].alloc_id /\ Discovered(r).region = r
         /\ Discovered(r).kind = region[r].type /\ Discovered(r).base = 0
         /\ region[r].alloc_id \in MainIds \ {RootId}
  <1>1. r \in DOMAIN region /\ region[r] \in Header /\ DOMAIN region = 1 .. Len(region)
    BY DEF IInv, Types, Claimed
  <1>2. r \in Region
    BY <1>1, MemoryAssumption DEF Region, IInv, Types
  <1>3. region[r].type \in {"stack", "scalable"} /\ region[r].alloc_id \in AllocatorId
        /\ region[r].alloc_id # RootId
    BY <1>1 DEF Claimed, Complete, Header
  <1>4. region[r].alloc_id \in MainIds
    BY <1>1, <1>3 DEF IInv, HeadersComplete, MainIds
  <1>5. Discovered(r) # NoAlloc
    BY <1>3 DEF Discovered, NoAlloc
  <1>6. QED
    BY <1>2, <1>3, <1>4, <1>5 DEF Discovered, Allocator

\* Behind the barrier a scan meets only complete headers.
LEMMA ScanFound ==
  ASSUME IInv, NEW mounts \in Mounts,
         \A b \in Backend : mounts[b].region # None =>
           Live(mounts[b].region) /\ ~HalfMade(mounts[b].region)
  PROVE  \A b \in ToScan(mounts) : mounts[b].region \in Claimed
  <1> SUFFICES ASSUME NEW b \in ToScan(mounts)  PROVE mounts[b].region \in Claimed
    OBVIOUS
  <1>1. /\ b \in Backend /\ mounts[b].region # None
        /\ region[mounts[b].region].type # "none"
    BY DEF ToScan
  <1>2. mounts[b].region \in DOMAIN region
    BY <1>1 DEF Mounts
  <1>3. Complete(mounts[b].region)
    BY <1>1, <1>2 DEF IInv, HeadersComplete, HalfMade
  <1>4. QED  BY <1>1, <1>2, <1>3 DEF Claimed

\* What a scan finds it enters, and it leaves the other main entries alone.
LEMMA ScanTableIs ==
  ASSUME IInv, NEW mounts \in Mounts, MountsSound(mounts),
         \A b \in ToScan(mounts) : mounts[b].region \in Claimed,
         NEW t \in [Index -> Entry]
  PROVE  LET after == ScanTable(mounts, t)
         IN  /\ after \in [Index -> Entry]
             /\ \A b \in ToScan(mounts) :
                  after[ToIndex(region[mounts[b].region].alloc_id)] = Discovered(mounts[b].region)
             /\ \A id \in MainIds :
                  \/ after[ToIndex(id)] = t[ToIndex(id)]
                  \/ \E b \in ToScan(mounts) : region[mounts[b].region].alloc_id = id
             /\ \A i \in Index :
                  \/ after[i] = t[i]
                  \/ \E b \in ToScan(mounts) :
                       \/ /\ i = ToIndex(region[mounts[b].region].alloc_id)
                          /\ after[i] = Discovered(mounts[b].region)
                       \/ /\ i = ToIndex(SubId(region[mounts[b].region].alloc_id))
                          /\ after[i] = Sub(Discovered(mounts[b].region))
  <1> DEFINE D(b) == Discovered(mounts[b].region)
             after == ScanTable(mounts, t)
             Here1(i, b) == \/ i = ToIndex(D(b).id)
                            \/ D(b).kind = "scalable" /\ i = ToIndex(SubId(D(b).id))
             S(i) == {b \in ToScan(mounts) : Here1(i, b)}
  <1>1. \A b \in ToScan(mounts) :
          /\ b \in Backend /\ D(b) \in Allocator
          /\ D(b).id = region[mounts[b].region].alloc_id
          /\ D(b).id \in MainIds /\ D(b).id \in AllocatorId
    BY DiscoveredType DEF ToScan, MainIds
  <1>2. \A b, c \in ToScan(mounts) : D(b).id = D(c).id => b = c
    <2> SUFFICES ASSUME NEW b \in ToScan(mounts), NEW c \in ToScan(mounts), D(b).id = D(c).id
                 PROVE  b = c
      OBVIOUS
    <2>1. mounts[b].region = mounts[c].region
      BY <1>1 DEF IInv, OneClaim
    <2>2. QED  BY <2>1, <1>1 DEF MountsSound, ToScan
  <1>3. ASSUME NEW i, NEW b \in S(i)
        PROVE  Latest(mounts, i) = D(b)
    <2>1. \A c \in S(i) : c = b
      <3> SUFFICES ASSUME NEW c \in S(i)  PROVE D(c).id = D(b).id
        BY <1>2
      <3>1. D(b).id \in MainIds /\ D(c).id \in MainIds
            /\ D(b).id \in AllocatorId /\ D(c).id \in AllocatorId
        BY <1>1
      <3>2. QED  BY <3>1, Ids
    <2>2. \A c \in S(i) : c <= b
      <3>1. b \in Nat  BY <1>1, MemoryAssumption
      <3>2. QED  BY <2>1, <3>1
    <2>3. (CHOOSE c \in S(i) : \A d \in S(i) : d <= c) = b
      BY <2>1, <2>2
    <2>4. QED  BY <2>3 DEF Latest
  <1> HIDE DEF S
  <1>4. ASSUME NEW i \in Index, NEW a \in FoundAll(mounts), ToIndex(a.id) = i
        PROVE  \E b \in S(i) : TRUE
    <2>1. PICK b \in ToScan(mounts) : a = D(b) \/ (D(b).kind = "scalable" /\ a = Sub(D(b)))
      BY <1>4 DEF FoundAll, Found
    <2>2. D(b).kind = "scalable" => Sub(D(b)).id = SubId(D(b).id)
      BY <1>1 DEF Sub, Allocator
    <2>3. QED  BY <1>4, <2>1, <2>2 DEF S
  <1>5. \A b \in ToScan(mounts) : D(b) \in FoundAll(mounts)
    BY DEF FoundAll, Found
  <1>6. ASSUME NEW i \in Index
        PROVE  after[i] = IF \E a \in FoundAll(mounts) : ToIndex(a.id) = i
                            THEN IF ToIndex(Latest(mounts, i).id) = i THEN Latest(mounts, i)
                                 ELSE Sub(Latest(mounts, i))
                            ELSE t[i]
    BY DEF ScanTable
  <1>7. \A b \in ToScan(mounts) : Sub(D(b)) \in Allocator
    <2> SUFFICES ASSUME NEW b \in ToScan(mounts)  PROVE Sub(D(b)) \in Allocator
      OBVIOUS
    <2>1. D(b) \in Allocator /\ SubId(D(b).id) \in AllocatorId
      BY <1>1, Ids
    <2>2. QED  BY <2>1 DEF Sub, Allocator
  <1>8. ASSUME NEW i \in Index  PROVE after[i] \in Entry
    <2>1. CASE \E a \in FoundAll(mounts) : ToIndex(a.id) = i
      <3>1. PICK b \in S(i) : TRUE  BY <1>4, <2>1
      <3>2. b \in ToScan(mounts)  BY <3>1 DEF S
      <3>3. Latest(mounts, i) = D(b)  BY <1>3, <3>1
      <3>4. QED  BY <1>1, <1>6, <1>7, <2>1, <3>2, <3>3 DEF Entry
    <2>2. CASE ~\E a \in FoundAll(mounts) : ToIndex(a.id) = i
      BY <1>6, <2>2
    <2>3. QED  BY <2>1, <2>2
  <1>9. ASSUME NEW b \in ToScan(mounts)
        PROVE  after[ToIndex(region[mounts[b].region].alloc_id)] = D(b)
    <2> DEFINE i == ToIndex(D(b).id)
    <2>1. i \in Index  BY <1>1, Ids
    <2>2. b \in S(i)  BY DEF S
    <2>3. Latest(mounts, i) = D(b)  BY <1>3, <2>2
    <2>4. after[i] = D(b)  BY <1>5, <1>6, <2>1, <2>3
    <2>5. QED  BY <1>1, <2>4
  <1>10. ASSUME NEW id \in MainIds
         PROVE  \/ after[ToIndex(id)] = t[ToIndex(id)]
                \/ \E b \in ToScan(mounts) : region[mounts[b].region].alloc_id = id
    <2> DEFINE i == ToIndex(id)
    <2>1. id \in AllocatorId /\ i \in Index  BY Ids DEF MainIds
    <2>2. CASE \E a \in FoundAll(mounts) : ToIndex(a.id) = i
      <3>1. PICK b \in S(i) : TRUE  BY <1>4, <2>1, <2>2
      <3>2. b \in ToScan(mounts) /\ (i = ToIndex(D(b).id) \/ i = ToIndex(SubId(D(b).id)))
        BY <3>1 DEF S
      <3>3. /\ D(b).id \in AllocatorId /\ D(b).id \in MainIds
            /\ SubId(D(b).id) \in AllocatorId /\ SubId(D(b).id) \notin MainIds
        BY <1>1, <3>2, Ids
      <3>4. id = D(b).id  BY <2>1, <3>2, <3>3, Ids
      <3>5. QED  BY <1>1, <3>2, <3>4
    <2>3. CASE ~\E a \in FoundAll(mounts) : ToIndex(a.id) = i
      BY <1>6, <2>1, <2>3
    <2>4. QED  BY <2>2, <2>3
  <1>11. after \in [Index -> Entry]
    <2>1. after = [i \in Index |-> after[i]]  BY DEF ScanTable
    <2> HIDE DEF after
    <2>2. QED  BY <1>8, <2>1
  <1>12. ASSUME NEW i \in Index
         PROVE  \/ after[i] = t[i]
                \/ \E b \in ToScan(mounts) : \/ i = ToIndex(D(b).id) /\ after[i] = D(b)
                                             \/ i = ToIndex(SubId(D(b).id)) /\ after[i] = Sub(D(b))
    <2>1. CASE \E a \in FoundAll(mounts) : ToIndex(a.id) = i
      <3>1. PICK b \in S(i) : TRUE  BY <1>4, <2>1
      <3>2. b \in ToScan(mounts) /\ (i = ToIndex(D(b).id) \/ i = ToIndex(SubId(D(b).id)))
        BY <3>1 DEF S
      <3>3. Latest(mounts, i) = D(b)  BY <1>3, <3>1
      <3>4. QED  BY <1>6, <2>1, <3>2, <3>3
    <2>2. CASE ~\E a \in FoundAll(mounts) : ToIndex(a.id) = i
      BY <1>6, <2>2
    <2>3. QED  BY <2>1, <2>2
  <1>13. \A b \in ToScan(mounts) : D(b).id = region[mounts[b].region].alloc_id
    BY <1>1
  <1> HIDE DEF after, D
  <1>14. QED  BY <1>9, <1>10, <1>11, <1>12, <1>13 DEF after, D

\* The default allocator stays or becomes one that was found.
LEMMA ScanDefaultIs ==
  ASSUME IInv, NEW p \in Process, NEW mounts \in Mounts, NEW d
  PROVE  \/ ScanDefault(p, mounts, d) = d
         \/ \E b \in ToScan(mounts) : ScanDefault(p, mounts, d) = Discovered(mounts[b].region)
  <1> DEFINE S == ToScan(mounts)
             first == CHOOSE b \in S : \A c \in S : b <= c
  <1>1. CASE S = {}
    BY <1>1 DEF ScanDefault
  <1>2. CASE S # {}
    <2>1. S \subseteq Nat
      BY MemoryAssumption DEF ToScan
    <2>2. \E b \in S : \A c \in S : b <= c
      <3> HIDE DEF S
      <3>1. QED  BY <1>2, <2>1, LeastNumber
    <2>3. first \in S
      <3> HIDE DEF S
      <3>1. QED  BY <2>2
    <2>4. ScanDefault(p, mounts, d) = FirstDefault(p, d, Discovered(mounts[first].region))
      BY <1>2 DEF ScanDefault
    <2> HIDE DEF first
    <2>5. QED  BY <2>3, <2>4 DEF FirstDefault
  <1>3. QED  BY <1>1, <1>2

-----------------------------------------------------------------------------
(* A scan, alone or as the last part of an attaching or a creating *)

\* A table that p may have when it scans these mounts, and its default allocator.
GoodTable(p, mounts, t, d) ==
  /\ t \in [Index -> Entry] /\ d \in Allocator
  /\ t[ToIndex(RootId)] = RootAlloc(p) /\ Indexed(t)
  /\ Agrees(t) /\ AgreesMaking(t)
  /\ Scanned(mounts, t, dropped[p])
  /\ d.id[2] = 0 /\ t[ToIndex(d.id)] = d

\* Mounts that p may scan: every region can be found and none is half made.
GoodMounts(mounts) ==
  /\ mounts \in Mounts /\ MountsSound(mounts)
  /\ \A b \in Backend : mounts[b].region # None =>
       Live(mounts[b].region) /\ ~HalfMade(mounts[b].region)

Seen(mounts)    == [b \in Backend |-> [mounts[b] EXCEPT !.scanned = b \in SetScanned(mounts)]]
Gone(p, mounts) == dropped[p] \ {a.region : a \in Found(mounts)}

\* A scan keeps the good tables good, and lists all that it has seen.
LEMMA ScanGood ==
  ASSUME IInv, NEW p \in Process, NEW mounts, GoodMounts(mounts),
         NEW t, NEW d, GoodTable(p, mounts, t, d)
  PROVE  /\ Seen(mounts) \in Mounts /\ MountsSound(Seen(mounts))
         /\ Gone(p, mounts) \subseteq dropped[p]
         /\ \A b \in Backend : Seen(mounts)[b].region = mounts[b].region
         /\ ScanTable(mounts, t) \in [Index -> Entry]
         /\ ScanTable(mounts, t)[ToIndex(RootId)] = RootAlloc(p)
         /\ Indexed(ScanTable(mounts, t))
         /\ Agrees(ScanTable(mounts, t)) /\ AgreesMaking(ScanTable(mounts, t))
         /\ Scanned(Seen(mounts), ScanTable(mounts, t), Gone(p, mounts))
         /\ ScanDefault(p, mounts, d) \in Allocator
         /\ ScanDefault(p, mounts, d).id[2] = 0
         /\ ScanTable(mounts, t)[ToIndex(ScanDefault(p, mounts, d).id)]
              = ScanDefault(p, mounts, d)
  <1> DEFINE D(b)  == Discovered(mounts[b].region)
             Id(r) == region[r].alloc_id
             after == ScanTable(mounts, t)
             gone  == Gone(p, mounts)
             seen  == Seen(mounts)
             S     == ToScan(mounts)
             def   == ScanDefault(p, mounts, d)
  <1>1. /\ mounts \in Mounts /\ MountsSound(mounts) /\ t \in [Index -> Entry]
        /\ S \subseteq Backend
    BY DEF GoodMounts, GoodTable, ToScan
  <1>2. \A b \in S : mounts[b].region \in Claimed
    BY <1>1, ScanFound DEF GoodMounts
  <1>3. /\ after \in [Index -> Entry]
        /\ \A b \in S : after[ToIndex(Id(mounts[b].region))] = D(b)
        /\ \A id \in MainIds : \/ after[ToIndex(id)] = t[ToIndex(id)]
                               \/ \E b \in S : Id(mounts[b].region) = id
    BY <1>1, <1>2, ScanTableIs
  <1>4. \A r \in Claimed : /\ Discovered(r) \in Allocator /\ Discovered(r) # NoAlloc
                           /\ Discovered(r).id = Id(r) /\ Id(r) \in MainIds \ {RootId}
                           /\ Discovered(r).region = r
    BY DiscoveredType
  <1>5. \A b \in S, r \in Claimed : Id(mounts[b].region) = Id(r) => mounts[b].region = r
    BY <1>2 DEF IInv, OneClaim
  <1>6. \A b \in Backend : /\ seen[b].region = mounts[b].region
                           /\ seen[b].scanned <=> (mounts[b].scanned \/ b \in S)
    BY <1>1 DEF Mounts, SetScanned, Seen
  <1>7. seen \in Mounts
    <2>1. \A b \in Backend : [mounts[b] EXCEPT !.scanned = b \in SetScanned(mounts)]
                               \in [region : DOMAIN region \union {None}, scanned : BOOLEAN]
      <3> SUFFICES ASSUME NEW b \in Backend
                   PROVE  [mounts[b] EXCEPT !.scanned = b \in SetScanned(mounts)]
                            \in [region : DOMAIN region \union {None}, scanned : BOOLEAN]
        OBVIOUS
      <3>1. mounts[b] \in [region : DOMAIN region \union {None}, scanned : BOOLEAN]
        BY <1>1 DEF Mounts
      <3>2. (b \in SetScanned(mounts)) \in BOOLEAN
        OBVIOUS
      <3> DEFINE yes == b \in SetScanned(mounts)
      <3> HIDE DEF yes
      <3>3. yes \in BOOLEAN
        BY DEF yes
      <3>4. [mounts[b] EXCEPT !.scanned = yes]
              \in [region : DOMAIN region \union {None}, scanned : BOOLEAN]
        BY <3>1, <3>3
      <3>5. QED  BY <3>4 DEF yes
    <2>2. QED  BY <2>1 DEF Mounts, Seen
  <1>8. \A b \in Backend : seen[b].scanned => mounts[b].region \in Claimed
    BY <1>1, <1>2, <1>6 DEF MountsSound, GoodMounts, Claimed, None, IInv, Types
  <1>9. MountsSound(seen)
    BY <1>1, <1>6, <1>8 DEF MountsSound, Claimed
  <1>10. {a.region : a \in Found(mounts)} = {mounts[b].region : b \in S}
    BY <1>2, <1>4 DEF Found
  <1> HIDE DEF after, S, seen, def
  <1>11. after[ToIndex(RootId)] = RootAlloc(p)
    BY <1>2, <1>3, <1>4, Ids DEF GoodTable
  <1>12. Indexed(after)
    BY <1>2, <1>3, <1>4 DEF Indexed, GoodTable
  <1>13. Agrees(after)
    BY <1>2, <1>3, <1>4, <1>5 DEF Agrees, GoodTable
  <1>14. ASSUME NEW q \in Process, Making(q)
         PROVE  after[ToIndex(making[q].alloc.id)] \in {NoAlloc, making[q].alloc}
    <2> DEFINE a == making[q].alloc
    <2>1. a.id \in MainIds
      BY <1>14 DEF IInv, MakingsSound, MakingSound
    <2>2. CASE after[ToIndex(a.id)] = t[ToIndex(a.id)]
      BY <1>14, <2>2 DEF GoodTable, AgreesMaking
    <2>3. CASE \E b \in S : Id(mounts[b].region) = a.id
      <3>1. PICK b \in S : Id(mounts[b].region) = a.id
        BY <2>3
      <3>2. a.region = mounts[b].region
        BY <1>2, <1>14, <3>1 DEF IInv, OneClaim
      <3>3. b \in Backend /\ mounts[b].region # None /\ region[mounts[b].region].type # "none"
        BY <3>1 DEF S, ToScan
      <3>4. ~HalfMade(a.region)
        BY <3>2, <3>3 DEF GoodMounts
      <3>5. making[q].at = "ready"
        BY <1>14, <3>4 DEF HalfMade, Making, IInv, Types
      <3>6. Discovered(a.region) = a
        BY <1>14, <3>2, <3>3, <3>5 DEF IInv, MakingsSound, MakingSound
      <3>7. QED  BY <1>3, <3>1, <3>2, <3>6
    <2>4. QED  BY <1>3, <2>1, <2>2, <2>3
  <1>15. Scanned(seen, after, gone)
    <2> SUFFICES ASSUME NEW b \in Backend, seen[b].scanned, mounts[b].region \notin gone
                 PROVE  after[ToIndex(Id(mounts[b].region))] = D(b)
      BY <1>6 DEF Scanned
    <2>1. mounts[b].region \in Claimed
      BY <1>8
    <2>2. CASE \E c \in S : Id(mounts[c].region) = Id(mounts[b].region)
      BY <1>3, <1>5, <2>1, <2>2
    <2>3. CASE ~\E c \in S : Id(mounts[c].region) = Id(mounts[b].region)
      <3>1. b \notin S /\ mounts[b].scanned /\ mounts[b].region \notin dropped[p]
        BY <1>6, <1>10, <2>3 DEF Gone
      <3>2. t[ToIndex(Id(mounts[b].region))] = D(b)
        BY <3>1 DEF GoodTable, Scanned
      <3>3. QED  BY <1>3, <1>4, <2>1, <2>3, <3>2
    <2>4. QED  BY <2>2, <2>3
  <1>16. def = d \/ \E b \in S : def = D(b)
    BY <1>1, ScanDefaultIs DEF def, S
  <1>17. def \in Allocator /\ def.id[2] = 0 /\ after[ToIndex(def.id)] = def
    <2>1. CASE def = d
      <3>1. d \in Allocator /\ d.id \in MainIds /\ d # NoAlloc /\ t[ToIndex(d.id)] = d
        BY <1>3, Ids DEF GoodTable, Allocator, MainIds, NoAlloc
      <3>2. CASE \E b \in S : Id(mounts[b].region) = d.id
        BY <1>2, <1>3, <3>1, <3>2, <2>1 DEF GoodTable, Agrees, MainIds
      <3>3. QED  BY <1>3, <2>1, <3>1, <3>2 DEF GoodTable
    <2>2. CASE \E b \in S : def = D(b)
      BY <1>2, <1>3, <1>4, <2>2 DEF MainIds
    <2>3. QED  BY <1>16, <2>1, <2>2
  <1>18. QED
    BY <1>3, <1>6, <1>7, <1>9, <1>11, <1>12, <1>13, <1>14, <1>15, <1>17
    DEF AgreesMaking, Gone, after, seen, def

\* The invariant after a scan, and after the call whose last part it is.
LEMMA ScanStep ==
  ASSUME IInv, NEW p \in Process, NEW mounts, GoodMounts(mounts),
         NEW t, NEW d, GoodTable(p, mounts, t, d), ScanFrom(p, mounts, t, d),
         UNCHANGED <<region, named>>,
         \/ UNCHANGED making
         \/ making[p].at # "typed" /\ making' = [making EXCEPT ![p] = Idle]
  PROVE  IInv'
  <1> DEFINE after == ScanTable(mounts, t)
             gone  == Gone(p, mounts)
             seen  == Seen(mounts)
             def   == ScanDefault(p, mounts, d)
  <1>1. /\ seen \in Mounts /\ MountsSound(seen) /\ gone \subseteq dropped[p]
        /\ \A b \in Backend : seen[b].region = mounts[b].region
        /\ after \in [Index -> Entry] /\ def \in Allocator
        /\ after[ToIndex(RootId)] = RootAlloc(p) /\ Indexed(after)
        /\ Agrees(after) /\ AgreesMaking(after)
        /\ Scanned(seen, after, gone)
        /\ def.id[2] = 0 /\ after[ToIndex(def.id)] = def
    BY ScanGood
  <1>2. /\ backends_' = [backends_ EXCEPT ![p] = seen]
        /\ allocators_' = [allocators_ EXCEPT ![p] = after]
        /\ default_allocator_' = [default_allocator_ EXCEPT ![p] = def]
        /\ dropped' = [dropped EXCEPT ![p] = gone]
    BY DEF ScanFrom, Seen, Gone
  <1> HIDE DEF after, gone, seen, def
  <1>3. Types
    BY DEF IInv
  <1>4. \A q \in Process : /\ backends_'[q] = IF q = p THEN seen ELSE backends_[q]
                           /\ allocators_'[q] = IF q = p THEN after ELSE allocators_[q]
                           /\ default_allocator_'[q] = IF q = p THEN def ELSE default_allocator_[q]
                           /\ dropped'[q] = IF q = p THEN gone ELSE dropped[q]
    BY <1>2, <1>3 DEF Types
  <1>5. \A q \in Process : \/ making'[q] = making[q]
                           \/ making'[q] = Idle /\ making[q].at # "typed"
    BY <1>3 DEF Types
  <1>6. /\ \A r : Complete(r)' = Complete(r) /\ Discovered(r)' = Discovered(r)
        /\ \A r \in DOMAIN region : Live(r)' => Live(r)
    <2>1. \A r : Complete(r)' = Complete(r) /\ Discovered(r)' = Discovered(r)
      BY DEF Complete, Discovered
    <2>2. ASSUME NEW r, NEW q \in Process, NEW b \in Backend, backends_'[q][b].region = r
          PROVE  Live(r) \/ r = None
      BY <1>1, <1>4, <2>2 DEF Live, GoodMounts
    <2>3. \A r \in DOMAIN region : r # None
      BY <1>3 DEF Types, None
    <2>4. QED  BY <2>1, <2>2, <2>3 DEF Live
  <1>7. Claimed' \subseteq Claimed
    BY <1>6 DEF Claimed
  <1>8. Types'
    <2>1. Idle \in [at : {"idle", "marked", "typed", "ready"}, alloc : Entry]
      BY DEF Idle, Entry
    <2>2. making' \in [Process -> [at : {"idle", "marked", "typed", "ready"}, alloc : Entry]]
      BY <1>3, <2>1 DEF Types
    <2>3. dropped' \in [Process -> SUBSET (Region \union Process)]
      BY <1>1, <1>2, <1>3 DEF Types
    <2>4. QED
      BY <1>1, <1>2, <1>3, <2>2, <2>3 DEF Types, Mounts
  <1>9. TablesIndexed'
    BY <1>1, <1>4 DEF IInv, TablesIndexed, Indexed
  <1>10. HeadersComplete'
    BY <1>5, <1>6 DEF IInv, HeadersComplete
  <1>11. \A q \in Process : Making(q)' => Making(q) /\ making'[q] = making[q]
    BY <1>5 DEF Making, Idle
  <1>12. MakingsSound'
    BY <1>6, <1>11 DEF IInv, MakingsSound, MakingSound
  <1>13. MakingsApart'
    BY <1>11 DEF IInv, MakingsApart
  <1>14. OneClaim'
    <2>1. \A q \in Process : Agrees(allocators_'[q]) /\ AgreesMaking(allocators_'[q])
      BY <1>1, <1>4 DEF IInv, OneClaim
    <2>2. \A q \in Process : (Agrees(allocators_[q]) /\ AgreesMaking(allocators_[q]))'
      BY <1>6, <1>7, <1>11, <2>1 DEF Agrees, AgreesMaking
    <2>3. QED
      BY <1>7, <1>11, <2>2 DEF IInv, OneClaim
  <1>15. \A q \in Process : MountsSound(backends_[q])'
    BY <1>1, <1>4, <1>6 DEF IInv, MountsSound
  <1>16. DefaultUsable'
    BY <1>1, <1>4 DEF IInv, DefaultUsable
  <1>17. ScannedIsRegistered'
    BY <1>1, <1>4, <1>6 DEF IInv, ScannedIsRegistered, Scanned
  <1>18. QED
    BY <1>8, <1>9, <1>10, <1>12, <1>13, <1>14, <1>15, <1>16, <1>17 DEF IInv

\* A process that calls ScanBackends has good mounts and a good table.
LEMMA OwnMounts ==
  ASSUME IInv, NEW p \in Process, Barrier, MayScan(p)
  PROVE  GoodMounts(backends_[p])
  <1>1. backends_[p] \in Mounts /\ MountsSound(backends_[p])
    BY DEF IInv, Types
  <1>2. \A b \in Backend : Live(backends_[p][b].region) /\ ~HalfMade(backends_[p][b].region)
    BY DEF MayScan, Live
  <1>3. QED  BY <1>1, <1>2 DEF GoodMounts

LEMMA OwnTable ==
  ASSUME IInv, NEW p \in Process
  PROVE  GoodTable(p, backends_[p], allocators_[p], default_allocator_[p])
  BY DEF IInv, Types, TablesIndexed, OneClaim, DefaultUsable, ScannedIsRegistered,
         GoodTable, Scanned

LEMMA ScanBackendsStep ==
  ASSUME IInv, NEW p \in Process, Barrier, ScanBackends(p)
  PROVE  IInv'
  <1>1. GoodMounts(backends_[p])
    BY OwnMounts DEF ScanBackends
  <1>2. GoodTable(p, backends_[p], allocators_[p], default_allocator_[p])
    BY OwnTable
  <1>3. QED  BY <1>1, <1>2, ScanStep DEF ScanBackends

LEMMA AttachedMounts ==
  ASSUME IInv, NEW p \in Process, NEW u \in Url, Barrier, AttachBackend(p, u)
  PROVE  LET r      == named[u]
             b      == region[r].id
             mounts == [backends_[p] EXCEPT ![b] = [region |-> r, scanned |-> FALSE]]
         IN  /\ GoodMounts(mounts)
             /\ \A c \in Backend : mounts[c] = IF c = b THEN [region |-> r, scanned |-> FALSE]
                                                 ELSE backends_[p][c]
  <1> DEFINE r      == named[u]
             b      == region[r].id
             mounts == [backends_[p] EXCEPT ![b] = [region |-> r, scanned |-> FALSE]]
  <1>1. GoodMounts(backends_[p])
    BY OwnMounts DEF AttachBackend
  <1>2. /\ r \in DOMAIN region /\ r # None /\ b \in Backend
        /\ Live(r) /\ ~HalfMade(r)
    <2>1. r # None /\ MayScan(p) /\ ~HalfMade(r)
      BY DEF AttachBackend
    <2>2. r \in DOMAIN region
      BY <2>1 DEF IInv, Types
    <2>3. region[r] \in Header
      BY <2>2 DEF IInv, Types
    <2>4. QED  BY <2>1, <2>2, <2>3 DEF Header, Live
  <1>3. \A c \in Backend : mounts[c] = IF c = b THEN [region |-> r, scanned |-> FALSE]
                                       ELSE backends_[p][c]
    BY <1>1, <1>2 DEF GoodMounts, Mounts
  <1>4. mounts \in Mounts
    BY <1>1, <1>2 DEF GoodMounts, Mounts
  <1> HIDE DEF mounts
  <1>5. MountsSound(mounts)
    BY <1>1, <1>2, <1>3 DEF GoodMounts, MountsSound
  <1>6. GoodMounts(mounts)
    BY <1>1, <1>2, <1>3, <1>4, <1>5 DEF GoodMounts
  <1>7. QED  BY <1>3, <1>6 DEF mounts

LEMMA AttachBackendStep ==
  ASSUME IInv, NEW p \in Process, NEW u \in Url, Barrier, AttachBackend(p, u)
  PROVE  IInv'
  <1> DEFINE r      == named[u]
             b      == region[r].id
             mounts == [backends_[p] EXCEPT ![b] = [region |-> r, scanned |-> FALSE]]
  <1>1. /\ GoodMounts(mounts)
        /\ \A c \in Backend : mounts[c] = IF c = b THEN [region |-> r, scanned |-> FALSE]
                                            ELSE backends_[p][c]
    BY AttachedMounts
  <1>2. /\ ScanFrom(p, mounts, allocators_[p], default_allocator_[p])
        /\ UNCHANGED <<region, named, making>>
    BY DEF AttachBackend
  <1>3. GoodTable(p, backends_[p], allocators_[p], default_allocator_[p])
    BY OwnTable
  <1> HIDE DEF mounts
  <1>4. GoodTable(p, mounts, allocators_[p], default_allocator_[p])
    BY <1>1, <1>3 DEF GoodTable, Scanned
  <1>5. QED  BY <1>1, <1>2, <1>4, ScanStep

LEMMA RegisterAllocatorStep ==
  ASSUME IInv, NEW p \in Process, Barrier, RegisterAllocator(p)
  PROVE  IInv'
  <1> DEFINE a == making[p].alloc
             t == Registered(allocators_[p], a)
             d == FirstDefault(p, default_allocator_[p], a)
  <1>1. GoodMounts(backends_[p])
    BY OwnMounts DEF RegisterAllocator
  <1>2. GoodTable(p, backends_[p], allocators_[p], default_allocator_[p])
    BY OwnTable
  <1>3. /\ Making(p) /\ a.id \in MainIds \ {RootId} /\ a.id \in AllocatorId
        /\ \/ region[a.region].type = "none"
           \/ Discovered(a.region) = a
    BY DEF RegisterAllocator, Making, IInv, MakingsSound, MakingSound, MainIds
  <1>4. a \in Allocator /\ a # NoAlloc /\ a.id[2] = 0
    BY <1>3 DEF IInv, Types, Entry, AllocatorId, NoAlloc, MainIds
  <1>5. /\ t \in [Index -> Entry] /\ t[ToIndex(a.id)] = a
        /\ \A id \in MainIds : id # a.id => t[ToIndex(id)] = allocators_[p][ToIndex(id)]
    BY <1>2, <1>3, <1>4, Ids DEF GoodTable, Registered, Entry, MainIds
  <1> HIDE DEF t
  <1>6. \A r \in Claimed : /\ region[r].alloc_id \in MainIds
                           /\ region[r].alloc_id = a.id => Discovered(r) = a
    <2> SUFFICES ASSUME NEW r \in Claimed
                 PROVE  region[r].alloc_id = a.id => Discovered(r) = a
      BY DiscoveredType
    <2>1. region[r].alloc_id = a.id => a.region = r
      BY <1>3 DEF IInv, OneClaim
    <2>2. region[r].type # "none"
      BY DEF Claimed, Complete
    <2>3. QED  BY <1>3, <2>1, <2>2
  <1>7. Indexed(t) /\ t[ToIndex(RootId)] = RootAlloc(p)
    BY <1>2, <1>3, <1>5, Ids DEF GoodTable, Indexed
  <1>8. Agrees(t)
    BY <1>2, <1>5, <1>6 DEF GoodTable, Agrees
  <1>9. AgreesMaking(t)
    <2> SUFFICES ASSUME NEW q \in Process, Making(q)
                 PROVE  t[ToIndex(making[q].alloc.id)] \in {NoAlloc, making[q].alloc}
      BY DEF AgreesMaking
    <2>1. making[q].alloc.id \in MainIds
      BY DEF IInv, MakingsSound, MakingSound
    <2>2. making[q].alloc.id = a.id => q = p
      BY <1>3 DEF IInv, MakingsApart
    <2>3. QED  BY <1>2, <1>5, <2>1, <2>2 DEF GoodTable, AgreesMaking
  <1>10. Scanned(backends_[p], t, dropped[p])
    <2> SUFFICES ASSUME NEW b \in Backend, backends_[p][b].scanned,
                        backends_[p][b].region \notin dropped[p]
                 PROVE  t[ToIndex(region[backends_[p][b].region].alloc_id)]
                          = Discovered(backends_[p][b].region)
      BY DEF Scanned
    <2>1. backends_[p][b].region \in Claimed
      BY ScannedClaimed
    <2>2. QED  BY <1>2, <1>5, <1>6, <2>1 DEF GoodTable, Scanned
  <1>11. d \in Allocator /\ d.id[2] = 0 /\ t[ToIndex(d.id)] = d
    <2>1. CASE d = a
      BY <1>4, <1>5, <2>1
    <2>2. CASE d = default_allocator_[p]
      <3>1. /\ d \in Allocator /\ d.id \in MainIds /\ d # NoAlloc
            /\ allocators_[p][ToIndex(d.id)] = d
        BY <1>2, <2>2 DEF GoodTable, Allocator, MainIds, AllocatorId, NoAlloc
      <3>2. d.id = a.id => d = a
        BY <1>2, <1>3, <3>1 DEF GoodTable, AgreesMaking
      <3>3. QED  BY <1>5, <3>1, <3>2 DEF MainIds
    <2>3. QED  BY <2>1, <2>2 DEF FirstDefault
  <1>12. GoodTable(p, backends_[p], t, d)
    BY <1>5, <1>7, <1>8, <1>9, <1>10, <1>11 DEF GoodTable
  <1>13. /\ ScanFrom(p, backends_[p], t, d) /\ UNCHANGED <<region, named>>
         /\ making[p].at # "typed" /\ making' = [making EXCEPT ![p] = Idle]
    BY DEF RegisterAllocator, t
  <1> HIDE DEF d
  <1>14. QED  BY <1>1, <1>12, <1>13, ScanStep

-----------------------------------------------------------------------------
(* The other actions *)

\* CreateBackend and CreatePrivateBackend: the new header claims nothing.
LEMMA NewRegionStep ==
  ASSUME IInv, NEW p \in Process, NEW b \in Backend, NewRegion(b), Mount(p, b, Len(region')),
         UNCHANGED <<making, allocators_, default_allocator_, dropped>>,
         \/ UNCHANGED named
         \/ \E u \in Url : named' = [named EXCEPT ![u] = Len(region')]
  PROVE  IInv'
  <1>1. Types /\ Len(region) \in Nat
    BY DEF IInv, Types
  <1> PICK new \in Nat : new = Len(region) + 1
    BY <1>1
  <1>2. /\ DOMAIN region = 1 .. Len(region) /\ Len(region) \in Nat
        /\ region' \in Seq(Header) /\ Len(region') = new /\ new <= MaxRegion
        /\ DOMAIN region' = DOMAIN region \union {new} /\ new \notin DOMAIN region
        /\ \A r \in DOMAIN region : region'[r] = region[r]
        /\ region'[new] = [id |-> b, has_alloc |-> FALSE, type |-> "none", alloc_id |-> RootId]
    <2>1. [id |-> b, has_alloc |-> FALSE, type |-> "none", alloc_id |-> RootId] \in Header
      BY Ids DEF Header, MainIds
    <2>2. region \in Seq(Header) /\ Len(region) \in Nat /\ DOMAIN region = 1 .. Len(region)
      BY <1>1 DEF Types
    <2>3. Len(region) < MaxRegion /\ MaxRegion \in Nat
      BY MemoryAssumption DEF NewRegion
    <2>4. QED  BY <2>1, <2>2, <2>3 DEF NewRegion
  <1>3. \A q \in Process, c \in Backend :
          \/ backends_'[q][c] = backends_[q][c]
          \/ q = p /\ c = b /\ backends_'[q][c] = [region |-> new, scanned |-> FALSE]
    <2>1. CASE UNCHANGED backends_
      BY <2>1
    <2>2. CASE backends_' = [backends_ EXCEPT ![p][b] = [region |-> new, scanned |-> FALSE]]
      BY <1>1, <2>2 DEF Types, Mounts
    <2>3. QED  BY <1>2, <2>1, <2>2 DEF Mount
  <1>4. \A u \in Url : named'[u] = named[u] \/ named'[u] = new
    BY <1>1, <1>2 DEF Types
  <1>5. \A r \in DOMAIN region : /\ Complete(r)' = Complete(r) /\ Discovered(r)' = Discovered(r)
                                 /\ Live(r)' => Live(r)
    BY <1>2, <1>3, <1>4 DEF Complete, Discovered, Live
  <1>6. ~Complete(new)'
    BY <1>2 DEF Complete
  <1>7. Claimed' \subseteq Claimed
    BY <1>2, <1>5, <1>6 DEF Claimed
  <1>8. Types'
    <2>1. named' \in [Url -> DOMAIN region' \union {None}]
      BY <1>1, <1>2 DEF Types
    <2>2. backends_' \in [Process -> Mounts']
      <3>1. CASE UNCHANGED backends_
        BY <1>1, <1>2, <3>1 DEF Types, Mounts
      <3>2. CASE backends_' = [backends_ EXCEPT ![p][b] = [region |-> new, scanned |-> FALSE]]
        <4>1. \A q \in Process : backends_[q] \in Mounts'
          BY <1>1, <1>2 DEF Types, Mounts
        <4>2. [backends_[p] EXCEPT ![b] = [region |-> new, scanned |-> FALSE]] \in Mounts'
          BY <1>2, <4>1 DEF Mounts
        <4>3. backends_' = [backends_ EXCEPT ![p] =
                              [backends_[p] EXCEPT ![b] = [region |-> new, scanned |-> FALSE]]]
          BY <1>1, <3>2 DEF Types
        <4>4. QED  BY <1>1, <4>1, <4>2, <4>3 DEF Types
      <3>3. QED  BY <1>2, <3>1, <3>2 DEF Mount
    <2>3. QED  BY <1>1, <1>2, <2>1, <2>2 DEF Types
  <1>9. TablesIndexed'
    BY DEF IInv, TablesIndexed, Indexed
  <1>10. HeadersComplete'
    <2>1. RootId[2] = 0
      BY DEF RootId
    <2>2. QED  BY <1>2, <1>5, <2>1 DEF IInv, HeadersComplete
  <1>11. \A q \in Process : /\ Making(q)' = Making(q) /\ making'[q] = making[q]
                            /\ Making(q) => making[q].alloc.region \in DOMAIN region
    BY DEF Making, IInv, MakingsSound, MakingSound
  <1>12. MakingsSound'
    BY <1>2, <1>5, <1>11 DEF IInv, MakingsSound, MakingSound
  <1>13. MakingsApart'
    BY <1>11 DEF IInv, MakingsApart
  <1>14. Claimed \subseteq DOMAIN region
    BY DEF Claimed
  <1>15. \A q \in Process : (Agrees(allocators_[q]) /\ AgreesMaking(allocators_[q]))'
    BY <1>2, <1>5, <1>7, <1>11, <1>14 DEF IInv, OneClaim, Agrees, AgreesMaking
  <1>16. OneClaim'
    BY <1>2, <1>7, <1>11, <1>14, <1>15 DEF IInv, OneClaim
  <1>17. \A q \in Process : MountsSound(backends_[q])'
    <2> SUFFICES ASSUME NEW q \in Process, NEW c \in Backend, NEW r, r = backends_'[q][c].region
                 PROVE  /\ r # None => region'[r].id = c
                        /\ backends_'[q][c].scanned => r \in DOMAIN region' /\ Complete(r)'
      BY DEF MountsSound
    <2>1. /\ backends_[q][c].region \in DOMAIN region \union {None}
          /\ backends_[q][c].region # None => region[backends_[q][c].region].id = c
          /\ backends_[q][c].scanned =>
               backends_[q][c].region \in DOMAIN region /\ Complete(backends_[q][c].region)
      BY <1>1 DEF IInv, MountsSound, Types, Mounts
    <2>2. CASE backends_'[q][c] = backends_[q][c]
      BY <1>2, <1>5, <2>1, <2>2
    <2>3. CASE c = b /\ backends_'[q][c] = [region |-> new, scanned |-> FALSE]
      BY <1>2, <2>3
    <2>4. QED  BY <1>3, <2>2, <2>3
  <1>18. DefaultUsable'
    BY DEF IInv, DefaultUsable
  <1>19. ScannedIsRegistered'
    <2> SUFFICES ASSUME NEW q \in Process, NEW c \in Backend, backends_'[q][c].scanned,
                        NEW r, r = backends_'[q][c].region
                 PROVE  \/ r \in dropped[q]
                        \/ allocators_[q][ToIndex(region'[r].alloc_id)] = Discovered(r)'
      BY DEF ScannedIsRegistered
    <2>1. backends_'[q][c] = backends_[q][c]
      BY <1>3
    <2>2. r \in DOMAIN region
      BY <2>1 DEF IInv, MountsSound
    <2>3. QED  BY <1>2, <1>5, <2>1, <2>2 DEF IInv, ScannedIsRegistered
  <1>20. QED
    BY <1>8, <1>9, <1>10, <1>12, <1>13, <1>16, <1>17, <1>18, <1>19 DEF IInv

LEMMA DestroyBackendStep ==
  ASSUME IInv, NEW p \in Process, NEW b \in Backend, DestroyBackend(p, b)
  PROVE  IInv'
  <1>1. /\ backends_' = [backends_ EXCEPT ![p][b] = NoBackend]
        /\ UNCHANGED <<region, named, making, allocators_, default_allocator_, dropped>>
    BY DEF DestroyBackend
  <1>2. Types
    BY DEF IInv
  <1>3. \A q \in Process, c \in Backend :
          backends_'[q][c] = backends_[q][c] \/ backends_'[q][c] = NoBackend
    BY <1>1, <1>2 DEF Types, Mounts
  <1>4. /\ \A r : Complete(r)' = Complete(r) /\ Discovered(r)' = Discovered(r)
        /\ \A r \in DOMAIN region : Live(r)' => Live(r)
    <2>1. \A r \in DOMAIN region : r # None
      BY <1>2 DEF Types, None
    <2>2. QED  BY <1>1, <1>3, <2>1 DEF Complete, Discovered, Live, NoBackend
  <1>5. Claimed' \subseteq Claimed
    BY <1>1, <1>4 DEF Claimed
  <1>6. Types'
    <2>1. backends_' \in [Process -> Mounts]
      BY <1>1, <1>2 DEF Types, Mounts, NoBackend
    <2>2. QED  BY <1>1, <1>2, <2>1 DEF Types, Mounts
  <1>7. TablesIndexed' /\ HeadersComplete' /\ MakingsApart' /\ DefaultUsable'
    BY <1>1, <1>4
    DEF IInv, TablesIndexed, Indexed, HeadersComplete, MakingsApart, Making, DefaultUsable
  <1>8. MakingsSound'
    BY <1>1, <1>4 DEF IInv, MakingsSound, MakingSound, Making
  <1>9. \A q \in Process : (Agrees(allocators_[q]) /\ AgreesMaking(allocators_[q]))'
    BY <1>1, <1>4, <1>5 DEF IInv, OneClaim, Agrees, AgreesMaking, Making
  <1>10. OneClaim'
    BY Zenon, <1>1, <1>5, <1>9 DEF IInv, OneClaim, Making
  <1>11. (\A q \in Process : MountsSound(backends_[q]))' /\ ScannedIsRegistered'
    BY <1>1, <1>3, <1>4 DEF IInv, MountsSound, ScannedIsRegistered, NoBackend
  <1>12. QED
    BY <1>6, <1>7, <1>8, <1>10, <1>11 DEF IInv

\* An id that is not in use and a region that has no allocator.
LEMMA CreateAllocatorStep ==
  ASSUME IInv, NEW p \in Process, NEW b \in Backend, NEW m \in 1 .. MaxMajor,
         NEW kind \in Kinds[m], CreateAllocator(p, b, <<m, 0>>, kind)
  PROVE  IInv'
  <1> PICK x : x = backends_[p][b].region
    OBVIOUS
  <1> PICK a : a = [id |-> <<m, 0>>, kind |-> kind, region |-> x, base |-> 0]
    OBVIOUS
  <1>1. /\ making[p] = Idle /\ x # None /\ ~region[x].has_alloc /\ ~InUse(a.id)
        /\ region' = [region EXCEPT ![x].has_alloc = TRUE]
        /\ making' = [making EXCEPT ![p] = [at |-> "marked", alloc |-> a]]
        /\ UNCHANGED <<named, backends_, allocators_, default_allocator_, dropped>>
    BY DEF CreateAllocator, CanCall, tables
  <1>2. /\ Types /\ DOMAIN region = 1 .. Len(region)
        /\ HeadersComplete /\ MakingsSound /\ MakingsApart /\ OneClaim /\ ScannedIsRegistered
        /\ \A q \in Process : MountsSound(backends_[q])
    BY DEF IInv, Types
  <1>3. x \in DOMAIN region /\ x \in Region
    BY <1>1, <1>2, MemoryAssumption DEF Types, Mounts, Region
  <1>4. a.id \in MainIds \ {RootId} /\ a \in Allocator /\ a.base = 0 /\ a.region = x
    <2>1. <<m, 0>> \in MainIds \ {RootId} /\ <<m, 0>> \in AllocatorId
      BY MemoryAssumption DEF MainIds, AllocatorId, RootId
    <2>2. kind \in {"stack", "scalable", "malloc"}
      BY MemoryAssumption
    <2>3. QED  BY <1>3, <2>1, <2>2 DEF Allocator
  <1>5. region[x].type = "none" /\ region[x].alloc_id = RootId
    BY <1>1, <1>2, <1>3 DEF HeadersComplete
  <1>6. /\ region' \in Seq(Header) /\ Len(region') = Len(region) /\ DOMAIN region' = DOMAIN region
        /\ \A r \in DOMAIN region : /\ region'[r].id = region[r].id
                                    /\ region'[r].type = region[r].type
                                    /\ region'[r].alloc_id = region[r].alloc_id
                                    /\ region'[r].has_alloc = (region[r].has_alloc \/ r = x)
    <2>1. region \in Seq(Header)
      BY <1>2 DEF Types
    <2>2. region' \in Seq(Header) /\ Len(region') = Len(region) /\ DOMAIN region' = DOMAIN region
      <3> DEFINE h == [region[x] EXCEPT !.has_alloc = TRUE]
      <3>1. h \in Header
        <4>1. region[x] \in Header
          BY <1>3, <2>1
        <4>2. \A e \in Header : [e EXCEPT !.has_alloc = TRUE] \in Header
          BY DEF Header
        <4>3. QED  BY <4>1, <4>2
      <3>2. region' = [region EXCEPT ![x] = h]
        BY <1>1
      <3> HIDE DEF h
      <3>3. QED  BY <1>2, <1>3, <2>1, <3>1, <3>2, ExceptSeq
    <2>3. \A r \in DOMAIN region : region[r] \in Header
      BY <2>1
    <2>4. QED  BY <1>1, <1>3, <2>2, <2>3 DEF Header
  <1>7. \A r \in DOMAIN region : /\ Complete(r)' = Complete(r) /\ Discovered(r)' = Discovered(r)
                                 /\ Live(r)' = Live(r)
    BY <1>1, <1>6 DEF Complete, Discovered, Live
  <1>8. Claimed' = Claimed
    BY <1>6, <1>7 DEF Claimed
  <1>9. \A q \in Process : making'[q] = IF q = p THEN [at |-> "marked", alloc |-> a] ELSE making[q]
    BY <1>1, <1>2 DEF Types
  <1>10. \A q \in Process : /\ Making(q)' <=> q = p \/ Making(q)
                            /\ Making(q) => q # p /\ making'[q] = making[q]
    BY <1>1, <1>9 DEF Making, Idle
  <1>11. \A q \in Process : Making(q) =>
           /\ making[q].alloc.region \in DOMAIN region \ {x}
           /\ making[q].alloc.id # a.id /\ making[q].alloc.id \in MainIds
    <2> SUFFICES ASSUME NEW q \in Process, Making(q), NEW c, c = making[q].alloc
                 PROVE  c.region \in DOMAIN region \ {x} /\ c.id # a.id /\ c.id \in MainIds
      OBVIOUS
    <2>1. MakingSound(making[q].at, c)
      BY <1>2 DEF MakingsSound
    <2>2. c.region \in DOMAIN region /\ region[c.region].has_alloc /\ c.id \in MainIds
      BY Zenon, <2>1 DEF MakingSound
    <2>3. c.id # a.id
      BY <1>1 DEF InUse, Making
    <2>4. QED  BY <1>1, <2>2, <2>3
  <1>12. \A r \in Claimed : r \in DOMAIN region /\ region[r].alloc_id # a.id
    <2> SUFFICES ASSUME NEW r \in Claimed, region[r].alloc_id = a.id  PROVE FALSE
      BY DEF Claimed
    <2>1. region[r].has_alloc /\ Live(r) /\ r # None
      BY <1>2 DEF Claimed, Complete, HeadersComplete, None
    <2>2. InUse(a.id)
      BY Zenon, <2>1 DEF Live, InUse
    <2>3. QED  BY <1>1, <2>2
  <1>13. Types'
    <2>1. making' \in [Process -> [at : {"idle", "marked", "typed", "ready"}, alloc : Entry]]
      BY <1>1, <1>2, <1>4 DEF Types, Entry
    <2>2. backends_' \in [Process -> Mounts']
      BY <1>1, <1>2, <1>6 DEF Types, Mounts
    <2>3. QED  BY <1>1, <1>2, <1>6, <2>1, <2>2 DEF Types
  <1>14. TablesIndexed' /\ DefaultUsable'
    BY Zenon, <1>1 DEF IInv, TablesIndexed, Indexed, DefaultUsable
  <1>15. HeadersComplete'
    BY <1>1, <1>2, <1>6, <1>7, <1>9 DEF HeadersComplete, Idle
  <1>16. MakingsSound'
    <2> SUFFICES ASSUME NEW q \in Process, Making(q)', NEW at, NEW c, at = making'[q].at,
                        c = making'[q].alloc
                 PROVE  MakingSound(at, c)'
      BY DEF MakingsSound, MakingSound
    <2>1. CASE q = p
      <3>1. at = "marked" /\ c = a
        BY <1>9, <2>1
      <3>2. /\ region'[x].has_alloc /\ region'[x].type = "none"
            /\ region'[x].alloc_id = RootId /\ x \in DOMAIN region'
        BY <1>3, <1>5, <1>6
      <3>3. QED  BY <1>4, <3>1, <3>2 DEF MakingSound
    <2>2. CASE q # p
      <3>1. Making(q) /\ at = making[q].at /\ c = making[q].alloc
        BY <1>9, <1>10, <2>2
      <3>2. MakingSound(at, c) /\ c.region \in DOMAIN region
        BY <1>2, <1>11, <3>1 DEF MakingsSound
      <3>3. QED  BY <1>6, <1>7, <3>2 DEF MakingSound
    <2>3. QED  BY <2>1, <2>2
  <1>17. MakingsApart'
    BY <1>2, <1>4, <1>9, <1>10, <1>11 DEF MakingsApart
  <1>18. \A q \in Process : allocators_[q][ToIndex(a.id)] = NoAlloc
    BY Zenon, <1>1 DEF InUse
  <1>19. \A q \in Process : (Agrees(allocators_[q]) /\ AgreesMaking(allocators_[q]))'
    <2>1. \A q \in Process : Agrees(allocators_[q])'
      <3> SUFFICES ASSUME NEW q \in Process, NEW r \in Claimed
                   PROVE  allocators_[q][ToIndex(region'[r].alloc_id)] \in {NoAlloc, Discovered(r)'}
        BY Zenon, <1>1, <1>8 DEF Agrees
      <3>1. allocators_[q][ToIndex(region[r].alloc_id)] \in {NoAlloc, Discovered(r)}
        BY <1>2 DEF OneClaim, Agrees
      <3>2. region'[r].alloc_id = region[r].alloc_id /\ Discovered(r)' = Discovered(r)
        BY <1>6, <1>7, <1>12
      <3>3. QED  BY <3>1, <3>2
    <2>2. \A q \in Process : AgreesMaking(allocators_[q])'
      BY <1>1, <1>2, <1>9, <1>10, <1>18 DEF OneClaim, AgreesMaking
    <2>3. QED  BY <2>1, <2>2
  <1>20. OneClaim'
    <2>1. \A r, s \in Claimed : region'[r].alloc_id = region'[s].alloc_id => r = s
      BY <1>2, <1>6, <1>12 DEF OneClaim
    <2>2. \A q \in Process, r \in Claimed :
            Making(q)' /\ making'[q].alloc.id = region'[r].alloc_id => making'[q].alloc.region = r
      <3> SUFFICES ASSUME NEW q \in Process, NEW r \in Claimed, Making(q)',
                          making'[q].alloc.id = region'[r].alloc_id
                   PROVE  making'[q].alloc.region = r
        OBVIOUS
      <3>1. region'[r].alloc_id = region[r].alloc_id /\ region[r].alloc_id # a.id
        BY <1>6, <1>12
      <3>2. q # p
        BY <1>9, <3>1
      <3>3. Making(q) /\ making'[q] = making[q]
        BY <1>10, <3>2
      <3>4. QED  BY <1>2, <3>1, <3>3 DEF OneClaim
    <2>3. QED  BY Zenon, <1>8, <1>19, <2>1, <2>2 DEF OneClaim
  <1>21. \A q \in Process : MountsSound(backends_[q])'
    <2> SUFFICES ASSUME NEW q \in Process, NEW c \in Backend, NEW r, r = backends_[q][c].region
                 PROVE  /\ r # None => region'[r].id = c
                        /\ backends_[q][c].scanned => r \in DOMAIN region' /\ Complete(r)'
      BY <1>1 DEF MountsSound
    <2>1. r \in DOMAIN region \union {None}
      BY <1>2 DEF Types, Mounts
    <2>2. /\ r # None => region[r].id = c
          /\ backends_[q][c].scanned => r \in DOMAIN region /\ Complete(r)
      BY Zenon, <1>2 DEF MountsSound
    <2>3. QED  BY <1>6, <1>7, <2>1, <2>2
  <1>22. ScannedIsRegistered'
    <2> SUFFICES ASSUME NEW q \in Process, NEW c \in Backend, backends_[q][c].scanned,
                        NEW r, r = backends_[q][c].region
                 PROVE  \/ r \in dropped[q]
                        \/ allocators_[q][ToIndex(region'[r].alloc_id)] = Discovered(r)'
      BY <1>1 DEF ScannedIsRegistered
    <2>1. r \in DOMAIN region
      BY Zenon, <1>2 DEF MountsSound
    <2>2. r \in dropped[q] \/ allocators_[q][ToIndex(region[r].alloc_id)] = Discovered(r)
      BY Zenon, <1>2 DEF ScannedIsRegistered
    <2>3. QED  BY <1>6, <1>7, <2>1, <2>2
  <1>23. QED
    BY <1>13, <1>14, <1>15, <1>16, <1>17, <1>20, <1>21, <1>22 DEF IInv

LEMMA SetDefaultAllocatorStep ==
  ASSUME IInv, NEW p \in Process, NEW m \in 1 .. MaxMajor, SetDefaultAllocator(p, <<m, 0>>)
  PROVE  IInv'
  <1> DEFINE a == allocators_[p][ToIndex(<<m, 0>>)]
  <1>1. /\ a # NoAlloc
        /\ default_allocator_' = [default_allocator_ EXCEPT ![p] = a]
        /\ UNCHANGED <<region, named, making, backends_, allocators_, dropped>>
    BY DEF SetDefaultAllocator
  <1>2. <<m, 0>> \in MainIds
    BY MemoryAssumption DEF MainIds, AllocatorId
  <1>3. a \in Allocator /\ a.id = <<m, 0>> /\ a.id[2] = 0
    <2>1. ToIndex(<<m, 0>>) \in Index
      BY <1>2, Ids DEF MainIds
    <2>2. a \in Entry
      BY <2>1 DEF IInv, Types
    <2>3. a.id = <<m, 0>>
      BY <1>1, <1>2 DEF IInv, TablesIndexed, Indexed
    <2>4. QED  BY <1>1, <2>2, <2>3 DEF Entry
  <1> HIDE DEF a
  <1>4. Types' /\ TablesIndexed'
    BY <1>1, <1>3 DEF IInv, Types, Mounts, TablesIndexed, Indexed
  <1>5. DefaultUsable'
    BY <1>1, <1>3 DEF IInv, Types, DefaultUsable, a
  <1>6. HeadersComplete' /\ MakingsSound' /\ MakingsApart' /\ OneClaim'
    BY <1>1
    DEF IInv, HeadersComplete, MakingsSound, MakingSound, MakingsApart, OneClaim, Agrees, AgreesMaking,
        Making, Claimed, Live, Complete, Discovered
  <1>7. (\A q \in Process : MountsSound(backends_[q]))' /\ ScannedIsRegistered'
    BY <1>1 DEF IInv, MountsSound, ScannedIsRegistered, Complete, Discovered
  <1>8. QED  BY <1>4, <1>5, <1>6, <1>7 DEF IInv

\* The default allocator falls back to the root.
LEMMA UnregisterAllocatorStep ==
  ASSUME IInv, NEW p \in Process, NEW m \in 1 .. MaxMajor, UnregisterAllocator(p, <<m, 0>>)
  PROVE  IInv'
  <1> PICK id : id = <<m, 0>>
    OBVIOUS
  <1> PICK a : a = allocators_[p][ToIndex(id)]
    OBVIOUS
  <1>1. /\ id # RootId /\ a # NoAlloc
        /\ allocators_' = [allocators_ EXCEPT ![p][ToIndex(id)] = NoAlloc]
        /\ dropped' = [dropped EXCEPT ![p] = @ \union {a.region}]
        /\ default_allocator_' = [default_allocator_ EXCEPT
             ![p] = IF @.id = id THEN RootAlloc(p) ELSE @]
        /\ UNCHANGED <<region, named, making, backends_>>
    BY DEF UnregisterAllocator, Unregistered
  <1>2. Types /\ id \in MainIds /\ id \in AllocatorId /\ ToIndex(id) \in Index
    <2>1. id \in MainIds /\ id \in AllocatorId
      BY MemoryAssumption DEF MainIds, AllocatorId
    <2>2. QED  BY <2>1, Ids DEF IInv
  <1>3. a \in Allocator
    BY <1>1, <1>2 DEF Types, Entry
  <1>4. \A q \in Process :
          /\ \A i \in Index : allocators_'[q][i] = IF q = p /\ i = ToIndex(id) THEN NoAlloc
                                                   ELSE allocators_[q][i]
          /\ dropped'[q] = IF q = p THEN dropped[q] \union {a.region} ELSE dropped[q]
          /\ default_allocator_'[q] = IF q = p /\ default_allocator_[q].id = id THEN RootAlloc(q)
                                      ELSE default_allocator_[q]
    BY <1>1, <1>2 DEF Types
  <1>5. \A q \in Process : /\ RootAlloc(q) \in Allocator /\ RootAlloc(q).id = RootId
                           /\ RootAlloc(q).id[2] = 0
    BY Ids DEF RootAlloc, Allocator, RootId, MainIds
  <1>6. \A other \in AllocatorId :
          /\ ToIndex(other) \in Index
          /\ \A q \in Process : other # id =>
               allocators_'[q][ToIndex(other)] = allocators_[q][ToIndex(other)]
    BY <1>2, <1>4, Ids
  <1>7. \A q \in Process, other \in AllocatorId :
          allocators_'[q][ToIndex(other)] \in {allocators_[q][ToIndex(other)], NoAlloc}
    BY <1>4, <1>6
  <1>8. MainIds \subseteq AllocatorId /\ RootId \in MainIds
    BY Ids DEF MainIds
  <1>9. Types'
    <2>1. allocators_' \in [Process -> [Index -> Entry]]
      BY <1>1, <1>2 DEF Types, Entry
    <2>2. dropped' \in [Process -> SUBSET (Region \union Process)]
      BY <1>1, <1>2, <1>3 DEF Types, Allocator
    <2>3. default_allocator_' \in [Process -> Allocator]
      BY <1>1, <1>2, <1>5 DEF Types
    <2>4. QED  BY <1>1, <1>2, <2>1, <2>2, <2>3 DEF Types, Mounts
  <1>10. TablesIndexed'
    <2>1. \A q \in Process : allocators_'[q][ToIndex(RootId)] = RootAlloc(q)
      BY <1>1, <1>6, <1>8 DEF IInv, TablesIndexed
    <2>2. \A q \in Process : Indexed(allocators_'[q])
      BY <1>7, <1>8 DEF IInv, TablesIndexed, Indexed
    <2>3. \A q \in Process : default_allocator_'[q].id[2] = 0
      <3>1. \A q \in Process : default_allocator_'[q] \in {RootAlloc(q), default_allocator_[q]}
        BY <1>4
      <3>2. \A q \in Process : default_allocator_[q].id[2] = 0
        BY DEF IInv, TablesIndexed
      <3>3. QED  BY <1>5, <3>1, <3>2
    <2>4. QED  BY <2>1, <2>2, <2>3 DEF TablesIndexed, Indexed
  <1>11. /\ \A r : Complete(r)' = Complete(r) /\ Discovered(r)' = Discovered(r)
         /\ Claimed' = Claimed /\ \A q \in Process : Making(q)' = Making(q)
    BY <1>1 DEF Complete, Discovered, Claimed, Live, Making
  <1>12. HeadersComplete' /\ MakingsSound' /\ MakingsApart'
    BY <1>1, <1>11
    DEF IInv, HeadersComplete, MakingsSound, MakingSound, MakingsApart
  <1>13. \A r \in Claimed : region[r].alloc_id \in AllocatorId
    BY DiscoveredType, <1>8
  <1>14. \A q \in Process : Making(q) => making[q].alloc.id \in AllocatorId
    BY <1>8 DEF IInv, MakingsSound, MakingSound
  <1>15. \A q \in Process : (Agrees(allocators_[q]) /\ AgreesMaking(allocators_[q]))'
    <2>1. \A q \in Process : Agrees(allocators_[q])'
      BY <1>1, <1>7, <1>11, <1>13 DEF IInv, OneClaim, Agrees
    <2>2. \A q \in Process : AgreesMaking(allocators_[q])'
      BY <1>1, <1>7, <1>11, <1>14 DEF IInv, OneClaim, AgreesMaking
    <2>3. QED  BY <2>1, <2>2
  <1>16. OneClaim'
    BY <1>1, <1>11, <1>15 DEF IInv, OneClaim
  <1>17. (\A q \in Process : MountsSound(backends_[q]))'
    BY <1>1, <1>11 DEF IInv, MountsSound
  <1>18. DefaultUsable'
    <2> SUFFICES ASSUME NEW q \in Process, NEW d, d = default_allocator_'[q]
                 PROVE  allocators_'[q][ToIndex(d.id)] = d
      BY DEF DefaultUsable
    <2>1. CASE d = RootAlloc(q)
      BY <1>1, <1>5, <1>6, <1>8, <2>1 DEF IInv, TablesIndexed
    <2>2. CASE d = default_allocator_[q] /\ (q # p \/ d.id # id)
      <3>1. d.id \in AllocatorId
        BY <1>2, <2>2 DEF Types, Allocator
      <3>2. allocators_'[q][ToIndex(d.id)] = allocators_[q][ToIndex(d.id)]
        BY <1>4, <1>6, <2>2, <3>1
      <3>3. QED  BY <2>2, <3>2 DEF IInv, DefaultUsable
    <2>3. QED  BY <1>4, <2>1, <2>2
  <1>19. ScannedIsRegistered'
    <2> SUFFICES ASSUME NEW q \in Process, NEW b \in Backend, backends_[q][b].scanned,
                        NEW r, r = backends_[q][b].region
                 PROVE  \/ r \in dropped'[q]
                        \/ allocators_'[q][ToIndex(region[r].alloc_id)] = Discovered(r)
      BY <1>1, <1>11 DEF ScannedIsRegistered
    <2>1. CASE r \in dropped[q]
      BY <1>4, <2>1
    <2>2. CASE allocators_[q][ToIndex(region[r].alloc_id)] = Discovered(r)
      <3>1. r \in Claimed
        BY ScannedClaimed
      <3>2. CASE region[r].alloc_id = id /\ q = p
        <4>1. a = Discovered(r)
          BY <2>2, <3>2
        <4>2. a.region = r
          BY <3>1, <4>1, DiscoveredType
        <4>3. QED  BY <1>4, <3>2, <4>2
      <3>3. CASE region[r].alloc_id # id \/ q # p
        BY <1>4, <1>6, <1>13, <2>2, <3>1, <3>3
      <3>4. QED  BY <3>2, <3>3
    <2>3. QED  BY <2>1, <2>2 DEF IInv, ScannedIsRegistered
  <1>20. QED
    BY <1>9, <1>10, <1>12, <1>16, <1>17, <1>18, <1>19 DEF IInv

LEMMA ConfigureMallocStep ==
  ASSUME IInv, NEW p \in Process, ConfigureMalloc(p)
  PROVE  IInv'
  <1>1. /\ making[p].at = "marked" /\ making[p].alloc.kind = "malloc"
        /\ making' = [making EXCEPT ![p].at = "ready"]
        /\ UNCHANGED <<region, named, backends_, allocators_, default_allocator_, dropped>>
    BY DEF ConfigureMalloc, tables
  <1>2. Types
    BY DEF IInv
  <1>3. making' \in [Process -> [at : {"idle", "marked", "typed", "ready"}, alloc : Entry]]
    BY <1>1, <1>2 DEF Types
  <1>4. \A q \in Process : /\ making'[q].alloc = making[q].alloc
                           /\ making'[q].at = IF q = p THEN "ready" ELSE making[q].at
    BY <1>1, <1>2 DEF Types
  <1>5. /\ \A r : Complete(r)' = Complete(r) /\ Discovered(r)' = Discovered(r)
        /\ Claimed' = Claimed
        /\ \A q \in Process : Making(q)' = Making(q)
    BY <1>1, <1>4 DEF Complete, Discovered, Claimed, Live, Making
  <1>6. Types' /\ TablesIndexed' /\ DefaultUsable'
    BY <1>1, <1>2, <1>3 DEF IInv, Types, Mounts, TablesIndexed, Indexed, DefaultUsable
  <1>7. HeadersComplete'
    BY <1>1, <1>4, <1>5 DEF IInv, HeadersComplete
  <1>8. MakingsSound'
    <2> SUFFICES ASSUME NEW q \in Process, Making(q)', NEW at, NEW c, at = making'[q].at,
                        c = making'[q].alloc
                 PROVE  MakingSound(at, c)'
      BY DEF MakingsSound, MakingSound
    <2>1. MakingSound(making[q].at, c)
      BY <1>4, <1>5 DEF IInv, MakingsSound
    <2>2. QED  BY <1>1, <1>4, <1>5, <2>1 DEF MakingSound
  <1>9. MakingsApart'
    BY <1>4, <1>5 DEF IInv, MakingsApart
  <1>10. OneClaim'
    BY <1>1, <1>4, <1>5 DEF IInv, OneClaim, Agrees, AgreesMaking
  <1>11. (\A q \in Process : MountsSound(backends_[q]))' /\ ScannedIsRegistered'
    BY <1>1, <1>5 DEF IInv, MountsSound, ScannedIsRegistered
  <1>12. QED
    BY <1>6, <1>7, <1>8, <1>9, <1>10, <1>11 DEF IInv

\* The header has a type and not yet an id: nobody may scan it.
LEMMA ConfigureTypeStep ==
  ASSUME IInv, NEW p \in Process, ConfigureType(p)
  PROVE  IInv'
  <1> PICK a : a = making[p].alloc
    OBVIOUS
  <1> PICK x : x = a.region
    OBVIOUS
  <1>1. /\ making[p].at = "marked" /\ a.kind # "malloc"
        /\ region' = [region EXCEPT ![x].type = a.kind]
        /\ allocators_' = [allocators_ EXCEPT
             ![p] = IF a.kind = "scalable" THEN Registered(@, Sub(a)) ELSE @]
        /\ making' = [making EXCEPT ![p].at = "typed"]
        /\ UNCHANGED <<named, backends_, default_allocator_, dropped>>
    BY DEF ConfigureType
  <1>2. Types /\ DOMAIN region = 1 .. Len(region) /\ region \in Seq(Header)
    BY DEF IInv, Types
  <1>3. /\ Making(p) /\ MakingSound("marked", a) /\ x \in DOMAIN region
        /\ a.id \in MainIds /\ a.id \in AllocatorId
        /\ region[x].type = "none" /\ region[x].alloc_id = RootId /\ region[x].has_alloc
    BY <1>1 DEF IInv, MakingsSound, MakingSound, Making, MainIds
  <1>4. a \in Allocator /\ a.kind \in {"stack", "scalable"}
    BY <1>1, <1>2, <1>3 DEF Types, Entry, NoAlloc, Allocator, AllocatorId
  <1>5. /\ region' \in Seq(Header) /\ Len(region') = Len(region) /\ DOMAIN region' = DOMAIN region
        /\ \A r \in DOMAIN region : r # x => region'[r] = region[r]
        /\ region'[x] = [region[x] EXCEPT !.type = a.kind]
    <2> DEFINE h == [region[x] EXCEPT !.type = a.kind]
    <2>1. h \in Header
      <3>1. region[x] \in Header
        BY <1>2, <1>3
      <3>2. \A e \in Header, k \in {"stack", "scalable"} : [e EXCEPT !.type = k] \in Header
        BY DEF Header
      <3>3. QED  BY <1>4, <3>1, <3>2
    <2>2. region' = [region EXCEPT ![x] = h]
      BY <1>1
    <2> HIDE DEF h
    <2>3. region' \in Seq(Header) /\ Len(region') = Len(region) /\ DOMAIN region' = DOMAIN region
      BY <1>2, <1>3, <2>1, <2>2, ExceptSeq
    <2>4. /\ \A r \in DOMAIN region : r # x => region'[r] = region[r]
          /\ region'[x] = h
      BY <1>2, <1>3, <2>2
    <2>5. QED  BY <2>3, <2>4 DEF h
  <1>6. /\ region'[x].id = region[x].id /\ region'[x].has_alloc /\ region'[x].type = a.kind
        /\ region'[x].alloc_id = RootId
    <2>1. region[x] \in Header
      BY <1>2, <1>3
    <2>2. QED  BY <1>3, <1>5, <2>1 DEF Header
  <1>7. ~Complete(x) /\ ~Complete(x)'
    BY <1>3, <1>6 DEF Complete
  <1>8. \A r \in DOMAIN region \ {x} :
          /\ Complete(r)' = Complete(r) /\ Discovered(r)' = Discovered(r)
          /\ Live(r)' = Live(r) /\ region'[r] = region[r]
    BY <1>1, <1>5 DEF Complete, Discovered, Live
  <1>9. Claimed' \subseteq Claimed /\ Claimed \subseteq DOMAIN region \ {x}
    BY <1>5, <1>7, <1>8 DEF Claimed
  <1>10. \A q \in Process : /\ making'[q].alloc = making[q].alloc
                            /\ making'[q].at = IF q = p THEN "typed" ELSE making[q].at
    BY <1>1, <1>2 DEF Types
  <1>11. \A q \in Process : Making(q)' = Making(q)
    BY <1>1, <1>10 DEF Making
  <1>12. \A q \in Process : Making(q) => /\ making[q].alloc.id \in MainIds
                                         /\ making[q].alloc.region \in DOMAIN region
                                         /\ making[q].alloc.region = x => q = p
    BY <1>3 DEF IInv, MakingsSound, MakingSound, MakingsApart
  <1>13. /\ allocators_' \in [Process -> [Index -> Entry]]
         /\ \A q \in Process, id \in MainIds :
              allocators_'[q][ToIndex(id)] = allocators_[q][ToIndex(id)]
    <2>1. Sub(a) \in Allocator /\ Sub(a).id = SubId(a.id)
      <3>1. SubId(a.id) \in AllocatorId
        BY <1>3, Ids
      <3>2. QED  BY <1>4, <3>1 DEF Sub, Allocator
    <2>2. \A id \in MainIds : ToIndex(id) \in Index /\ ToIndex(id) # ToIndex(SubId(a.id))
      BY <1>3, Ids DEF MainIds
    <2>3. CASE a.kind # "scalable"
      BY <1>1, <1>2, <2>3 DEF Types
    <2>4. CASE a.kind = "scalable"
      <3>1. allocators_' = [allocators_ EXCEPT ![p] =
                              [allocators_[p] EXCEPT ![ToIndex(SubId(a.id))] = Sub(a)]]
        BY <1>1, <1>2, <2>1, <2>4 DEF Types, Registered
      <3>2. QED  BY <1>2, <2>1, <2>2, <3>1 DEF Types, Entry
    <2>5. QED  BY <2>3, <2>4
  <1>14. MainIds \subseteq AllocatorId /\ RootId \in MainIds
    BY Ids DEF MainIds
  <1>15. Types'
    <2>1. making' \in [Process -> [at : {"idle", "marked", "typed", "ready"}, alloc : Entry]]
      BY <1>1, <1>2 DEF Types
    <2>2. backends_' \in [Process -> Mounts']
      BY <1>1, <1>2, <1>5 DEF Types, Mounts
    <2>3. QED  BY <1>1, <1>2, <1>5, <1>13, <2>1, <2>2 DEF Types
  <1>16. TablesIndexed'
    BY <1>1, <1>13, <1>14 DEF IInv, TablesIndexed, Indexed
  <1>17. HeadersComplete'
    <2> SUFFICES ASSUME NEW r \in DOMAIN region
                 PROVE  /\ region'[r].alloc_id[2] = 0
                        /\ region'[r].type = "none" => region'[r].alloc_id = RootId
                        /\ region'[r].type # "none" =>
                             /\ region'[r].has_alloc
                             /\ \/ Complete(r)'
                                \/ \E q \in Process : /\ making'[q].at = "typed"
                                                      /\ making'[q].alloc.region = r
      BY <1>5 DEF HeadersComplete
    <2>1. CASE r = x
      BY <1>6, <1>10, <2>1 DEF RootId
    <2>2. CASE r # x
      BY <1>1, <1>8, <1>10, <2>2 DEF IInv, HeadersComplete
    <2>3. QED  BY <2>1, <2>2
  <1>18. MakingsSound'
    <2> SUFFICES ASSUME NEW q \in Process, Making(q)', NEW at, NEW c, at = making'[q].at,
                        c = making'[q].alloc
                 PROVE  MakingSound(at, c)'
      BY DEF MakingsSound, MakingSound
    <2>1. CASE q = p
      <3>1. at = "typed" /\ c = a
        BY <1>10, <2>1
      <3>2. QED  BY <1>3, <1>5, <1>6, <3>1 DEF MakingSound
    <2>2. CASE q # p
      <3>1. MakingSound(at, c) /\ c.region \in DOMAIN region \ {x}
        BY <1>10, <1>11, <1>12, <2>2 DEF IInv, MakingsSound
      <3>2. QED  BY <1>5, <1>8, <3>1 DEF MakingSound
    <2>3. QED  BY <2>1, <2>2
  <1>19. MakingsApart'
    BY <1>10, <1>11 DEF IInv, MakingsApart
  <1>20. \A q \in Process : (Agrees(allocators_[q]) /\ AgreesMaking(allocators_[q]))'
    <2>1. \A r \in Claimed : region[r].alloc_id \in MainIds
      BY DiscoveredType
    <2>2. \A q \in Process : Agrees(allocators_[q])'
      BY <1>8, <1>9, <1>13, <2>1 DEF IInv, OneClaim, Agrees
    <2>3. \A q \in Process : AgreesMaking(allocators_[q])'
      BY <1>10, <1>11, <1>12, <1>13 DEF IInv, OneClaim, AgreesMaking
    <2>4. QED  BY <2>2, <2>3
  <1>21. OneClaim'
    BY <1>8, <1>9, <1>10, <1>11, <1>20 DEF IInv, OneClaim
  <1>22. (\A q \in Process : MountsSound(backends_[q]))'
    <2> SUFFICES ASSUME NEW q \in Process, NEW b \in Backend, NEW r, r = backends_[q][b].region
                 PROVE  /\ r # None => region'[r].id = b
                        /\ backends_[q][b].scanned => r \in DOMAIN region' /\ Complete(r)'
      BY <1>1 DEF MountsSound
    <2>1. /\ r \in DOMAIN region \union {None}
          /\ r # None => region[r].id = b
          /\ backends_[q][b].scanned => r \in DOMAIN region /\ Complete(r)
      <3>1. backends_[q][b].region \in DOMAIN region \union {None}
        BY <1>2 DEF Types, Mounts
      <3>2. QED  BY <3>1 DEF IInv, MountsSound
    <2>2. CASE r = x
      <3>1. x \in DOMAIN region' /\ region'[x].id = region[x].id
        BY <1>3, <1>5, <1>6
      <3>2. ~backends_[q][b].scanned
        BY <1>7, <2>1, <2>2
      <3>3. QED  BY <2>1, <2>2, <3>1, <3>2
    <2>3. CASE r # x
      <3>1. r \in DOMAIN region => region'[r] = region[r] /\ (Complete(r) => Complete(r)')
        BY <1>8, <2>3
      <3>2. QED  BY <1>5, <2>1, <3>1
    <2>4. QED  BY <2>2, <2>3
  <1>23. DefaultUsable'
    BY <1>1, <1>13 DEF IInv, DefaultUsable, TablesIndexed, Types, Allocator, MainIds
  <1>24. ScannedIsRegistered'
    <2> SUFFICES ASSUME NEW q \in Process, NEW b \in Backend, backends_[q][b].scanned,
                        NEW r, r = backends_[q][b].region
                 PROVE  \/ r \in dropped[q]
                        \/ allocators_'[q][ToIndex(region'[r].alloc_id)] = Discovered(r)'
      BY <1>1 DEF ScannedIsRegistered
    <2>1. r \in Claimed
      BY ScannedClaimed
    <2>2. region'[r] = region[r] /\ Discovered(r)' = Discovered(r) /\ region[r].alloc_id \in MainIds
      BY <1>8, <1>9, <2>1, DiscoveredType
    <2>3. r \in dropped[q] \/ allocators_[q][ToIndex(region[r].alloc_id)] = Discovered(r)
      BY Zenon DEF IInv, ScannedIsRegistered
    <2>4. QED  BY <1>13, <2>2, <2>3
  <1>25. QED
    BY <1>15, <1>16, <1>17, <1>18, <1>19, <1>21, <1>22, <1>23, <1>24 DEF IInv

\* Now it is complete, and claims the id that its CreateAllocator had taken.
LEMMA ConfigureIdStep ==
  ASSUME IInv, NEW p \in Process, ConfigureId(p)
  PROVE  IInv'
  <1> PICK a : a = making[p].alloc
    OBVIOUS
  <1> PICK x : x = a.region
    OBVIOUS
  <1>1. /\ making[p].at = "typed"
        /\ region' = [region EXCEPT ![x].alloc_id = a.id]
        /\ making' = [making EXCEPT ![p].at = "ready"]
        /\ UNCHANGED <<named, backends_, allocators_, default_allocator_, dropped>>
    BY DEF ConfigureId, tables
  <1>2. Types /\ DOMAIN region = 1 .. Len(region) /\ region \in Seq(Header)
    BY DEF IInv, Types
  <1>3. /\ Making(p) /\ MakingSound("typed", a) /\ x \in DOMAIN region
        /\ a.id \in MainIds \ {RootId} /\ a.id \in AllocatorId /\ a.id[2] = 0 /\ a.base = 0
        /\ region[x].type = a.kind /\ region[x].alloc_id = RootId /\ region[x].has_alloc
    BY <1>1 DEF IInv, MakingsSound, MakingSound, Making, MainIds
  <1>4. a \in Allocator
    BY <1>2, <1>3 DEF Types, Entry, NoAlloc, AllocatorId
  <1>5. /\ region' \in Seq(Header) /\ Len(region') = Len(region) /\ DOMAIN region' = DOMAIN region
        /\ \A r \in DOMAIN region : r # x => region'[r] = region[r]
        /\ region'[x] = [region[x] EXCEPT !.alloc_id = a.id]
    <2> DEFINE h == [region[x] EXCEPT !.alloc_id = a.id]
    <2>1. h \in Header
      <3>1. region[x] \in Header
        BY <1>2, <1>3
      <3>2. \A e \in Header, id \in AllocatorId : [e EXCEPT !.alloc_id = id] \in Header
        BY DEF Header
      <3>3. QED  BY <1>3, <3>1, <3>2
    <2>2. region' = [region EXCEPT ![x] = h]
      BY <1>1
    <2> HIDE DEF h
    <2>3. region' \in Seq(Header) /\ Len(region') = Len(region) /\ DOMAIN region' = DOMAIN region
      BY <1>2, <1>3, <2>1, <2>2, ExceptSeq
    <2>4. /\ \A r \in DOMAIN region : r # x => region'[r] = region[r]
          /\ region'[x] = h
      BY <1>2, <1>3, <2>2
    <2>5. QED  BY <2>3, <2>4 DEF h
  <1>6. /\ region'[x].id = region[x].id /\ region'[x].has_alloc /\ region'[x].type = a.kind
        /\ region'[x].alloc_id = a.id /\ a.kind # "none"
    <2>1. region[x] \in Header
      BY <1>2, <1>3
    <2>2. a.kind # "none"
      BY <1>4 DEF Allocator
    <2>3. QED  BY <1>3, <1>5, <2>1, <2>2 DEF Header
  <1>7. ~Complete(x) /\ Complete(x)' /\ Discovered(x)' = a
    <2>1. ~Complete(x) /\ Complete(x)'
      BY <1>3, <1>6 DEF Complete
    <2>2. Discovered(x)' = [id |-> a.id, kind |-> a.kind, region |-> x, base |-> 0]
      BY <1>6 DEF Discovered
    <2>3. a = [id |-> a.id, kind |-> a.kind, region |-> x, base |-> 0]
      BY <1>3, <1>4 DEF Allocator
    <2>4. QED  BY <2>1, <2>2, <2>3
  <1>8. \A r \in DOMAIN region \ {x} :
          /\ Complete(r)' = Complete(r) /\ Discovered(r)' = Discovered(r)
          /\ Live(r)' = Live(r) /\ region'[r] = region[r]
    BY <1>1, <1>5 DEF Complete, Discovered, Live
  <1>9. Claimed' \subseteq Claimed \union {x} /\ Claimed \subseteq DOMAIN region \ {x}
    BY <1>5, <1>7, <1>8 DEF Claimed
  <1>10. \A q \in Process : /\ making'[q].alloc = making[q].alloc
                            /\ making'[q].at = IF q = p THEN "ready" ELSE making[q].at
    BY <1>1, <1>2 DEF Types
  <1>11. \A q \in Process : Making(q)' = Making(q)
    BY <1>1, <1>10 DEF Making
  <1>12. \A q \in Process : Making(q) => /\ making[q].alloc.region \in DOMAIN region
                                         /\ making[q].alloc.region = x => q = p
                                         /\ making[q].alloc.id = a.id => q = p
    BY <1>3 DEF IInv, MakingsSound, MakingSound, MakingsApart
  <1>13. \A r \in Claimed : region[r].alloc_id # a.id
    BY <1>3, <1>9 DEF IInv, OneClaim
  <1>14. Types'
    <2>1. making' \in [Process -> [at : {"idle", "marked", "typed", "ready"}, alloc : Entry]]
      BY <1>1, <1>2 DEF Types
    <2>2. backends_' \in [Process -> Mounts']
      BY <1>1, <1>2, <1>5 DEF Types, Mounts
    <2>3. QED  BY <1>1, <1>2, <1>5, <2>1, <2>2 DEF Types
  <1>15. TablesIndexed' /\ DefaultUsable'
    BY <1>1 DEF IInv, TablesIndexed, Indexed, DefaultUsable
  <1>16. HeadersComplete'
    <2> SUFFICES ASSUME NEW r \in DOMAIN region
                 PROVE  /\ region'[r].alloc_id[2] = 0
                        /\ region'[r].type = "none" => region'[r].alloc_id = RootId
                        /\ region'[r].type # "none" =>
                             /\ region'[r].has_alloc
                             /\ \/ Complete(r)'
                                \/ \E q \in Process : /\ making'[q].at = "typed"
                                                      /\ making'[q].alloc.region = r
      BY <1>5 DEF HeadersComplete
    <2>1. CASE r = x
      BY <1>3, <1>6, <1>7, <2>1
    <2>2. CASE r # x
      <3>1. \A q \in Process : making[q].at = "typed" /\ making[q].alloc.region = r => q # p
        BY <2>2
      <3>2. QED  BY <1>8, <1>10, <2>2, <3>1 DEF IInv, HeadersComplete
    <2>3. QED  BY <2>1, <2>2
  <1>17. MakingsSound'
    <2> SUFFICES ASSUME NEW q \in Process, Making(q)', NEW at, NEW c, at = making'[q].at,
                        c = making'[q].alloc
                 PROVE  MakingSound(at, c)'
      BY DEF MakingsSound, MakingSound
    <2>1. CASE q = p
      <3>1. at = "ready" /\ c = a
        BY <1>10, <2>1
      <3>2. QED  BY <1>3, <1>5, <1>6, <1>7, <3>1 DEF MakingSound
    <2>2. CASE q # p
      <3>1. MakingSound(at, c) /\ c.region \in DOMAIN region \ {x}
        BY <1>10, <1>11, <1>12, <2>2 DEF IInv, MakingsSound
      <3>2. QED  BY <1>5, <1>8, <3>1 DEF MakingSound
    <2>3. QED  BY <2>1, <2>2
  <1>18. MakingsApart'
    BY <1>10, <1>11 DEF IInv, MakingsApart
  <1>19. \A q \in Process : (Agrees(allocators_[q]) /\ AgreesMaking(allocators_[q]))'
    <2>1. \A q \in Process : allocators_[q][ToIndex(a.id)] \in {NoAlloc, a}
      BY <1>3 DEF IInv, OneClaim, AgreesMaking
    <2>2. \A q \in Process, r \in Claimed \union {x} :
            allocators_[q][ToIndex(region'[r].alloc_id)] \in {NoAlloc, Discovered(r)'}
      BY <1>6, <1>7, <1>8, <1>9, <2>1 DEF IInv, OneClaim, Agrees
    <2>3. \A q \in Process : Agrees(allocators_[q])'
      BY <1>1, <1>9, <2>2 DEF Agrees
    <2>4. \A q \in Process : AgreesMaking(allocators_[q])'
      BY <1>1, <1>10, <1>11 DEF IInv, OneClaim, AgreesMaking
    <2>5. QED  BY <2>3, <2>4
  <1>20. OneClaim'
    <2>1. \A r \in Claimed : region'[r].alloc_id = region[r].alloc_id /\ region'[r].alloc_id # a.id
      BY <1>8, <1>9, <1>13
    <2>2. \A r, s \in Claimed \union {x} : region'[r].alloc_id = region'[s].alloc_id => r = s
      BY <1>6, <2>1 DEF IInv, OneClaim
    <2>3. \A q \in Process, r \in Claimed \union {x} :
            Making(q) /\ making[q].alloc.id = region'[r].alloc_id => making[q].alloc.region = r
      BY <1>6, <1>12, <2>1 DEF IInv, OneClaim
    <2>4. QED  BY <1>9, <1>10, <1>11, <1>19, <2>2, <2>3 DEF OneClaim
  <1>21. (\A q \in Process : MountsSound(backends_[q]))'
    <2> SUFFICES ASSUME NEW q \in Process, NEW b \in Backend, NEW r, r = backends_[q][b].region
                 PROVE  /\ r # None => region'[r].id = b
                        /\ backends_[q][b].scanned => r \in DOMAIN region' /\ Complete(r)'
      BY <1>1 DEF MountsSound
    <2>1. /\ r \in DOMAIN region \union {None}
          /\ r # None => region[r].id = b
          /\ backends_[q][b].scanned => r \in DOMAIN region /\ Complete(r)
      <3>1. backends_[q][b].region \in DOMAIN region \union {None}
        BY <1>2 DEF Types, Mounts
      <3>2. QED  BY <3>1 DEF IInv, MountsSound
    <2>2. CASE r = x
      <3>1. x \in DOMAIN region' /\ region'[x].id = region[x].id
        BY <1>3, <1>5, <1>6
      <3>2. Complete(r)'
        BY <1>6, <1>3, <2>2 DEF Complete
      <3>3. QED  BY <2>1, <2>2, <3>1, <3>2
    <2>3. CASE r # x
      <3>1. r \in DOMAIN region => region'[r] = region[r] /\ (Complete(r) => Complete(r)')
        BY <1>8, <2>3
      <3>2. QED  BY <1>5, <2>1, <3>1
    <2>4. QED  BY <2>2, <2>3
  <1>22. ScannedIsRegistered'
    <2> SUFFICES ASSUME NEW q \in Process, NEW b \in Backend, backends_[q][b].scanned,
                        NEW r, r = backends_[q][b].region
                 PROVE  \/ r \in dropped[q]
                        \/ allocators_[q][ToIndex(region'[r].alloc_id)] = Discovered(r)'
      BY <1>1 DEF ScannedIsRegistered
    <2>1. r \in Claimed
      BY ScannedClaimed
    <2>2. region'[r] = region[r] /\ Discovered(r)' = Discovered(r)
      BY <1>8, <1>9, <2>1
    <2>3. QED  BY <2>2 DEF IInv, ScannedIsRegistered
  <1>23. QED
    BY <1>14, <1>15, <1>16, <1>17, <1>18, <1>20, <1>21, <1>22 DEF IInv

-----------------------------------------------------------------------------
(* The invariant *)

LEMMA InitIInv == Init => IInv
  <1> SUFFICES ASSUME MMInit  PROVE IInv
    BY DEF Init
  <1>1. \A p \in Process : RootAlloc(p) \in Allocator /\ RootAlloc(p).id = RootId
    BY Ids DEF RootAlloc, Allocator, MainIds
  <1>2. region = <<>> /\ DOMAIN region = {} /\ Len(region) = 0 /\ region \in Seq(Header)
    BY DEF MMInit
  <1>3. /\ \A p \in Process, b \in Backend : backends_[p][b] = NoBackend
        /\ \A p \in Process : making[p] = Idle /\ default_allocator_[p] = RootAlloc(p)
        /\ \A p \in Process, i \in Index :
             allocators_[p][i] = IF i = ToIndex(RootId) THEN RootAlloc(p) ELSE NoAlloc
    BY DEF MMInit
  <1>4. Types
    <2>1. backends_ \in [Process -> Mounts]
      BY <1>2 DEF MMInit, Mounts, NoBackend
    <2>2. allocators_ \in [Process -> [Index -> Entry]]
      BY <1>1 DEF MMInit, Entry
    <2>3. making \in [Process -> [at : {"idle", "marked", "typed", "ready"}, alloc : Entry]]
      BY DEF MMInit, Idle, Entry
    <2>4. default_allocator_ \in [Process -> Allocator]
      BY <1>1 DEF MMInit
    <2>5. /\ named \in [Url -> DOMAIN region \union {None}]
          /\ dropped \in [Process -> SUBSET (Region \union Process)]
      BY DEF MMInit
    <2>6. Len(region) <= MaxRegion
      BY <1>2, MemoryAssumption
    <2>7. QED
      BY <1>2, <2>1, <2>2, <2>3, <2>4, <2>5, <2>6 DEF Types
  <1>5. /\ RootId \in AllocatorId /\ RootId[2] = 0 /\ ToIndex(RootId) \in Index
        /\ \A id \in MainIds : /\ ToIndex(id) \in Index
                               /\ ToIndex(id) = ToIndex(RootId) => id = RootId
    BY Ids DEF MainIds
  <1>6. TablesIndexed
    BY <1>1, <1>3, <1>5 DEF TablesIndexed, Indexed
  <1>7. \A q \in Process : ~Making(q)
    BY <1>3 DEF Making, Idle
  <1>8. /\ HeadersComplete /\ MakingsSound /\ MakingsApart
        /\ Claimed = {} /\ OneClaim
    BY <1>2, <1>7 DEF HeadersComplete, MakingsSound, MakingsApart, Claimed, OneClaim,
                      Agrees, AgreesMaking
  <1>9. (\A p \in Process : MountsSound(backends_[p])) /\ ScannedIsRegistered
    BY <1>3 DEF MountsSound, ScannedIsRegistered, NoBackend
  <1>10. DefaultUsable
    BY <1>1, <1>3, <1>5 DEF DefaultUsable
  <1>11. QED  BY <1>4, <1>6, <1>8, <1>9, <1>10 DEF IInv

LEMMA StepIInv ==
  ASSUME IInv, Barrier, [Step]_mmVars
  PROVE  IInv'
  <1>1. CASE UNCHANGED mmVars
    <2>1. UNCHANGED <<region, named, backends_, allocators_, default_allocator_, making, dropped>>
      BY <1>1 DEF mmVars, tables
    <2>2. Types'
      BY Zenon, <2>1 DEF IInv, Types, Mounts
    <2>3. (TablesIndexed /\ HeadersComplete /\ MakingsSound /\ MakingsApart)'
      <3>1. TablesIndexed' /\ MakingsApart'
        BY <2>1 DEF IInv, TablesIndexed, Indexed, MakingsApart, Making
      <3>2. HeadersComplete'
        BY <2>1 DEF IInv, HeadersComplete, Complete
      <3>3. MakingsSound'
        BY <2>1 DEF IInv, MakingsSound, MakingSound, Making, Discovered
      <3>4. QED  BY <3>1, <3>2, <3>3
    <2>4. (\A r : Discovered(r)' = Discovered(r)) /\ Claimed' = Claimed
      BY Zenon, <2>1 DEF Discovered, Claimed, Live, Complete
    <2>5. OneClaim'
      BY Zenon, <2>1, <2>4 DEF IInv, OneClaim, Agrees, AgreesMaking, Making
    <2>6. (\A p \in Process : MountsSound(backends_[p]))'
      BY Zenon, <2>1 DEF IInv, MountsSound, Complete
    <2>7. (DefaultUsable /\ ScannedIsRegistered)'
      BY Zenon, <2>1, <2>4 DEF IInv, DefaultUsable, ScannedIsRegistered
    <2>8. QED  BY <2>2, <2>3, <2>5, <2>6, <2>7 DEF IInv
  <1>2. ASSUME NEW p \in Process, NEW m \in 1 .. MaxMajor, UnregisterAllocator(p, <<m, 0>>)
        PROVE  IInv'
    BY <1>2, UnregisterAllocatorStep
  <1>3. ASSUME NEW p \in Process,
               \/ ScanBackends(p) \/ ConfigureType(p) \/ ConfigureId(p) \/ ConfigureMalloc(p)
               \/ RegisterAllocator(p)
        PROVE  IInv'
    BY <1>3, ScanBackendsStep, ConfigureTypeStep, ConfigureIdStep, ConfigureMallocStep,
       RegisterAllocatorStep
  <1>4. ASSUME NEW p \in Process, NEW u \in Url, AttachBackend(p, u)
        PROVE  IInv'
    BY <1>4, AttachBackendStep
  <1>5. ASSUME NEW p \in Process, NEW u \in Url, NEW b \in Backend, CreateBackend(p, u, b)
        PROVE  IInv'
    <2>1. /\ NewRegion(b) /\ Mount(p, b, Len(region'))
          /\ named' = [named EXCEPT ![u] = Len(region')]
          /\ UNCHANGED <<making, allocators_, default_allocator_, dropped>>
      BY <1>5 DEF CreateBackend
    <2>2. QED  BY <2>1, NewRegionStep
  <1>6. ASSUME NEW p \in Process, NEW b \in Backend, CreatePrivateBackend(p, b)
        PROVE  IInv'
    <2>1. /\ NewRegion(b) /\ Mount(p, b, Len(region'))
          /\ UNCHANGED <<named, making, allocators_, default_allocator_, dropped>>
      BY <1>6 DEF CreatePrivateBackend
    <2>2. QED  BY <2>1, NewRegionStep
  <1>7. ASSUME NEW p \in Process, NEW b \in Backend, DestroyBackend(p, b)
        PROVE  IInv'
    BY <1>7, DestroyBackendStep
  <1>8. ASSUME NEW p \in Process, NEW b \in Backend, NEW m \in 1 .. MaxMajor,
               NEW kind \in Kinds[m], CreateAllocator(p, b, <<m, 0>>, kind)
        PROVE  IInv'
    BY <1>8, CreateAllocatorStep
  <1>9. ASSUME NEW p \in Process, NEW m \in 1 .. MaxMajor, SetDefaultAllocator(p, <<m, 0>>)
        PROVE  IInv'
    BY <1>9, SetDefaultAllocatorStep
  <1>10. CASE MMNext
    BY <1>3, <1>4, <1>5, <1>6, <1>7, <1>8, <1>9, <1>10 DEF MMNext
  <1>11. QED
    BY <1>1, <1>2, <1>10 DEF Step

LEMMA Inductive ==
  ASSUME Barrier
  PROVE  Safe => []IInv
  <1>1. Init => IInv
    BY InitIInv
  <1>2. IInv /\ [Next]_vars => IInv'
    BY ApiStep, StepIInv
  <1>3. QED  BY <1>1, <1>2, PTL DEF Safe

(***************************************************************************)
(* If every process waits at a barrier while allocators are made, the      *)
(* allocator "used by default when no allocator is used to construct an    *)
(* object" (memory_manager_.h:255-257) is always one that GetAllocator     *)
(* returns for its id, through whatever attaching, scanning, creating and  *)
(* unregistering.                                                          *)
(***************************************************************************)
THEOREM DefaultAlwaysUsable ==
  ASSUME Barrier
  PROVE  Safe => []DefaultUsable
  <1>1. IInv => DefaultUsable
    BY DEF IInv
  <1>2. QED  BY <1>1, Inductive, PTL

(***************************************************************************)
(* Under the same barrier a backend that later scans pass over             *)
(* (memory_manager.h:240) is one whose allocator the process has or has    *)
(* unregistered itself: SetScanned never hides an allocator.               *)
(***************************************************************************)
THEOREM ScannedAlwaysRegistered ==
  ASSUME Barrier
  PROVE  Safe => []ScannedIsRegistered
  <1>1. IInv => ScannedIsRegistered
    BY DEF IInv
  <1>2. QED  BY <1>1, Inductive, PTL

-----------------------------------------------------------------------------
(* What a table entry means *)

\* The entries of main ids: the root allocator, one without a buffer, or the allocator
\* that the header of its region names.
MainEntry(p, e) ==
  \/ e = RootAlloc(p)
  \/ /\ e.id # RootId /\ e.kind = "malloc" /\ e.base = 0 /\ e.region \in Region
     /\ "malloc" \in Kinds[e.id[1]]
  \/ /\ e.id # RootId /\ e.region \in DOMAIN region
     /\ Complete(e.region) /\ Discovered(e.region) = e

\* The entry of a sub-allocator: it starts in the region of its main allocator, which
\* may be in the making or unregistered.
SubEntry(e) ==
  /\ e.kind = "stack" /\ e.region \in DOMAIN region
  /\ \/ Complete(e.region) /\ SubId(region[e.region].alloc_id) = e.id
     \/ \E q \in Process : /\ making[q].at = "typed" /\ making[q].alloc.region = e.region
                           /\ SubId(making[q].alloc.id) = e.id

EntrySound(p, i, e) ==
  e # NoAlloc => /\ ToIndex(e.id) = i
                 /\ IF e.id[2] = 0 THEN MainEntry(p, e) ELSE SubEntry(e)

MallocKind(a) == a.kind = "malloc" => "malloc" \in Kinds[a.id[1]]

\* Every process that has an allocator of a main id has the same one.
TablesAgree ==
  \A p, q \in Process, id \in MainIds \ {RootId} :
    \/ allocators_[p][ToIndex(id)] = NoAlloc
    \/ allocators_[q][ToIndex(id)] = NoAlloc
    \/ allocators_[p][ToIndex(id)] = allocators_[q][ToIndex(id)]

Entries ==
  /\ \A p \in Process, i \in Index : EntrySound(p, i, allocators_[p][i])
  /\ TablesAgree
  /\ \A q \in Process : MallocKind(making[q].alloc)

\* What a step of the MemoryManager leaves as it is: the headers that are complete and
\* the entries of main ids that are there.
HeadersKept ==
  \A r \in DOMAIN region :
    r \in DOMAIN region' /\ (Complete(r) => Complete(r)' /\ Discovered(r)' = Discovered(r))

MainsKept ==
  \A p \in Process, id \in MainIds \ {RootId} :
    \/ allocators_[p][ToIndex(id)] = NoAlloc
    \/ allocators_'[p][ToIndex(id)] = allocators_[p][ToIndex(id)]

LEMMA EntryKept ==
  ASSUME HeadersKept, NEW p \in Process, NEW i \in Index, NEW e, EntrySound(p, i, e),
         \A q \in Process : making[q].at = "typed" => making'[q] = making[q]
  PROVE  EntrySound(p, i, e)'
  <1>1. \A r \in DOMAIN region : Complete(r) =>
          /\ r \in DOMAIN region' /\ Complete(r)' /\ Discovered(r)' = Discovered(r)
          /\ region'[r].alloc_id = region[r].alloc_id
    <2>1. \A r : Discovered(r).id = region[r].alloc_id /\ (Discovered(r).id = region[r].alloc_id)'
      BY DEF Discovered
    <2>2. QED  BY <2>1 DEF HeadersKept
  <1>2. CASE e # NoAlloc /\ e.id[2] = 0
    BY <1>1, <1>2 DEF EntrySound, MainEntry
  <1>3. CASE e # NoAlloc /\ e.id[2] # 0
    <2>1. e.region \in DOMAIN region'
      BY <1>3 DEF EntrySound, SubEntry, HeadersKept
    <2>2. QED  BY <1>1, <1>3, <2>1 DEF EntrySound, SubEntry
  <1>4. CASE e = NoAlloc
    BY <1>4 DEF EntrySound
  <1>5. QED  BY <1>2, <1>3, <1>4

\* A step that leaves the tables and what is half made.
LEMMA SameTables ==
  ASSUME IInv, Entries, HeadersKept, UNCHANGED allocators_,
         \A q \in Process : making[q].at = "typed" => making'[q] = making[q],
         \A q \in Process : MallocKind(making'[q].alloc)
  PROVE  Entries' /\ MainsKept
  <1>1. MainsKept
    BY DEF MainsKept
  <1>2. \A p \in Process, i \in Index : EntrySound(p, i, allocators_[p][i])'
    <2> SUFFICES ASSUME NEW p \in Process, NEW i \in Index, NEW e, e = allocators_[p][i]
                 PROVE  EntrySound(p, i, e)'
      BY DEF EntrySound
    <2>1. EntrySound(p, i, e)
      BY DEF Entries
    <2>2. QED  BY <2>1, EntryKept
  <1>3. TablesAgree'
    BY DEF Entries, TablesAgree
  <1>4. \A q \in Process : MallocKind(making[q].alloc)'
    BY DEF MallocKind
  <1>5. QED  BY <1>1, <1>2, <1>3, <1>4 DEF Entries

LEMMA ClaimedEntries ==
  ASSUME IInv, NEW p \in Process, NEW r \in Claimed
  PROVE  /\ EntrySound(p, ToIndex(region[r].alloc_id), Discovered(r))
         /\ EntrySound(p, ToIndex(SubId(region[r].alloc_id)), Sub(Discovered(r)))
  <1> PICK a : a = Discovered(r)
    OBVIOUS
  <1>1. /\ a \in Allocator /\ a.region = r /\ a.base = 0
        /\ a.id = region[r].alloc_id /\ a.id \in MainIds \ {RootId}
        /\ r \in DOMAIN region /\ Complete(r)
    BY DiscoveredType DEF Claimed
  <1>2. EntrySound(p, ToIndex(a.id), a)
    BY <1>1 DEF EntrySound, MainEntry, MainIds
  <1>3. /\ Sub(a).id = SubId(a.id) /\ Sub(a).kind = "stack" /\ Sub(a).region = r
        /\ SubId(a.id)[2] = 1
    BY <1>1 DEF Sub, Allocator, SubId
  <1>4. EntrySound(p, ToIndex(SubId(a.id)), Sub(a))
    BY <1>1, <1>3 DEF EntrySound, SubEntry
  <1>5. QED  BY <1>1, <1>2, <1>4

\* An allocator whose making is at its end, as its creator registers it.
LEMMA MadeEntry ==
  ASSUME IInv, Entries, NEW p \in Process, making[p].at = "ready"
  PROVE  /\ making[p].alloc.id \in MainIds \ {RootId}
         /\ EntrySound(p, ToIndex(making[p].alloc.id), making[p].alloc)
  <1> PICK a : a = making[p].alloc
    OBVIOUS
  <1>1. MakingSound("ready", a)
    BY DEF IInv, MakingsSound, Making
  <1>2. /\ a.id \in MainIds \ {RootId} /\ a.base = 0 /\ a.region \in DOMAIN region
        /\ a.id[2] = 0
    BY <1>1 DEF MakingSound, MainIds
  <1>3. a \in Allocator
    BY <1>2 DEF IInv, Types, Entry, NoAlloc, MainIds, AllocatorId
  <1>4. a.region \in Region
    BY <1>2, MemoryAssumption DEF Region, IInv, Types
  <1>5. CASE a.kind = "malloc"
    BY <1>2, <1>4, <1>5 DEF EntrySound, MainEntry, Entries, MallocKind
  <1>6. CASE a.kind # "malloc"
    <2>1. Discovered(a.region) = a
      BY <1>1, <1>6 DEF MakingSound
    <2>2. region[a.region].alloc_id = a.id /\ region[a.region].type = a.kind
      BY <2>1 DEF Discovered
    <2>3. Complete(a.region)
      BY <1>2, <1>3, <2>2 DEF Complete, Allocator
    <2>4. QED  BY <1>2, <2>1, <2>3 DEF EntrySound, MainEntry
  <1>7. QED  BY <1>2, <1>5, <1>6

\* A scan, of the table that p has or of the one in which it has just registered an
\* allocator.
LEMMA ScanEntries ==
  ASSUME IInv, Entries, NEW p \in Process, NEW mounts, GoodMounts(mounts), NEW t, NEW d,
         \/ t = allocators_[p]
         \/ making[p].at = "ready" /\ t = Registered(allocators_[p], making[p].alloc),
         ScanFrom(p, mounts, t, d), UNCHANGED <<region, named>>,
         \/ UNCHANGED making
         \/ making[p].at # "typed" /\ making' = [making EXCEPT ![p] = Idle]
  PROVE  Entries' /\ HeadersKept /\ MainsKept
  <1> DEFINE after == ScanTable(mounts, t)
             Id(b) == region[mounts[b].region].alloc_id
             D(b)  == Discovered(mounts[b].region)
  <1> PICK a : a = making[p].alloc
    OBVIOUS
  <1>1. /\ \A q \in Process : allocators_[q] \in [Index -> Entry]
        /\ \A q \in Process : Agrees(allocators_[q]) /\ AgreesMaking(allocators_[q])
        /\ mounts \in Mounts /\ MountsSound(mounts)
    BY DEF IInv, Types, OneClaim, GoodMounts
  <1>2. \A b \in ToScan(mounts) : mounts[b].region \in Claimed
    BY <1>1, ScanFound DEF GoodMounts
  <1>3. making[p].at = "ready" =>
          /\ a.id \in MainIds \ {RootId} /\ EntrySound(p, ToIndex(a.id), a) /\ Making(p)
          /\ ToIndex(a.id) \in Index /\ a \in Entry
    <2>1. making[p].at = "ready" => a.id \in MainIds \ {RootId} /\ EntrySound(p, ToIndex(a.id), a)
      BY MadeEntry
    <2>2. a \in Entry
      BY DEF IInv, Types
    <2>3. QED  BY <2>1, <2>2, Ids DEF Making, MainIds
  <1>4. /\ t \in [Index -> Entry]
        /\ \A i \in Index : \/ t[i] = allocators_[p][i]
                            \/ making[p].at = "ready" /\ i = ToIndex(a.id) /\ t[i] = a
    BY <1>1, <1>3 DEF Registered
  <1>5. /\ after \in [Index -> Entry]
        /\ \A i \in Index :
             \/ after[i] = t[i]
             \/ \E b \in ToScan(mounts) : \/ i = ToIndex(Id(b)) /\ after[i] = D(b)
                                          \/ i = ToIndex(SubId(Id(b))) /\ after[i] = Sub(D(b))
    BY <1>1, <1>2, <1>4, ScanTableIs
  <1> HIDE DEF after
  <1>6. \A q \in Process : allocators_'[q] = IF q = p THEN after ELSE allocators_[q]
    <2>1. allocators_' = [allocators_ EXCEPT ![p] = after]
      BY DEF ScanFrom, after
    <2>2. QED  BY <2>1 DEF IInv, Types
  <1>7. \A q \in Process : \/ making'[q] = making[q]
                           \/ making'[q] = Idle /\ making[q].at # "typed"
    BY DEF IInv, Types
  <1>8. HeadersKept
    BY DEF HeadersKept, Complete, Discovered
  <1>9. \A q \in Process, i \in Index : EntrySound(q, i, allocators_'[q][i])
    <2> SUFFICES ASSUME NEW q \in Process, NEW i \in Index
                 PROVE  EntrySound(q, i, allocators_'[q][i])
      OBVIOUS
    <2>1. CASE allocators_'[q][i] = allocators_[q][i]
      BY <2>1 DEF Entries
    <2>2. CASE q = p /\ making[p].at = "ready" /\ i = ToIndex(a.id) /\ allocators_'[q][i] = a
      BY <1>3, <2>2
    <2>3. CASE q = p /\ \E b \in ToScan(mounts) :
                          \/ i = ToIndex(Id(b)) /\ after[i] = D(b)
                          \/ i = ToIndex(SubId(Id(b))) /\ after[i] = Sub(D(b))
      BY <1>2, <1>6, <2>3, ClaimedEntries
    <2>4. QED  BY <1>4, <1>5, <1>6, <2>1, <2>2, <2>3
  <1>10. \A q \in Process, i \in Index : EntrySound(q, i, allocators_[q][i])'
    <2> SUFFICES ASSUME NEW q \in Process, NEW i \in Index, NEW e, e = allocators_'[q][i]
                 PROVE  EntrySound(q, i, e)'
      BY DEF EntrySound
    <2>1. EntrySound(q, i, e)
      BY <1>9
    <2>2. \A u \in Process : making[u].at = "typed" => making'[u] = making[u]
      BY <1>7
    <2>3. QED  BY <1>8, <2>1, <2>2, EntryKept
  <1>11. \A id \in MainIds \ {RootId} :
           LET i == ToIndex(id)
           IN  \/ after[i] = allocators_[p][i]
               \/ making[p].at = "ready" /\ id = a.id /\ after[i] = a
               \/ \E r \in Claimed : id = region[r].alloc_id /\ after[i] = Discovered(r)
    <2> SUFFICES ASSUME NEW id \in MainIds \ {RootId}, NEW i, i = ToIndex(id)
                 PROVE  \/ after[i] = allocators_[p][i]
                        \/ making[p].at = "ready" /\ id = a.id /\ after[i] = a
                        \/ \E r \in Claimed : id = region[r].alloc_id /\ after[i] = Discovered(r)
      OBVIOUS
    <2>1. id \in AllocatorId /\ i \in Index
      BY Ids DEF MainIds
    <2>2. CASE after[i] = t[i]
      <3>1. making[p].at = "ready" /\ i = ToIndex(a.id) => id = a.id
        BY <1>3, <2>1, Ids DEF MainIds
      <3>2. QED  BY <1>4, <2>1, <2>2, <3>1
    <2>3. ASSUME NEW b \in ToScan(mounts), i = ToIndex(Id(b)), after[i] = D(b)
          PROVE  \E r \in Claimed : id = region[r].alloc_id /\ after[i] = Discovered(r)
      <3>1. mounts[b].region \in Claimed /\ Id(b) \in AllocatorId
        BY <1>2, DiscoveredType DEF MainIds
      <3>2. QED  BY <2>1, <2>3, <3>1, Ids
    <2>4. ASSUME NEW b \in ToScan(mounts), i = ToIndex(SubId(Id(b)))
          PROVE  FALSE
      <3>1. Id(b) \in AllocatorId /\ Id(b) \in MainIds
        BY <1>2, DiscoveredType DEF MainIds
      <3>2. SubId(Id(b)) \in AllocatorId /\ SubId(Id(b)) \notin MainIds
        BY <3>1, Ids
      <3>3. QED  BY <2>1, <2>4, <3>2, Ids
    <2>5. QED  BY <1>5, <2>1, <2>2, <2>3, <2>4
  <1>12. ASSUME NEW q \in Process, NEW id \in MainIds \ {RootId}
         PROVE  \/ allocators_[q][ToIndex(id)] = NoAlloc
                \/ after[ToIndex(id)] = NoAlloc
                \/ after[ToIndex(id)] = allocators_[q][ToIndex(id)]
    <2> PICK i : i = ToIndex(id)
      OBVIOUS
    <2>1. CASE after[i] = allocators_[p][i]
      BY <2>1 DEF Entries, TablesAgree
    <2>2. CASE making[p].at = "ready" /\ id = a.id /\ after[i] = a
      BY <1>1, <1>3, <2>2 DEF AgreesMaking
    <2>3. CASE \E r \in Claimed : id = region[r].alloc_id /\ after[i] = Discovered(r)
      BY <1>1, <2>3 DEF Agrees
    <2>4. QED  BY <1>11, <2>1, <2>2, <2>3
  <1>13. TablesAgree'
    <2>1. \A q, u \in Process, id \in MainIds \ {RootId} :
            \/ allocators_'[q][ToIndex(id)] = NoAlloc
            \/ allocators_'[u][ToIndex(id)] = NoAlloc
            \/ allocators_'[q][ToIndex(id)] = allocators_'[u][ToIndex(id)]
      BY <1>6, <1>12 DEF Entries, TablesAgree
    <2>2. QED  BY <2>1 DEF TablesAgree
  <1>14. MainsKept
    <2> SUFFICES ASSUME NEW id \in MainIds \ {RootId}
                 PROVE  \/ allocators_[p][ToIndex(id)] = NoAlloc
                        \/ after[ToIndex(id)] = allocators_[p][ToIndex(id)]
      BY <1>6 DEF MainsKept
    <2> PICK i : i = ToIndex(id)
      OBVIOUS
    <2>1. CASE making[p].at = "ready" /\ id = a.id /\ after[i] = a
      BY <1>1, <1>3, <2>1 DEF AgreesMaking
    <2>2. CASE \E r \in Claimed : id = region[r].alloc_id /\ after[i] = Discovered(r)
      BY <1>1, <2>2 DEF Agrees
    <2>3. QED  BY <1>11, <2>1, <2>2
  <1>15. \A q \in Process : MallocKind(making[q].alloc)'
    BY <1>7 DEF Entries, MallocKind, Idle, NoAlloc
  <1>16. QED  BY <1>8, <1>10, <1>13, <1>14, <1>15 DEF Entries

LEMMA ScanEntriesSteps ==
  ASSUME IInv, Entries, Barrier, NEW p \in Process,
         \/ ScanBackends(p) \/ RegisterAllocator(p) \/ \E u \in Url : AttachBackend(p, u)
  PROVE  Entries' /\ HeadersKept /\ MainsKept
  <1>1. CASE ScanBackends(p)
    <2>1. GoodMounts(backends_[p])
      BY <1>1, OwnMounts DEF ScanBackends
    <2>2. QED  BY <1>1, <2>1, ScanEntries DEF ScanBackends
  <1>2. CASE RegisterAllocator(p)
    <2>1. GoodMounts(backends_[p])
      BY <1>2, OwnMounts DEF RegisterAllocator
    <2> DEFINE t == Registered(allocators_[p], making[p].alloc)
               d == FirstDefault(p, default_allocator_[p], making[p].alloc)
    <2>2. /\ ScanFrom(p, backends_[p], t, d) /\ UNCHANGED <<region, named>>
          /\ making[p].at = "ready" /\ making' = [making EXCEPT ![p] = Idle]
      BY <1>2 DEF RegisterAllocator
    <2>3. making[p].at = "ready" /\ t = Registered(allocators_[p], making[p].alloc)
      BY <2>2
    <2> HIDE DEF t, d
    <2>4. QED  BY <2>1, <2>2, <2>3, ScanEntries
  <1>3. ASSUME NEW u \in Url, AttachBackend(p, u)
        PROVE  Entries' /\ HeadersKept /\ MainsKept
    <2> DEFINE r == named[u]
               b == region[r].id
               mounts == [backends_[p] EXCEPT ![b] = [region |-> r, scanned |-> FALSE]]
    <2>1. GoodMounts(mounts)
      BY <1>3, AttachedMounts
    <2>2. /\ ScanFrom(p, mounts, allocators_[p], default_allocator_[p])
          /\ UNCHANGED <<region, named, making>>
      BY <1>3 DEF AttachBackend
    <2> HIDE DEF mounts
    <2>3. QED  BY <2>1, <2>2, ScanEntries
  <1>4. QED  BY <1>1, <1>2, <1>3

LEMMA NewRegionEntries ==
  ASSUME IInv, Entries, NEW b \in Backend, NewRegion(b), UNCHANGED <<making, allocators_>>
  PROVE  Entries' /\ HeadersKept /\ MainsKept
  <1>1. region \in Seq(Header)
    BY DEF IInv, Types
  <1>2. \A r \in DOMAIN region : r \in DOMAIN region' /\ region'[r] = region[r]
    BY <1>1 DEF NewRegion
  <1>3. HeadersKept
    BY <1>2 DEF HeadersKept, Complete, Discovered
  <1>4. QED  BY <1>3, SameTables DEF Entries

LEMMA CreateAllocatorEntries ==
  ASSUME IInv, Entries, NEW p \in Process, NEW b \in Backend, NEW m \in 1 .. MaxMajor,
         NEW kind \in Kinds[m], CreateAllocator(p, b, <<m, 0>>, kind)
  PROVE  Entries' /\ HeadersKept /\ MainsKept
  <1> PICK x : x = backends_[p][b].region
    OBVIOUS
  <1> PICK a : a = [id |-> <<m, 0>>, kind |-> kind, region |-> x, base |-> 0]
    OBVIOUS
  <1>1. /\ making[p] = Idle /\ region' = [region EXCEPT ![x].has_alloc = TRUE]
        /\ making' = [making EXCEPT ![p] = [at |-> "marked", alloc |-> a]]
        /\ UNCHANGED allocators_
    BY DEF CreateAllocator, CanCall, tables
  <1>2. region \in Seq(Header)
    BY DEF IInv, Types
  <1>3. \A r \in DOMAIN region : /\ r \in DOMAIN region'
                                 /\ region'[r].type = region[r].type
                                 /\ region'[r].alloc_id = region[r].alloc_id
    <2> SUFFICES ASSUME NEW r \in DOMAIN region
                 PROVE  /\ r \in DOMAIN region'
                        /\ region'[r].type = region[r].type
                        /\ region'[r].alloc_id = region[r].alloc_id
      OBVIOUS
    <2>1. region[r] \in Header /\ DOMAIN region' = DOMAIN region
      BY <1>1, <1>2
    <2>2. region'[r] = IF r = x THEN [region[r] EXCEPT !.has_alloc = TRUE] ELSE region[r]
      BY <1>1, <1>2
    <2>3. QED  BY <2>1, <2>2 DEF Header
  <1>4. HeadersKept
    BY <1>3 DEF HeadersKept, Complete, Discovered
  <1>5. \A q \in Process : making'[q] = IF q = p THEN [at |-> "marked", alloc |-> a] ELSE making[q]
    BY <1>1 DEF IInv, Types
  <1>6. \A q \in Process : making[q].at = "typed" => making'[q] = making[q]
    BY <1>1, <1>5 DEF Idle
  <1>7. \A q \in Process : MallocKind(making'[q].alloc)
    BY <1>5 DEF Entries, MallocKind
  <1>8. QED  BY <1>1, <1>4, <1>6, <1>7, SameTables

LEMMA ConfigureTypeEntries ==
  ASSUME IInv, Entries, NEW p \in Process, ConfigureType(p)
  PROVE  Entries' /\ HeadersKept /\ MainsKept
  <1> PICK a : a = making[p].alloc
    OBVIOUS
  <1> PICK x : x = a.region
    OBVIOUS
  <1>1. /\ making[p].at = "marked" /\ a.kind # "malloc"
        /\ region' = [region EXCEPT ![x].type = a.kind]
        /\ allocators_' = [allocators_ EXCEPT
             ![p] = IF a.kind = "scalable" THEN Registered(@, Sub(a)) ELSE @]
        /\ making' = [making EXCEPT ![p].at = "typed"]
    BY DEF ConfigureType
  <1>2. region \in Seq(Header)
    BY DEF IInv, Types
  <1>3. /\ MakingSound("marked", a) /\ x \in DOMAIN region
        /\ a.id \in MainIds \ {RootId} /\ a.id \in AllocatorId
        /\ region[x].type = "none"
    BY <1>1 DEF IInv, MakingsSound, MakingSound, Making, MainIds
  <1>4. a \in Allocator
    BY <1>3 DEF IInv, Types, Entry, NoAlloc, AllocatorId
  <1>5. \A r \in DOMAIN region : r \in DOMAIN region' /\ (r # x => region'[r] = region[r])
    BY <1>1, <1>2
  <1>6. HeadersKept
    BY <1>3, <1>5 DEF HeadersKept, Complete, Discovered
  <1>7. \A q \in Process : /\ making'[q].alloc = making[q].alloc
                           /\ making'[q].at = IF q = p THEN "typed" ELSE making[q].at
                           /\ q # p => making'[q] = making[q]
    BY <1>1 DEF IInv, Types
  <1>8. /\ Sub(a).id = SubId(a.id) /\ Sub(a).kind = "stack" /\ Sub(a).region = x
        /\ SubId(a.id)[2] = 1 /\ SubId(a.id) \in AllocatorId /\ SubId(a.id) \notin MainIds
    BY <1>3, <1>4, Ids DEF Sub, Allocator, SubId
  <1>9. \A q \in Process, i \in Index :
          \/ allocators_'[q][i] = allocators_[q][i]
          \/ i = ToIndex(SubId(a.id)) /\ allocators_'[q][i] = Sub(a)
    <2>1. Types /\ ToIndex(SubId(a.id)) \in Index
      BY <1>8, Ids DEF IInv
    <2>2. CASE a.kind # "scalable"
      BY <1>1, <2>1, <2>2 DEF Types
    <2>3. CASE a.kind = "scalable"
      <3>1. allocators_' = [allocators_ EXCEPT ![p] =
                              [allocators_[p] EXCEPT ![ToIndex(SubId(a.id))] = Sub(a)]]
        BY <1>1, <1>8, <2>1, <2>3 DEF Types, Registered
      <3>2. QED  BY <2>1, <3>1 DEF Types
    <2>4. QED  BY <2>2, <2>3
  <1>10. \A q \in Process, i \in Index : EntrySound(q, i, allocators_[q][i])'
    <2> SUFFICES ASSUME NEW q \in Process, NEW i \in Index, NEW e, e = allocators_'[q][i]
                 PROVE  EntrySound(q, i, e)'
      BY DEF EntrySound
    <2>1. CASE e = allocators_[q][i]
      <3>1. EntrySound(q, i, e)
        BY <2>1 DEF Entries
      <3>2. \A u \in Process : making[u].at = "typed" => making'[u] = making[u]
        BY <1>1, <1>7
      <3>3. QED  BY <1>6, <3>1, <3>2, EntryKept
    <2>2. CASE i = ToIndex(SubId(a.id)) /\ e = Sub(a)
      <3>1. x \in DOMAIN region' /\ making'[p].at = "typed" /\ making'[p].alloc = a
        BY <1>3, <1>5, <1>7
      <3>2. e.kind = "stack" /\ e.region = x /\ e.id = SubId(a.id) /\ e.id[2] # 0
        BY <1>8, <2>2
      <3>3. SubEntry(e)'
        BY <3>1, <3>2 DEF SubEntry
      <3>4. QED  BY <2>2, <3>2, <3>3 DEF EntrySound
    <2>3. QED  BY <1>9, <2>1, <2>2
  <1>11. \A q \in Process, id \in MainIds :
           allocators_'[q][ToIndex(id)] = allocators_[q][ToIndex(id)]
    <2>1. \A id \in MainIds : ToIndex(id) \in Index /\ ToIndex(id) # ToIndex(SubId(a.id))
      BY <1>8, Ids DEF MainIds
    <2>2. QED  BY <1>9, <2>1
  <1>12. TablesAgree' /\ MainsKept
    BY <1>11 DEF Entries, TablesAgree, MainsKept
  <1>13. \A q \in Process : MallocKind(making[q].alloc)'
    BY <1>7 DEF Entries, MallocKind
  <1>14. QED  BY <1>6, <1>10, <1>12, <1>13 DEF Entries

LEMMA ConfigureIdEntries ==
  ASSUME IInv, Entries, NEW p \in Process, ConfigureId(p)
  PROVE  Entries' /\ HeadersKept /\ MainsKept
  <1> PICK a : a = making[p].alloc
    OBVIOUS
  <1> PICK x : x = a.region
    OBVIOUS
  <1>1. /\ making[p].at = "typed"
        /\ region' = [region EXCEPT ![x].alloc_id = a.id]
        /\ making' = [making EXCEPT ![p].at = "ready"]
        /\ UNCHANGED allocators_
    BY DEF ConfigureId, tables
  <1>2. region \in Seq(Header)
    BY DEF IInv, Types
  <1>3. /\ MakingSound("typed", a) /\ x \in DOMAIN region
        /\ a.id \in MainIds \ {RootId} /\ a.id \in AllocatorId
        /\ region[x].type = a.kind /\ region[x].alloc_id = RootId
    BY <1>1 DEF IInv, MakingsSound, MakingSound, Making, MainIds
  <1>4. a \in Allocator
    BY <1>3 DEF IInv, Types, Entry, NoAlloc, AllocatorId
  <1>5. \A r \in DOMAIN region : r \in DOMAIN region' /\ (r # x => region'[r] = region[r])
    BY <1>1, <1>2
  <1>6. HeadersKept
    BY <1>3, <1>5 DEF HeadersKept, Complete, Discovered
  <1>7. \A q \in Process : /\ making'[q].alloc = making[q].alloc
                           /\ q # p => making'[q] = making[q]
    BY <1>1 DEF IInv, Types
  <1>8. region'[x].alloc_id = a.id /\ Complete(x)'
    <2>1. region[x] \in Header
      BY <1>2, <1>3
    <2>2. region'[x] = [region[x] EXCEPT !.alloc_id = a.id]
      BY <1>1, <1>2, <1>3
    <2>3. region'[x].alloc_id = a.id /\ region'[x].type = a.kind
      BY <1>3, <2>1, <2>2 DEF Header
    <2>4. QED  BY <1>3, <1>4, <2>3 DEF Complete, Allocator
  <1>9. \A q \in Process, i \in Index : EntrySound(q, i, allocators_[q][i])'
    <2> SUFFICES ASSUME NEW q \in Process, NEW i \in Index, NEW e, e = allocators_[q][i],
                        e # NoAlloc
                 PROVE  EntrySound(q, i, e)'
      BY <1>1 DEF EntrySound
    <2>1. EntrySound(q, i, e)
      BY DEF Entries
    <2>2. \A r \in DOMAIN region : Complete(r) =>
            /\ r \in DOMAIN region' /\ Complete(r)' /\ Discovered(r)' = Discovered(r)
            /\ region'[r].alloc_id = region[r].alloc_id
      <3>1. \A r : Discovered(r).id = region[r].alloc_id /\ (Discovered(r).id = region[r].alloc_id)'
        BY DEF Discovered
      <3>2. QED  BY <1>6, <3>1 DEF HeadersKept
    <2>3. CASE e.id[2] = 0
      BY <2>1, <2>2, <2>3 DEF EntrySound, MainEntry
    <2>4. CASE e.id[2] # 0 /\ Complete(e.region)
      BY <1>6, <2>1, <2>2, <2>4 DEF EntrySound, SubEntry, IInv, MakingsSound, MakingSound, Making, Complete
    <2>5. CASE e.id[2] # 0 /\ ~Complete(e.region)
      <3>1. PICK u \in Process : /\ making[u].at = "typed" /\ making[u].alloc.region = e.region
                                 /\ SubId(making[u].alloc.id) = e.id
        BY <2>1, <2>5 DEF EntrySound, SubEntry
      <3>2. e.kind = "stack" /\ e.region \in DOMAIN region' /\ ToIndex(e.id) = i
        BY <1>5, <2>1, <2>5 DEF EntrySound, SubEntry
      <3>3. CASE u = p
        <4>1. Complete(e.region)' /\ SubId(region'[e.region].alloc_id) = e.id
          BY <1>8, <3>1, <3>3
        <4>2. QED  BY <2>5, <3>2, <4>1 DEF EntrySound, SubEntry
      <3>4. CASE u # p
        <4>1. making'[u] = making[u]
          BY <1>7, <3>4
        <4>2. QED  BY <2>5, <3>1, <3>2, <4>1 DEF EntrySound, SubEntry
      <3>5. QED  BY <3>3, <3>4
    <2>6. QED  BY <2>3, <2>4, <2>5
  <1>10. TablesAgree' /\ MainsKept
    BY <1>1 DEF Entries, TablesAgree, MainsKept
  <1>11. \A q \in Process : MallocKind(making[q].alloc)'
    BY <1>7 DEF Entries, MallocKind
  <1>12. QED  BY <1>6, <1>9, <1>10, <1>11 DEF Entries

LEMMA MMEntries ==
  ASSUME IInv, Entries, Barrier, MMNext
  PROVE  Entries' /\ HeadersKept /\ MainsKept
  <1>1. ASSUME NEW p \in Process, ConfigureMalloc(p)
        PROVE  Entries' /\ HeadersKept /\ MainsKept
    <2>1. /\ making[p].at = "marked" /\ making' = [making EXCEPT ![p].at = "ready"]
          /\ UNCHANGED <<region, allocators_>>
      BY <1>1 DEF ConfigureMalloc, tables
    <2>2. \A q \in Process : /\ making'[q].alloc = making[q].alloc
                             /\ q # p => making'[q] = making[q]
      BY <2>1 DEF IInv, Types
    <2>3. HeadersKept
      BY <2>1 DEF HeadersKept, Complete, Discovered
    <2>4. \A q \in Process : MallocKind(making'[q].alloc)
      BY <2>2 DEF Entries
    <2>5. \A q \in Process : making[q].at = "typed" => making'[q] = making[q]
      BY <2>1, <2>2
    <2>6. QED  BY <2>1, <2>3, <2>4, <2>5, SameTables
  <1>2. ASSUME UNCHANGED <<region, making, allocators_>>
        PROVE  Entries' /\ HeadersKept /\ MainsKept
    <2>1. HeadersKept
      BY <1>2 DEF HeadersKept, Complete, Discovered
    <2>2. \A q \in Process : MallocKind(making'[q].alloc)
      BY <1>2 DEF Entries
    <2>3. QED  BY <1>2, <2>1, <2>2, SameTables
  <1>3. ASSUME NEW p \in Process, NEW b \in Backend, DestroyBackend(p, b)
        PROVE  Entries' /\ HeadersKept /\ MainsKept
    BY <1>2, <1>3 DEF DestroyBackend
  <1>4. ASSUME NEW p \in Process, NEW m \in 1 .. MaxMajor, SetDefaultAllocator(p, <<m, 0>>)
        PROVE  Entries' /\ HeadersKept /\ MainsKept
    BY <1>2, <1>4 DEF SetDefaultAllocator
  <1>5. ASSUME NEW p \in Process, NEW b \in Backend,
               CreatePrivateBackend(p, b) \/ \E u \in Url : CreateBackend(p, u, b)
        PROVE  Entries' /\ HeadersKept /\ MainsKept
    <2>1. NewRegion(b) /\ UNCHANGED <<making, allocators_>>
      BY <1>5 DEF CreatePrivateBackend, CreateBackend
    <2>2. QED  BY <2>1, NewRegionEntries
  <1>6. ASSUME NEW p \in Process,
               \/ ScanBackends(p) \/ RegisterAllocator(p) \/ \E u \in Url : AttachBackend(p, u)
        PROVE  Entries' /\ HeadersKept /\ MainsKept
    BY <1>6, ScanEntriesSteps
  <1>7. ASSUME NEW p \in Process, ConfigureType(p) \/ ConfigureId(p)
        PROVE  Entries' /\ HeadersKept /\ MainsKept
    BY <1>7, ConfigureTypeEntries, ConfigureIdEntries
  <1>8. ASSUME NEW p \in Process, NEW b \in Backend, NEW m \in 1 .. MaxMajor,
               NEW kind \in Kinds[m], CreateAllocator(p, b, <<m, 0>>, kind)
        PROVE  Entries' /\ HeadersKept /\ MainsKept
    BY <1>8, CreateAllocatorEntries
  <1>9. QED  BY <1>1, <1>3, <1>4, <1>5, <1>6, <1>7, <1>8 DEF MMNext

\* Unregistering takes away one main entry.
LEMMA UnregisterEntries ==
  ASSUME IInv, Entries, NEW p \in Process, NEW m \in 1 .. MaxMajor,
         UnregisterAllocator(p, <<m, 0>>)
  PROVE  /\ Entries' /\ HeadersKept
         /\ \A q \in Process, id \in MainIds :
              q # p \/ id # <<m, 0>> => allocators_'[q][ToIndex(id)] = allocators_[q][ToIndex(id)]
  <1>1. /\ allocators_' = [allocators_ EXCEPT ![p][ToIndex(<<m, 0>>)] = NoAlloc]
        /\ UNCHANGED <<region, making>>
    BY DEF UnregisterAllocator, Unregistered
  <1>2. <<m, 0>> \in AllocatorId
    BY MemoryAssumption DEF AllocatorId
  <1>3. \A q \in Process, i \in Index :
          allocators_'[q][i] = IF q = p /\ i = ToIndex(<<m, 0>>) THEN NoAlloc
                               ELSE allocators_[q][i]
    BY <1>1 DEF IInv, Types
  <1>4. HeadersKept
    BY <1>1 DEF HeadersKept, Complete, Discovered
  <1>5. \A q \in Process, i \in Index : EntrySound(q, i, allocators_[q][i])'
    <2> SUFFICES ASSUME NEW q \in Process, NEW i \in Index, NEW e, e = allocators_'[q][i]
                 PROVE  EntrySound(q, i, e)'
      BY DEF EntrySound
    <2>1. EntrySound(q, i, e)
      BY <1>3 DEF Entries, EntrySound
    <2>2. QED  BY <1>1, <1>4, <2>1, EntryKept
  <1>6. \A q \in Process, id \in MainIds :
          /\ q # p \/ id # <<m, 0>> => allocators_'[q][ToIndex(id)] = allocators_[q][ToIndex(id)]
          /\ allocators_'[q][ToIndex(id)] \in {NoAlloc, allocators_[q][ToIndex(id)]}
    BY <1>2, <1>3, Ids DEF MainIds
  <1>7. TablesAgree'
    BY <1>6 DEF Entries, TablesAgree
  <1>8. \A q \in Process : MallocKind(making[q].alloc)'
    BY <1>1 DEF Entries, MallocKind
  <1>9. QED  BY <1>4, <1>5, <1>6, <1>7, <1>8 DEF Entries

-----------------------------------------------------------------------------
(* Addresses and allocators *)

\* A MallocAllocator takes any address for its own, so that the program has one.
OneMalloc ==
  \A m, n \in 1 .. MaxMajor : "malloc" \in Kinds[m] /\ "malloc" \in Kinds[n] => m = n

AddressSet == (Region \union Process) \X Nat

\* The addresses that the allocator a gives p.
Within(p, a, x) ==
  /\ a.kind = "malloc" => x[1] = p /\ x[2] >= RegionSize
  /\ a.kind # "malloc" => x[1] = a.region /\ x[2] < RegionSize

\* a is the allocator that p has for the main id.
Owns(p, id, a) ==
  id \in MainIds \ {RootId} /\ a = allocators_[p][ToIndex(id)] /\ a # NoAlloc

\* No header names a MallocAllocator.
LEMMA HeaderKinds ==
  ASSUME IInv, NEW r \in DOMAIN region
  PROVE  Discovered(r).kind # "malloc" /\ Discovered(r).base = 0
  <1>1. region[r] \in Header
    BY DEF IInv, Types
  <1>2. QED  BY <1>1 DEF Header, Discovered

LEMMA OwnedIs ==
  ASSUME IInv, Entries, NEW p \in Process, NEW id, NEW a, Owns(p, id, a)
  PROVE  /\ a \in Allocator /\ a.id = id /\ a.base = 0 /\ a.region \in Region
         /\ id \in AllocatorId /\ id[1] \in 1 .. MaxMajor /\ id[2] = 0
         /\ a.kind = "malloc" => "malloc" \in Kinds[id[1]]
         /\ a.kind # "malloc" => /\ a.region \in DOMAIN region /\ Complete(a.region)
                                 /\ Discovered(a.region) = a
                                 /\ region[a.region].type = a.kind
                                 /\ region[a.region].alloc_id = id
  <1>1. /\ id \in AllocatorId /\ id[1] \in 1 .. MaxMajor /\ id[2] = 0
        /\ ToIndex(id) \in Index
    BY Ids, MemoryAssumption DEF Owns, MainIds, AllocatorId, RootId
  <1>2. a \in Allocator /\ a.id = id
    BY <1>1 DEF IInv, Types, Entry, TablesIndexed, Indexed, Owns
  <1>3. MainEntry(p, a) /\ a # RootAlloc(p)
    BY <1>1, <1>2 DEF Entries, EntrySound, Owns, RootAlloc
  <1>4. DOMAIN region \subseteq Region
    BY MemoryAssumption DEF IInv, Types, Region
  <1>5. a.kind # "malloc" => /\ a.region \in DOMAIN region /\ Complete(a.region)
                             /\ Discovered(a.region) = a
    BY <1>3 DEF MainEntry
  <1>6. a.kind = "malloc" => /\ a.base = 0 /\ a.region \in Region
                             /\ "malloc" \in Kinds[id[1]]
    BY <1>2, <1>3, HeaderKinds DEF MainEntry
  <1>7. a.kind # "malloc" => /\ a.base = 0 /\ region[a.region].type = a.kind
                             /\ region[a.region].alloc_id = id
    BY <1>2, <1>5 DEF Discovered
  <1>8. QED  BY <1>1, <1>2, <1>4, <1>5, <1>6, <1>7

LEMMA OffsetBack ==
  ASSUME IInv, Entries, NEW p \in Process, NEW id, NEW a, Owns(p, id, a),
         NEW x \in AddressSet, Within(p, a, x)
  PROVE  /\ FromOffset(a, ToOffset(a, x)) = x
         /\ ToPtr(p, Here(a, x)) = x
         /\ ToOffset(a, x) \in OffsetPointer
  <1>1. /\ a.id = id /\ a.base = 0 /\ a = allocators_[p][ToIndex(id)]
    BY OwnedIs DEF Owns
  <1>2. x = <<x[1], x[2]>> /\ x[2] \in Nat
    BY DEF AddressSet
  <1>3. FromOffset(a, ToOffset(a, x)) = x
    BY <1>1, <1>2 DEF FromOffset, ToOffset, Within
  <1>4. ToOffset(a, x) \in OffsetPointer
    BY <1>1, <1>2 DEF ToOffset, OffsetPointer, Within
  <1>5. Here(a, x).id = id /\ Here(a, x).off = ToOffset(a, x)
    BY <1>1 DEF Here
  <1>6. QED  BY <1>1, <1>3, <1>4, <1>5 DEF ToPtr

\* The nearest allocator of an address is the main one that gave it, although the
\* sub-allocator's region is the same and malloc takes every address.
LEMMA Nearest ==
  ASSUME IInv, Entries, OneMalloc, NEW p \in Process, NEW id, NEW a, Owns(p, id, a),
         NEW x \in AddressSet, Within(p, a, x)
  PROVE  FindNearestAllocator(p, x) = a
  <1> DEFINE t == allocators_[p]
             S == {j \in Index : t[j] # NoAlloc /\ ContainsPtr(t[j], x)}
             B == {j \in S : t[j].kind # "malloc"}
             i == ToIndex(id)
  <1>1. /\ a \in Allocator /\ a.id = id /\ a.base = 0 /\ a.region \in Region
        /\ id \in AllocatorId /\ id[1] \in 1 .. MaxMajor /\ id[2] = 0
        /\ a.kind = "malloc" => "malloc" \in Kinds[id[1]]
        /\ a.kind # "malloc" => /\ a.region \in DOMAIN region /\ Complete(a.region)
                                /\ Discovered(a.region) = a
                                /\ region[a.region].alloc_id = id
    BY OwnedIs
  <1>2. i \in Index /\ i = id[1] * 2 /\ i \in Nat /\ t[i] = a /\ a # NoAlloc
    BY <1>1, Ids, MemoryAssumption DEF Owns, ToIndex
  <1>3. x[2] \in Nat /\ RegionSize \in Nat
    BY MemoryAssumption DEF AddressSet
  <1>4. i \in S
    <2>1. ContainsPtr(a, x)
      BY <1>1, <1>3 DEF ContainsPtr, Within
    <2>2. QED  BY <1>2, <2>1
  <1>5. \A j \in S : EntrySound(p, j, t[j]) /\ t[j] # NoAlloc /\ j \in Nat
    BY MemoryAssumption DEF Entries, Index
  <1>6. \A r \in DOMAIN region : r \in Nat /\ r # p
    BY MemoryAssumption DEF IInv, Types
  <1>7. \A j \in B : t[j].region = x[1] /\ x[2] \in t[j].base .. RegionSize - 1
    BY DEF ContainsPtr
  <1>8. CASE a.kind # "malloc"
    <2>1. i \in B
      BY <1>2, <1>4, <1>8
    <2>2. ASSUME NEW j \in B  PROVE i <= j
      <3> PICK e : e = t[j]  OBVIOUS
      <3>1. e.region = a.region /\ e.kind # "malloc" /\ EntrySound(p, j, e) /\ e # NoAlloc
        BY <1>5, <1>7, <1>8 DEF Within
      <3>2. CASE e.id[2] = 0
        <4>1. e # RootAlloc(p)
          BY <1>1, <1>6, <1>8, <3>1 DEF RootAlloc
        <4>2. e = a
          BY <1>1, <1>8, <3>1, <3>2, <4>1 DEF EntrySound, MainEntry
        <4>3. QED  BY <1>1, <1>2, <3>1, <4>2 DEF EntrySound
      <3>3. CASE e.id[2] # 0
        <4>1. SubEntry(e) /\ ToIndex(e.id) = j
          BY <3>1, <3>3 DEF EntrySound
        <4>2. \A q \in Process : ~(making[q].at = "typed" /\ making[q].alloc.region = e.region)
          BY <1>1, <1>8, <3>1 DEF IInv, MakingsSound, MakingSound, Making, Complete
        <4>3. e.id = SubId(id)
          BY <1>1, <1>8, <3>1, <4>1, <4>2 DEF SubEntry
        <4>4. ToIndex(SubId(id)) = id[1] * 2 + 1
          BY DEF ToIndex, SubId
        <4>5. QED  BY <1>1, <1>2, <4>1, <4>3, <4>4
      <3>4. QED  BY <3>2, <3>3
    <2>3. B \subseteq Nat
      BY <1>5
    <2>4. (CHOOSE k \in B : \A j \in B : k <= j) = i
      <3> HIDE DEF B, i
      <3>1. \A k \in B : (\A j \in B : k <= j) => k = i
        BY <2>1, <2>2, <2>3
      <3>2. QED  BY <2>1, <2>2, <3>1
    <2>5. S # {} /\ B # {}
      BY <2>1
    <2>6. FindNearestAllocator(p, x) = t[CHOOSE k \in B : \A j \in B : k <= j]
      BY <2>5 DEF FindNearestAllocator
    <2> HIDE DEF B
    <2>7. QED  BY <1>2, <2>4, <2>6
  <1>9. CASE a.kind = "malloc"
    <2>1. B = {}
      <3> SUFFICES ASSUME NEW j \in B  PROVE FALSE
        OBVIOUS
      <3> PICK e : e = t[j]  OBVIOUS
      <3>1. /\ e.region = p /\ x[2] \in e.base .. RegionSize - 1 /\ e.kind # "malloc"
            /\ EntrySound(p, j, e) /\ e # NoAlloc
        BY <1>5, <1>7, <1>9 DEF Within
      <3>2. e \notin {f \in {e} : f.region \in DOMAIN region}
        BY <1>6, <3>1
      <3>3. e = RootAlloc(p)
        BY <3>1, <3>2 DEF EntrySound, MainEntry, SubEntry
      <3>4. e.base = 0
        BY <3>3 DEF RootAlloc
      <3>5. QED  BY <1>3, <1>9, <3>1, <3>4 DEF Within
    <2>2. ASSUME NEW j \in S  PROVE j = i
      <3> PICK e : e = t[j]  OBVIOUS
      <3>1. e.kind = "malloc" /\ EntrySound(p, j, e) /\ e # NoAlloc /\ j \in Index
        BY <1>5, <2>1
      <3>2. e \in Allocator
        BY <3>1 DEF IInv, Types, Entry
      <3>3. e.id[2] = 0 /\ e.id # RootId /\ "malloc" \in Kinds[e.id[1]] /\ ToIndex(e.id) = j
        <4>1. e.id[2] = 0 /\ ToIndex(e.id) = j /\ MainEntry(p, e)
          BY <3>1 DEF EntrySound, SubEntry
        <4>2. e # RootAlloc(p)
          BY <3>1 DEF RootAlloc
        <4>3. QED  BY <3>1, <4>1, <4>2, HeaderKinds DEF MainEntry
      <3>4. e.id \in MainIds
        BY <3>2, <3>3 DEF Allocator, MainIds
      <3>5. Owns(p, e.id, e)
        BY <3>1, <3>3, <3>4 DEF Owns
      <3>6. e.id[1] \in 1 .. MaxMajor
        BY <3>5, OwnedIs
      <3>7. e.id[1] = id[1]
        BY <1>1, <1>9, <3>3, <3>6 DEF OneMalloc
      <3>8. QED  BY <1>2, <3>3, <3>7, <1>1 DEF ToIndex
    <2>3. S = {i}
      BY <1>4, <2>2
    <2>4. (CHOOSE k \in S : \A j \in S : j <= k) = i
      <3> HIDE DEF S, i
      <3>1. QED  BY <2>3, <1>2
    <2>5. FindNearestAllocator(p, x) = t[CHOOSE k \in S : \A j \in S : j <= k]
      BY <2>1, <2>3 DEF FindNearestAllocator
    <2> HIDE DEF S
    <2>6. QED  BY <1>2, <2>4, <2>5
  <1>10. QED  BY <1>8, <1>9

\* The three forms of a call return the same handle.
LEMMA OneHandle ==
  ASSUME IInv, Entries, OneMalloc, NEW p \in Process, NEW id, NEW a, Owns(p, id, a),
         NEW x \in AddressSet, Within(p, a, x), NEW n \in Nat, NEW from \in {"shm", "ptr", "both"}
  PROVE  /\ Handle(p, a, x, n, from) = ByBoth(p, a, x, n)
         /\ ToPointer(p, x) = Here(a, x)
         /\ ByBoth(p, a, x, n) \in FullPtr
  <1>1. ToPtr(p, Here(a, x)) = x /\ ToOffset(a, x) \in OffsetPointer
    BY OffsetBack
  <1>2. FindNearestAllocator(p, x) = a
    BY Nearest
  <1>3. ToPointer(p, x) = Here(a, x)
    BY <1>2 DEF ToPointer, Here
  <1>4. Handle(p, a, x, n, from) = ByBoth(p, a, x, n)
    BY <1>1, <1>3 DEF Handle, ByPointer, ByAddress, ByBoth
  <1>5. a.id \in AllocatorId
    BY OwnedIs
  <1>6. Here(a, x) \in Pointer
    BY <1>1, <1>5 DEF Here, Pointer
  <1>7. ByBoth(p, a, x, n) \in FullPtr
    BY <1>6 DEF ByBoth, FullPtr, AddressSet
  <1>8. QED  BY <1>3, <1>4, <1>7

-----------------------------------------------------------------------------
(* Places *)

LEMMA Numbers ==
  /\ Hdr \in Nat /\ RegionSize \in Nat /\ Shift \in Nat
  /\ \A n \in Sizes : n \in Nat \ {0}
  BY ApiAssumption, MemoryAssumption

LEMMA RoundedUp ==
  ASSUME NEW n \in Nat
  PROVE  Rounded(n) \in Nat /\ n <= Rounded(n)
  <1> DEFINE C == {s \in {1, 2, 4, 8} : s >= n}
  <1>1. C \subseteq Nat
    OBVIOUS
  <1>2. CASE C = {}
    BY <1>2 DEF Rounded
  <1>3. CASE C # {}
    <2>1. \E s \in C : \A t \in C : s <= t
      <3> HIDE DEF C
      <3>1. QED  BY <1>1, <1>3, LeastNumber
    <2>2. (CHOOSE s \in C : \A t \in C : s <= t) \in C
      <3> HIDE DEF C
      <3>1. QED  BY <2>1
    <2>3. Rounded(n) = CHOOSE s \in C : \A t \in C : s <= t
      BY <1>3 DEF Rounded
    <2>4. PICK s \in C : s = Rounded(n)
      BY <2>2, <2>3
    <2>5. QED  BY <2>4
  <1>4. QED  BY <1>2, <1>3

LEMMA WholeIs ==
  ASSUME NEW a, NEW n \in Sizes
  PROVE  /\ Whole(a, n) \in Nat \ {0} /\ Hdr < Whole(a, n)
         /\ PageSize(a, n) \in Nat \ {0}
         /\ a.kind # "malloc" => PageSize(a, n) = Whole(a, n)
  <1>1. Rounded(n) \in Nat /\ n <= Rounded(n) /\ n \in Nat \ {0} /\ Hdr \in Nat
    BY RoundedUp, Numbers
  <1>2. Whole(a, n) \in Nat \ {0} /\ Hdr < Whole(a, n)
    BY <1>1 DEF Whole
  <1>3. QED  BY <1>1, <1>2 DEF PageSize

PagesKnown ==
  \A x \in DOMAIN page :
    /\ x \in AddressSet
    /\ page[x] \in [arena : Region, size : Nat \ {0}, objs : Seq(Nat)]
    /\ \A i \in DOMAIN page[x].objs : page[x].objs[i] = 1
    /\ x[1] \in Region =>
         /\ x[1] \in DOMAIN region /\ Complete(x[1])
         /\ region[x[1]].type = "stack" => x[2] < heap_off_[x[1]]

\* A place is a free one, and within what its allocator calls its own.
LEMMA PlaceIs ==
  ASSUME IInv, Entries, PagesKnown, heap_off_ \in [Region -> Nat],
         NEW p \in Process, NEW id, NEW a, Owns(p, id, a), NEW n \in Sizes,
         NEW x \in Places(p, a, n)
  PROVE  /\ x \in AddressSet /\ Within(p, a, x) /\ x \notin DOMAIN page
         /\ a.kind = "stack" => x[2] < Bumped(a, n)[a.region]
  <1>1. /\ Hdr \in Nat /\ RegionSize \in Nat /\ Shift \in Nat /\ n \in Nat \ {0}
        /\ Whole(a, n) \in Nat \ {0} /\ Hdr < Whole(a, n)
    BY Numbers, WholeIs
  <1>2. /\ a \in Allocator /\ a.region \in Region
        /\ a.kind # "malloc" => region[a.region].type = a.kind
    BY OwnedIs
  <1>3. \A y \in DOMAIN page : y[2] \in Nat /\ page[y].size \in Nat \ {0}
    BY DEF PagesKnown, AddressSet
  <1>4. ASSUME NEW r, NEW k \in Nat, Vacant(r, k, Whole(a, n))
        PROVE  <<r, k + Hdr>> \notin DOMAIN page
    <2> SUFFICES ASSUME NEW y \in DOMAIN page, y = <<r, k + Hdr>>  PROVE FALSE
      OBVIOUS
    <2>1. k \in k .. k + Whole(a, n) - 1
      BY <1>1
    <2>2. k \in Bytes(y)
      BY <1>1, <1>3 DEF Bytes
    <2>3. y[1] = r
      OBVIOUS
    <2>4. QED  BY <1>4, <2>1, <2>2, <2>3 DEF Vacant
  <1>5. CASE a.kind = "stack"
    <2> PICK off \in Nat : off = heap_off_[a.region]
      BY <1>2
    <2>1. x = <<a.region, off + Hdr>> /\ off + Whole(a, n) <= RegionSize
      BY <1>5 DEF Places, StackPlaces, Address
    <2>2. x \in AddressSet /\ Within(p, a, x)
      BY <1>1, <1>2, <1>5, <2>1 DEF AddressSet, Within
    <2>3. x \notin DOMAIN page
      <3>1. x[1] = a.region /\ x[2] = off + Hdr /\ region[a.region].type = "stack"
        BY <1>2, <1>5, <2>1
      <3>2. x \in DOMAIN page => x[2] < off
        BY <1>2, <3>1 DEF PagesKnown
      <3>3. QED  BY <1>1, <3>1, <3>2
    <2>4. Bumped(a, n)[a.region] = off + Whole(a, n)
      BY <1>2, <1>5 DEF Bumped
    <2>5. QED  BY <1>1, <2>1, <2>2, <2>3, <2>4
  <1>6. CASE a.kind = "scalable"
    <2>1. PICK k \in Shift .. RegionSize - Whole(a, n) :
            /\ x = <<a.region, k + Hdr>> /\ Vacant(a.region, k, Whole(a, n))
      BY <1>6 DEF Places, ScalablePlaces, Lowest, Address
    <2>2. k \in Nat /\ k + Whole(a, n) <= RegionSize
      BY <1>1
    <2>3. x \in AddressSet /\ Within(p, a, x)
      BY <1>1, <1>2, <1>6, <2>1, <2>2 DEF AddressSet, Within
    <2>4. QED  BY <1>4, <1>6, <2>1, <2>2, <2>3
  <1>7. CASE a.kind = "malloc"
    <2>1. PICK k \in RegionSize .. 2 * RegionSize :
            /\ x = <<p, k + Hdr>> /\ Vacant(p, k, Whole(a, n))
      BY <1>7 DEF Places, MallocPlaces, Lowest, Address
    <2>2. k \in Nat /\ RegionSize <= k
      BY <1>1
    <2>3. x \in AddressSet /\ Within(p, a, x)
      BY <1>1, <1>7, <2>1, <2>2 DEF AddressSet, Within
    <2>4. QED  BY <1>4, <1>7, <2>1, <2>2, <2>3
  <1>8. QED  BY <1>2, <1>5, <1>6, <1>7 DEF Allocator

-----------------------------------------------------------------------------
(* The account of an allocator *)

PageBytes(pg) == [x \in DOMAIN pg |-> pg[x].size]
Out(pg, r)    == {x \in DOMAIN pg : pg[x].arena = r}
BytesOut(pg, r) == Total(PageBytes(pg), Out(pg, r))

Share(pg, x, r) == IF pg[x].arena = r THEN pg[x].size ELSE 0

\* The pages of qg are those of pg and one at x.
Adds(pg, qg, x) ==
  /\ IsFiniteSet(DOMAIN pg) /\ x \notin DOMAIN pg /\ DOMAIN qg = DOMAIN pg \union {x}
  /\ \A y \in DOMAIN pg : qg[y] = pg[y]
  /\ \A y \in DOMAIN qg : qg[y].size \in Int

LEMMA OneMore ==
  ASSUME NEW pg, NEW qg, NEW x, Adds(pg, qg, x), NEW r
  PROVE  /\ BytesOut(qg, r) = BytesOut(pg, r) + Share(qg, x, r)
         /\ BytesOut(pg, r) \in Int
  <1> DEFINE f == PageBytes(pg)
             h == PageBytes(qg)
             S == Out(pg, r)
  <1> /\ IsFiniteSet(DOMAIN pg) /\ x \notin DOMAIN pg /\ DOMAIN qg = DOMAIN pg \union {x}
      /\ \A y \in DOMAIN pg : qg[y] = pg[y]
      /\ \A y \in DOMAIN qg : qg[y].size \in Int
    BY DEF Adds
  <1>1. IsFiniteSet(S)
    BY FS_Subset DEF Out
  <1>2. \A y \in S : f[y] \in Int /\ h[y] = f[y]
    BY DEF PageBytes, Out
  <1>3. Total(f, S) \in Int
    <2>1. PICK g : Sums(g, f, S) /\ Total(f, S) = g[S]
      BY <1>1, TotalDef
    <2>2. \A y \in S : f[y] \in Int
      BY <1>2
    <2> HIDE DEF f, S
    <2>3. \A s \in SUBSET S : g[s] \in Int
      BY <1>1, <2>1, <2>2, SumsInt
    <2>4. QED  BY <2>1, <2>3
  <1>4. CASE qg[x].arena # r
    <2>1. Out(qg, r) = S
      BY <1>4 DEF Out
    <2> HIDE DEF f, h, S
    <2>2. Total(h, S) = Total(f, S)
      BY <1>1, <1>2, TotalSame
    <2>3. QED  BY <1>3, <1>4, <2>1, <2>2 DEF BytesOut, Share, f, h, S
  <1>5. CASE qg[x].arena = r
    <2>1. Out(qg, r) = S \union {x} /\ x \notin S
      BY <1>5 DEF Out
    <2>2. h[x] = qg[x].size /\ h[x] \in Int
      BY DEF PageBytes
    <2> DEFINE U == S \union {x}
    <2>3. U \ {x} = S /\ IsFiniteSet(U)
      BY <1>1, <2>1, FS_AddElement
    <2>4. \A y \in U : h[y] \in Int
      BY <1>2, <2>2
    <2>5. x \in U
      OBVIOUS
    <2> HIDE DEF f, h, S, U
    <2>6. \A y \in U \ {x} : f[y] = h[y]
      BY <1>2, <2>3
    <2>7. Total(h, U) = h[x] + Total(f, U \ {x})
      BY <2>3, <2>4, <2>5, <2>6, TotalAdd
    <2>8. BytesOut(qg, r) = Total(h, U)
      BY <2>1 DEF BytesOut, h, U
    <2>9. BytesOut(pg, r) = Total(f, S)
      BY DEF BytesOut, f, S
    <2>10. Total(h, U) = h[x] + Total(f, S)
      BY <2>3, <2>7
    <2>11. QED  BY <1>3, <1>5, <2>2, <2>8, <2>9, <2>10 DEF Share
  <1>6. QED  BY <1>4, <1>5

-----------------------------------------------------------------------------
(* The invariant of the interface *)

\* A handle that p has: its pointer and its address name one page of the allocator that
\* p finds by the pointer's id.
HandleSound(p, f) ==
  /\ f \in FullPtr /\ f.ptr \in DOMAIN page
  /\ Owns(p, f.shm.id, Home(p, f)) /\ page[f.ptr].arena = Home(p, f).region
  /\ f.shm.off = ToOffset(Home(p, f), f.ptr) /\ Within(p, Home(p, f), f.ptr)
  /\ Raw(f.ptr) \/ Len(page[f.ptr].objs) = f.size_

Handles ==
  /\ \A p \in Process : \A f \in held[p] : HandleSound(p, f)
  /\ \A p, q \in Process : \A f \in held[p], g \in held[q] : f.ptr = g.ptr => f = g

Account == \A r \in Region : total_alloc_[r] = BytesOut(page, r)

ApiTypes ==
  /\ heap_off_ \in [Region -> Nat] /\ total_alloc_ \in [Region -> Int]
  /\ IsFiniteSet(DOMAIN page) /\ held = [p \in Process |-> held[p]]

ApiInv == Entries /\ ApiTypes /\ PagesKnown /\ Handles /\ Account

LEMMA SoundKept ==
  ASSUME NEW p \in Process, NEW f, HandleSound(p, f),
         f.ptr \in DOMAIN page', page'[f.ptr] = page[f.ptr],
         allocators_'[p][ToIndex(f.shm.id)] = allocators_[p][ToIndex(f.shm.id)]
  PROVE  HandleSound(p, f)'
  BY DEF HandleSound, Owns, Home, Raw

LEMMA KnownKept ==
  ASSUME PagesKnown, HeadersKept, heap_off_ \in [Region -> Nat], heap_off_' \in [Region -> Nat],
         \A r \in Region : heap_off_[r] <= heap_off_'[r],
         NEW x \in DOMAIN page, page'[x] = page[x]
  PROVE  /\ x \in AddressSet
         /\ page'[x] \in [arena : Region, size : Nat \ {0}, objs : Seq(Nat)]
         /\ \A i \in DOMAIN page'[x].objs : page'[x].objs[i] = 1
         /\ x[1] \in Region =>
              /\ x[1] \in DOMAIN region' /\ Complete(x[1])'
              /\ region'[x[1]].type = "stack" => x[2] < heap_off_'[x[1]]
  <1>1. \A r : Discovered(r).kind = region[r].type /\ (Discovered(r).kind = region[r].type)'
    BY DEF Discovered
  <1>2. x[1] \in Region =>
          /\ x[1] \in DOMAIN region' /\ Complete(x[1])'
          /\ region'[x[1]].type = region[x[1]].type
          /\ region[x[1]].type = "stack" => x[2] < heap_off_[x[1]]
    <2> SUFFICES ASSUME x[1] \in Region
                 PROVE  /\ x[1] \in DOMAIN region' /\ Complete(x[1])'
                        /\ region'[x[1]].type = region[x[1]].type
                        /\ region[x[1]].type = "stack" => x[2] < heap_off_[x[1]]
      OBVIOUS
    <2> PICK r : r = x[1]
      OBVIOUS
    <2>1. /\ r \in DOMAIN region /\ Complete(r)
          /\ region[r].type = "stack" => x[2] < heap_off_[r]
      BY DEF PagesKnown
    <2>2. r \in DOMAIN region' /\ Complete(r)' /\ Discovered(r)' = Discovered(r)
      BY <2>1 DEF HeadersKept
    <2>3. region'[r].type = region[r].type
      BY <1>1, <2>2
    <2>4. QED  BY <2>1, <2>2, <2>3
  <1>3. x \in AddressSet /\ x[2] \in Nat
    BY DEF PagesKnown, AddressSet
  <1>4. x[1] \in Region => heap_off_[x[1]] <= heap_off_'[x[1]]
                           /\ heap_off_[x[1]] \in Nat /\ heap_off_'[x[1]] \in Nat
    OBVIOUS
  <1>5. QED  BY <1>2, <1>3, <1>4 DEF PagesKnown

\* A step of the memory manager under the handles.
LEMMA MMApi ==
  ASSUME IInv, ApiInv, Entries', HeadersKept, UNCHANGED apiVars,
         \A p \in Process : \A f \in held[p] :
           allocators_'[p][ToIndex(f.shm.id)] = allocators_[p][ToIndex(f.shm.id)]
  PROVE  ApiInv'
  <1>1. heap_off_' = heap_off_ /\ total_alloc_' = total_alloc_ /\ page' = page /\ held' = held
    BY DEF apiVars
  <1>2. ApiTypes' /\ Account'
    BY <1>1 DEF ApiInv, ApiTypes, Account
  <1>3. PagesKnown'
    <2>1. \A r \in Region : heap_off_[r] \in Nat
      BY DEF ApiInv, ApiTypes
    <2>2. \A r \in Region : heap_off_[r] <= heap_off_[r]
      BY <2>1
    <2>3. QED  BY <1>1, <2>2, KnownKept DEF PagesKnown, ApiInv, ApiTypes
  <1>4. Handles'
    <2>1. \A p \in Process : \A f \in held[p] : HandleSound(p, f)'
      BY <1>1, SoundKept DEF ApiInv, Handles, HandleSound
    <2>2. QED  BY <1>1, <2>1 DEF ApiInv, Handles
  <1>5. QED  BY <1>2, <1>3, <1>4 DEF ApiInv

\* p gets a page at y with a handle, and of the other pages those of base stay.
Puts(p, id, a, n, objs, base, y, from, gone) ==
  /\ Owns(p, id, a)
  /\ objs \in Seq(Nat) /\ \A i \in DOMAIN objs : objs[i] = 1
  /\ objs = <<>> \/ Len(objs) = n
  /\ base \subseteq DOMAIN page /\ y \in AddressSet \ base /\ Within(p, a, y)
  /\ a.kind = "stack" => y[2] < Bumped(a, n)[a.region]
  /\ page' = WithPage(base, y, a, n, objs)
  /\ heap_off_' = Bumped(a, n)
  /\ held' = [held EXCEPT ![p] = (held[p] \ gone) \union {Handle(p, a, y, n, from)}]
  /\ \A q \in Process : \A g \in held[q] : q # p \/ g \notin gone => g.ptr \in base
  /\ UNCHANGED mmVars

LEMMA Placed ==
  ASSUME IInv, ApiInv, OneMalloc,
         NEW p \in Process, NEW id, NEW a, NEW n \in Sizes, NEW objs, NEW base, NEW y,
         NEW from \in {"shm", "ptr", "both"}, NEW gone,
         Puts(p, id, a, n, objs, base, y, from, gone)
  PROVE  /\ PagesKnown' /\ Handles' /\ Entries'
         /\ IsFiniteSet(DOMAIN page') /\ held' = [q \in Process |-> held'[q]]
         /\ heap_off_' \in [Region -> Nat]
  <1> /\ Owns(p, id, a)
      /\ objs \in Seq(Nat) /\ \A i \in DOMAIN objs : objs[i] = 1
      /\ objs = <<>> \/ Len(objs) = n
      /\ base \subseteq DOMAIN page /\ y \in AddressSet /\ y \notin base /\ Within(p, a, y)
      /\ a.kind = "stack" => y[2] < Bumped(a, n)[a.region]
      /\ page' = WithPage(base, y, a, n, objs) /\ heap_off_' = Bumped(a, n)
      /\ held' = [held EXCEPT ![p] = (held[p] \ gone) \union {Handle(p, a, y, n, from)}]
      /\ \A q \in Process : \A g \in held[q] : q # p \/ g \notin gone => g.ptr \in base
      /\ UNCHANGED mmVars
    BY DEF Puts
  <1> PICK h : h = ByBoth(p, a, y, n)
    OBVIOUS
  <1>1. /\ a \in Allocator /\ a.id = id /\ a.region \in Region
        /\ a.kind # "malloc" => /\ a.region \in DOMAIN region /\ Complete(a.region)
                                /\ region[a.region].type = a.kind
    BY OwnedIs DEF ApiInv
  <1>2. n \in Nat \ {0} /\ PageSize(a, n) \in Nat \ {0} /\ Whole(a, n) \in Nat
    BY Numbers, WholeIs
  <1>3. h = Handle(p, a, y, n, from) /\ h \in FullPtr
    BY <1>2, OneHandle DEF ApiInv
  <1>4. /\ DOMAIN page' = base \union {y} /\ \A x \in base : page'[x] = page[x]
        /\ page'[y] = [arena |-> a.region, size |-> PageSize(a, n), objs |-> objs]
    BY DEF WithPage
  <1>5. heap_off_' \in [Region -> Nat] /\ \A r \in Region : heap_off_[r] <= heap_off_'[r]
    <2>1. heap_off_ \in [Region -> Nat]
      BY DEF ApiInv, ApiTypes
    <2>2. CASE a.kind = "stack"
      <3>1. heap_off_' = [heap_off_ EXCEPT ![a.region] = heap_off_[a.region] + Whole(a, n)]
        BY <1>1, <2>1, <2>2 DEF Bumped
      <3>2. heap_off_[a.region] + Whole(a, n) \in Nat
        BY <1>1, <1>2, <2>1
      <3>3. QED  BY <1>1, <1>2, <2>1, <3>1, <3>2
    <2>3. CASE a.kind # "stack"
      BY <2>1, <2>3 DEF Bumped
    <2>4. QED  BY <2>2, <2>3
  <1>6. UNCHANGED <<region, allocators_, making>>
    BY DEF mmVars, tables
  <1>7. HeadersKept
    BY <1>6 DEF HeadersKept, Complete, Discovered
  <1>8. PagesKnown'
    <2>1. ASSUME NEW x \in base
          PROVE  /\ x \in AddressSet
                 /\ page'[x] \in [arena : Region, size : Nat \ {0}, objs : Seq(Nat)]
                 /\ \A i \in DOMAIN page'[x].objs : page'[x].objs[i] = 1
                 /\ x[1] \in Region =>
                      /\ x[1] \in DOMAIN region' /\ Complete(x[1])'
                      /\ region'[x[1]].type = "stack" => x[2] < heap_off_'[x[1]]
      <3>1. x \in DOMAIN page /\ page'[x] = page[x]
        BY <1>4
      <3>2. PagesKnown /\ heap_off_ \in [Region -> Nat]
        BY DEF ApiInv, ApiTypes
      <3>3. QED  BY <1>5, <1>7, <3>1, <3>2, KnownKept
    <2>2. page'[y] \in [arena : Region, size : Nat \ {0}, objs : Seq(Nat)]
      BY <1>1, <1>2, <1>4
    <2>3. \A i \in DOMAIN page'[y].objs : page'[y].objs[i] = 1
      BY <1>4
    <2>4. y[1] \in Region =>
            /\ y[1] \in DOMAIN region' /\ Complete(y[1])'
            /\ region'[y[1]].type = "stack" => y[2] < heap_off_'[y[1]]
      <3>1. a.kind = "malloc" => y[1] = p /\ p \notin Region
        BY MemoryAssumption DEF Within, Region
      <3>2. a.kind # "malloc" => y[1] = a.region
        BY DEF Within
      <3>3. a.kind # "malloc" => Complete(a.region)'
        BY <1>1, <1>6 DEF Complete
      <3>4. QED  BY <1>1, <1>6, <3>1, <3>2, <3>3
    <2>5. QED  BY <1>4, <2>1, <2>2, <2>3, <2>4 DEF PagesKnown
  <1>9. \A q \in Process : held'[q] = IF q = p THEN (held[p] \ gone) \union {h} ELSE held[q]
    BY <1>3 DEF ApiInv, ApiTypes
  <1>10. \A q \in Process : \A g \in held'[q] :
           \/ q = p /\ g = h
           \/ g \in held[q] /\ g.ptr \in base /\ g.ptr # y
    BY <1>9
  <1>11. h.ptr = y /\ h.shm = Here(a, y) /\ h.shm.id = id /\ h.size_ = n
    BY <1>1 DEF ByBoth, Here
  <1>12. HandleSound(p, h)'
    <2>1. allocators_'[p][ToIndex(h.shm.id)] = a
      BY <1>6, <1>11 DEF Owns
    <2>2. h.shm.off = ToOffset(a, y)
      BY <1>11 DEF Here
    <2>3. page'[y].objs = <<>> \/ Len(page'[y].objs) = n
      BY <1>4
    <2>4. y \in DOMAIN page' /\ page'[y].arena = a.region
      BY <1>4
    <2>5. QED
      BY <1>3, <1>11, <2>1, <2>2, <2>3, <2>4 DEF HandleSound, Owns, Home, Raw
  <1>13. \A q \in Process : \A g \in held'[q] : HandleSound(q, g)'
    <2> SUFFICES ASSUME NEW q \in Process, NEW g \in held'[q]
                 PROVE  HandleSound(q, g)'
      OBVIOUS
    <2>1. CASE q = p /\ g = h
      BY <1>12, <2>1
    <2>2. CASE g \in held[q] /\ g.ptr \in base /\ g.ptr # y
      <3>1. HandleSound(q, g)
        BY <2>2 DEF ApiInv, Handles
      <3>2. /\ g.ptr \in DOMAIN page' /\ page'[g.ptr] = page[g.ptr]
            /\ allocators_'[q][ToIndex(g.shm.id)] = allocators_[q][ToIndex(g.shm.id)]
        BY <1>4, <1>6, <2>2
      <3>3. QED  BY <3>1, <3>2, SoundKept
    <2>3. QED  BY <1>10, <2>1, <2>2
  <1>14. \A q, u \in Process : \A f \in held'[q], g \in held'[u] : f.ptr = g.ptr => f = g
    BY <1>10, <1>11 DEF ApiInv, Handles
  <1>15. Handles'
    BY <1>13, <1>14 DEF Handles
  <1>16. IsFiniteSet(DOMAIN page')
    <2>1. IsFiniteSet(DOMAIN page)
      BY DEF ApiInv, ApiTypes
    <2>2. IsFiniteSet(base)
      BY <2>1, FS_Subset
    <2>3. IsFiniteSet(base \union {y})
      BY <2>2, FS_AddElement
    <2>4. QED  BY <1>4, <2>3
  <1>17. Entries'
    <2>1. \A q \in Process : MallocKind(making'[q].alloc)
      BY <1>6 DEF ApiInv, Entries
    <2>2. QED  BY <1>6, <1>7, <2>1, SameTables DEF ApiInv
  <1>18. held' = [q \in Process |-> held'[q]]
    <2>1. DOMAIN held = Process
      BY DEF ApiInv, ApiTypes
    <2>2. QED  BY <2>1
  <1>19. QED
    BY <1>5, <1>8, <1>15, <1>16, <1>17, <1>18

-----------------------------------------------------------------------------
(* The steps of the interface *)

AllOnes(objs) == objs \in Seq(Nat) /\ \A i \in DOMAIN objs : objs[i] = 1

LEMMA Constructed ==
  ASSUME NEW objs, AllOnes(objs), NEW old, Len(objs) = old, NEW n \in Nat
  PROVE  AllOnes(ConstructObjs(objs, old, n)) /\ Len(ConstructObjs(objs, old, n)) = n
  <1> PICK c : c = ConstructObjs(objs, old, n)
    OBVIOUS
  <1>1. old \in Nat /\ DOMAIN objs = 1 .. old
    BY DEF AllOnes
  <1>2. c = [i \in 1 .. n |-> c[i]]
    BY DEF ConstructObjs
  <1>3. \A i \in 1 .. n : c[i] = 1
    BY <1>1 DEF ConstructObjs, AllOnes
  <1>4. c \in Seq(Nat) /\ Len(c) = n
    BY <1>2, <1>3
  <1>5. QED  BY <1>2, <1>3, <1>4 DEF AllOnes

\* The handle names what it says, in its own process and in every other.
LEMMA Handled ==
  ASSUME IInv, ApiInv, NEW p \in Process, NEW f \in held[p]
  PROVE  /\ HandleSound(p, f) /\ f.ptr \in AddressSet /\ f.size_ \in Nat
         /\ page[f.ptr] \in [arena : Region, size : Nat \ {0}, objs : Seq(Nat)]
         /\ AllOnes(page[f.ptr].objs)
         /\ PointerOf(p, f) = f.ptr /\ ConvertedOf(p, f) = f.ptr
         /\ ToPtr(p, f.shm) = f.ptr /\ f.shm = Here(Home(p, f), f.ptr)
         /\ f.ptr[1] \in Region => \A q \in Process :
              allocators_[q][ToIndex(f.shm.id)] # NoAlloc =>
                /\ allocators_[q][ToIndex(f.shm.id)] = Home(p, f)
                /\ ToPtr(q, f.shm) = f.ptr /\ HandleSound(q, f)
  <1> PICK a : a = Home(p, f)
    OBVIOUS
  <1> PICK x : x = f.ptr
    OBVIOUS
  <1>1. /\ HandleSound(p, f) /\ f \in FullPtr /\ x \in DOMAIN page
        /\ Owns(p, f.shm.id, a) /\ Within(p, a, x) /\ f.shm.off = ToOffset(a, x)
    BY DEF ApiInv, Handles, HandleSound
  <1>2. x \in AddressSet /\ page[x] \in [arena : Region, size : Nat \ {0}, objs : Seq(Nat)]
        /\ AllOnes(page[x].objs)
    BY <1>1 DEF ApiInv, PagesKnown, AllOnes
  <1>3. FromOffset(a, ToOffset(a, x)) = x /\ a.id = f.shm.id
    BY <1>1, <1>2, OffsetBack, OwnedIs DEF ApiInv
  <1>4. f.shm = Here(a, x) /\ f.size_ \in Nat
    BY <1>1, <1>3 DEF Here, FullPtr, Pointer
  <1>5. PointerOf(p, f) = x /\ ConvertedOf(p, f) = x
    BY <1>1, <1>3 DEF PointerOf, ConvertedOf
  <1>6. ToPtr(p, f.shm) = x
    BY <1>1, <1>3 DEF ToPtr, Home
  <1>7. ASSUME x[1] \in Region, NEW q \in Process, allocators_[q][ToIndex(f.shm.id)] # NoAlloc
        PROVE  /\ allocators_[q][ToIndex(f.shm.id)] = a
               /\ ToPtr(q, f.shm) = x /\ HandleSound(q, f)
    <2>1. allocators_[q][ToIndex(f.shm.id)] = a
      BY <1>1, <1>7 DEF ApiInv, Entries, TablesAgree, Owns
    <2>2. ToPtr(q, f.shm) = x
      BY <1>1, <1>3, <2>1 DEF ToPtr
    <2>3. a.kind # "malloc"
      BY <1>1, <1>7, MemoryAssumption DEF Within, Region
    <2>4. Within(q, a, x) /\ Owns(q, f.shm.id, a) /\ Home(q, f) = a
      BY <1>1, <2>1, <2>3 DEF Within, Owns, Home
    <2>5. QED  BY <1>1, <2>1, <2>2, <2>4 DEF HandleSound
  <1>8. QED  BY <1>1, <1>2, <1>4, <1>5, <1>6, <1>7

\* Callable allocators are those that a main id owns.
LEMMA CallableOwns ==
  ASSUME IInv, Entries, NEW p \in Process, NEW i \in Index, Callable(p, i)
  PROVE  Owns(p, allocators_[p][i].id, allocators_[p][i])
  <1> PICK a : a = allocators_[p][i]
    OBVIOUS
  <1>1. a.id[1] > 0 /\ a.id[2] = 0 /\ a \in Allocator \union {NoAlloc}
    BY DEF Callable, IInv, Types, Entry
  <1>2. a # NoAlloc
    BY <1>1 DEF NoAlloc
  <1>3. ToIndex(a.id) = i
    BY <1>2 DEF Entries, EntrySound
  <1>4. a.id \in MainIds \ {RootId}
    BY <1>1, <1>2 DEF Allocator, MainIds, RootId
  <1>5. QED  BY <1>2, <1>3, <1>4 DEF Owns

LEMMA NewKept ==
  ASSUME IInv, ApiInv, OneMalloc, NEW p \in Process, NEW i \in Index, NEW n \in Sizes,
         NEW objs, AllOnes(objs), objs = <<>> \/ Len(objs) = n,
         NEW from \in {"shm", "ptr", "both"}, New(p, i, n, objs, from)
  PROVE  ApiInv'
  <1> PICK a : a = allocators_[p][i]
    OBVIOUS
  <1>1. PICK x \in Places(p, a, n) :
          /\ page' = WithPage(DOMAIN page, x, a, n, objs)
          /\ held' = [held EXCEPT ![p] = held[p] \union {Handle(p, a, x, n, from)}]
    BY DEF New
  <1>2. /\ Callable(p, i) /\ heap_off_' = Bumped(a, n) /\ UNCHANGED mmVars
        /\ total_alloc_' = [total_alloc_ EXCEPT ![a.region] = total_alloc_[a.region] + PageSize(a, n)]
    BY DEF New
  <1>3. Owns(p, a.id, a)
    BY <1>2, CallableOwns DEF ApiInv
  <1>4. /\ x \in AddressSet /\ Within(p, a, x) /\ x \notin DOMAIN page
        /\ a.kind = "stack" => x[2] < Bumped(a, n)[a.region]
    BY <1>3, PlaceIs DEF ApiInv, ApiTypes
  <1>5. \A q \in Process : \A g \in held[q] : g.ptr \in DOMAIN page
    BY DEF ApiInv, Handles, HandleSound
  <1>6. held' = [held EXCEPT ![p] = (held[p] \ {}) \union {Handle(p, a, x, n, from)}]
    BY <1>1
  <1>7. /\ PagesKnown' /\ Handles' /\ Entries'
        /\ IsFiniteSet(DOMAIN page') /\ held' = [q \in Process |-> held'[q]]
        /\ heap_off_' \in [Region -> Nat]
    <2> PICK base : base = DOMAIN page
      OBVIOUS
    <2>1. Puts(p, a.id, a, n, objs, base, x, from, {})
      BY <1>1, <1>2, <1>3, <1>4, <1>5, <1>6 DEF Puts, AllOnes
    <2>2. QED  BY <2>1, Placed
  <1>8. /\ DOMAIN page' = DOMAIN page \union {x} /\ \A y \in DOMAIN page : page'[y] = page[y]
        /\ page'[x] = [arena |-> a.region, size |-> PageSize(a, n), objs |-> objs]
    BY <1>1, <1>4 DEF WithPage
  <1>9. a.region \in Region /\ PageSize(a, n) \in Nat
    BY <1>3, OwnedIs, WholeIs DEF ApiInv
  <1>10. total_alloc_ \in [Region -> Int] /\ IsFiniteSet(DOMAIN page)
        /\ \A y \in DOMAIN page : page[y].size \in Int
    BY DEF ApiInv, ApiTypes, PagesKnown
  <1>11. total_alloc_' \in [Region -> Int]
    BY <1>2, <1>9, <1>10
  <1>12. \A r \in Region : total_alloc_'[r] = BytesOut(page', r)
    <2> SUFFICES ASSUME NEW r \in Region  PROVE total_alloc_'[r] = BytesOut(page', r)
      OBVIOUS
    <2> PICK pg : pg = page  OBVIOUS
    <2> PICK qg : qg = page'  OBVIOUS
    <2>1. qg[x].size = PageSize(a, n) /\ qg[x].arena = a.region
      BY <1>8
    <2>5. Adds(pg, qg, x)
      <3>1. DOMAIN qg = DOMAIN pg \union {x} /\ \A y \in DOMAIN pg : qg[y] = pg[y]
        BY <1>8
      <3>2. \A y \in DOMAIN pg : qg[y].size \in Int
        BY <1>10, <3>1
      <3>3. \A y \in DOMAIN qg : qg[y].size \in Int
        BY <1>9, <2>1, <3>1, <3>2
      <3>4. QED  BY <1>4, <1>10, <3>1, <3>3 DEF Adds
    <2>2. BytesOut(qg, r) = BytesOut(pg, r) + Share(qg, x, r)
      BY <2>5, OneMore
    <2>3. total_alloc_[r] = BytesOut(pg, r)
      BY DEF ApiInv, Account
    <2>4. total_alloc_'[r] = total_alloc_[r] + IF a.region = r THEN PageSize(a, n) ELSE 0
      BY <1>2, <1>9, <1>10
    <2>6. QED  BY <2>1, <2>2, <2>3, <2>4 DEF Share
  <1>13. Account'
    BY <1>12 DEF Account
  <1>14. QED  BY <1>7, <1>11, <1>13 DEF ApiInv, ApiTypes

\* What the other handles name, when only p has the page of f.
LEMMA OthersStay ==
  ASSUME IInv, ApiInv, NEW p \in Process, NEW f \in held[p], Alone(p, f),
         NEW q \in Process, NEW g \in held[q], q # p \/ g # f
  PROVE  g.ptr \in DOMAIN page \ {f.ptr}
  <1>1. g.ptr # f.ptr
    BY DEF Alone, ApiInv, Handles
  <1>2. g.ptr \in DOMAIN page
    BY DEF ApiInv, Handles, HandleSound
  <1>3. QED  BY <1>1, <1>2

\* The account without one page.
Without(bg, x) == bg = Restrict(page, DOMAIN page \ {x})

LEMMA OneLess ==
  ASSUME ApiInv, NEW x \in DOMAIN page, NEW bg, Without(bg, x),
         NEW r \in Region
  PROVE  /\ total_alloc_[r] = BytesOut(bg, r) + Share(page, x, r)
         /\ BytesOut(bg, r) \in Int /\ page[x].size \in Int /\ page[x].arena \in Region
         /\ IsFiniteSet(DOMAIN bg) /\ DOMAIN bg = DOMAIN page \ {x}
         /\ \A y \in DOMAIN bg : bg[y] = page[y] /\ bg[y].size \in Int
  <1>1. IsFiniteSet(DOMAIN page) /\ \A y \in DOMAIN page : page[y].size \in Int /\ page[y].arena \in Region
    BY DEF ApiInv, ApiTypes, PagesKnown
  <1>2. DOMAIN bg = DOMAIN page \ {x} /\ \A y \in DOMAIN bg : bg[y] = page[y]
    BY DEF Restrict, Without
  <1>3. IsFiniteSet(DOMAIN bg)
    BY <1>1, <1>2, FS_Subset
  <1>4. \A y \in DOMAIN bg : bg[y].size \in Int
    BY <1>1, <1>2
  <1>5. /\ BytesOut(page, r) = BytesOut(bg, r) + Share(page, x, r)
        /\ BytesOut(bg, r) \in Int
    <2> PICK qg : qg = page  OBVIOUS
    <2>1. Adds(bg, qg, x)
      BY <1>1, <1>2, <1>3 DEF Adds
    <2>2. /\ BytesOut(qg, r) = BytesOut(bg, r) + Share(qg, x, r)
          /\ BytesOut(bg, r) \in Int
      BY <2>1, OneMore
    <2>3. QED  BY <2>2
  <1>6. total_alloc_[r] = BytesOut(page, r)
    BY DEF ApiInv, Account
  <1>7. QED  BY <1>1, <1>2, <1>3, <1>4, <1>5, <1>6

LEMMA MoveKept ==
  ASSUME IInv, ApiInv, OneMalloc, NEW p \in Process, NEW f \in held[p], NEW n \in Sizes,
         NEW x, x = f.ptr, NEW objs, AllOnes(objs), objs = <<>> \/ Len(objs) = n,
         NEW from \in {"shm", "ptr", "both"}, Move(p, f, x, n, objs, from)
  PROVE  ApiInv'
  <1> PICK a : a = Home(p, f)
    OBVIOUS
  <1> PICK base : base = DOMAIN page \ {x}
    OBVIOUS
  <1> PICK bg : bg = Restrict(page, base)
    OBVIOUS
  <1>1. PICK y \in Places(p, a, n) \union Stays(a, x, n) :
          /\ page' = WithPage(base, y, a, n, objs)
          /\ held' = [held EXCEPT ![p] = (held[p] \ {f}) \union {Handle(p, a, y, n, from)}]
    BY DEF Move
  <1>2. /\ Alone(p, f) /\ heap_off_' = Bumped(a, n) /\ UNCHANGED mmVars
        /\ total_alloc_' = [total_alloc_ EXCEPT
             ![a.region] = total_alloc_[a.region] + PageSize(a, n) - page[x].size]
    BY DEF Move
  <1>3. /\ Owns(p, f.shm.id, a) /\ x \in DOMAIN page /\ x \in AddressSet
        /\ page[x].arena = a.region /\ Within(p, a, x)
    BY Handled DEF HandleSound
  <1>4. /\ y \in AddressSet \ base /\ Within(p, a, y)
        /\ a.kind = "stack" => y[2] < Bumped(a, n)[a.region]
    <2>1. CASE y \in Places(p, a, n)
      BY <1>3, <2>1, PlaceIs DEF ApiInv, ApiTypes
    <2>2. CASE y \in Stays(a, x, n)
      <3>1. y = x /\ a.kind = "malloc"
        BY <2>2 DEF Stays
      <3>2. QED  BY <1>3, <3>1
    <2>3. QED  BY <2>1, <2>2
  <1>5. \A q \in Process : \A g \in held[q] : q # p \/ g \notin {f} => g.ptr \in base
    BY <1>2, OthersStay
  <1>6. Puts(p, f.shm.id, a, n, objs, base, y, from, {f})
    <2>1. base \subseteq DOMAIN page
      OBVIOUS
    <2>2. QED  BY <1>1, <1>2, <1>3, <1>4, <1>5, <2>1 DEF Puts, AllOnes
  <1>7. /\ PagesKnown' /\ Handles' /\ Entries'
        /\ IsFiniteSet(DOMAIN page') /\ held' = [q \in Process |-> held'[q]]
        /\ heap_off_' \in [Region -> Nat]
    BY <1>6, Placed
  <1>8. /\ DOMAIN page' = base \union {y} /\ \A z \in base : page'[z] = page[z]
        /\ page'[y] = [arena |-> a.region, size |-> PageSize(a, n), objs |-> objs]
    BY <1>1, <1>4 DEF WithPage
  <1>9. a.region \in Region /\ PageSize(a, n) \in Nat /\ page[x].size \in Int
    BY <1>3, OwnedIs, WholeIs DEF ApiInv, PagesKnown
  <1>10. total_alloc_ \in [Region -> Int]
    BY DEF ApiInv, ApiTypes
  <1>11. total_alloc_' \in [Region -> Int]
    BY <1>2, <1>9, <1>10
  <1>12. \A r \in Region : total_alloc_'[r] = BytesOut(page', r)
    <2> SUFFICES ASSUME NEW r \in Region  PROVE total_alloc_'[r] = BytesOut(page', r)
      OBVIOUS
    <2> PICK qg : qg = page'  OBVIOUS
    <2>1. /\ total_alloc_[r] = BytesOut(bg, r) + Share(page, x, r)
          /\ BytesOut(bg, r) \in Int
          /\ IsFiniteSet(DOMAIN bg) /\ DOMAIN bg = base
          /\ \A z \in DOMAIN bg : bg[z] = page[z] /\ bg[z].size \in Int
      <3>1. Without(bg, x)
        BY DEF Without
      <3>2. x \in DOMAIN page
        BY <1>3
      <3>3. /\ total_alloc_[r] = BytesOut(bg, r) + Share(page, x, r)
            /\ BytesOut(bg, r) \in Int
            /\ IsFiniteSet(DOMAIN bg) /\ DOMAIN bg = DOMAIN page \ {x}
        BY <3>1, <3>2, OneLess
      <3>4. \A z \in DOMAIN bg : bg[z] = page[z] /\ bg[z].size \in Int
        BY DEF Restrict, ApiInv, PagesKnown
      <3>5. QED  BY <3>3, <3>4
    <2>2. qg[y].size = PageSize(a, n) /\ qg[y].arena = a.region
      BY <1>8
    <2>3. BytesOut(qg, r) = BytesOut(bg, r) + Share(qg, y, r)
      <3>1. DOMAIN qg = DOMAIN bg \union {y} /\ \A z \in DOMAIN bg : qg[z] = bg[z]
        BY <1>8, <2>1
      <3>2. \A z \in DOMAIN bg : qg[z].size \in Int
        BY <2>1, <3>1
      <3>3. qg[y].size \in Int
        BY <1>9, <2>2
      <3>5. \A z \in DOMAIN qg : qg[z].size \in Int
        BY <2>1, <3>1, <3>2, <3>3
      <3>4. Adds(bg, qg, y)
        BY <1>4, <2>1, <3>1, <3>5 DEF Adds
      <3>6. QED  BY <3>4, OneMore
    <2>4. total_alloc_'[r] = IF a.region = r THEN total_alloc_[r] + PageSize(a, n) - page[x].size
                             ELSE total_alloc_[r]
      BY <1>2, <1>9, <1>10
    <2>5. QED  BY <1>3, <1>9, <2>1, <2>2, <2>3, <2>4 DEF Share
  <1>13. Account'
    BY <1>12 DEF Account
  <1>14. QED  BY <1>7, <1>11, <1>13 DEF ApiInv, ApiTypes

\* A step that leaves the pages of base, as they were, and no other.
Stay(base) ==
  base \subseteq DOMAIN page /\ DOMAIN page' = base /\ \A x \in base : page'[x] = page[x]

LEMMA HandlesStep ==
  ASSUME IInv, ApiInv, UNCHANGED <<mmVars, heap_off_>>,
         NEW base, Stay(base),
         held' = [q \in Process |-> held'[q]],
         \A q \in Process : \A g \in held'[q] :
           /\ g.ptr \in base /\ HandleSound(q, g)
           /\ \E u \in Process : g \in held[u]
  PROVE  /\ PagesKnown' /\ Handles' /\ Entries'
         /\ IsFiniteSet(DOMAIN page') /\ heap_off_' \in [Region -> Nat]
  <1>1. base \subseteq DOMAIN page /\ DOMAIN page' = base /\ \A x \in base : page'[x] = page[x]
    BY DEF Stay
  <1>2. UNCHANGED <<region, allocators_, making>>
    BY DEF mmVars, tables
  <1>3. HeadersKept
    BY <1>2 DEF HeadersKept, Complete, Discovered
  <1>4. Entries'
    <2>1. \A q \in Process : MallocKind(making'[q].alloc)
      BY <1>2 DEF ApiInv, Entries
    <2>2. QED  BY <1>2, <1>3, <2>1, SameTables DEF ApiInv
  <1>5. heap_off_' \in [Region -> Nat] /\ \A r \in Region : heap_off_[r] <= heap_off_'[r]
    <2>1. heap_off_ \in [Region -> Nat] /\ heap_off_' = heap_off_
      BY DEF ApiInv, ApiTypes
    <2>2. \A r \in Region : heap_off_[r] \in Nat
      BY <2>1
    <2>3. QED  BY <2>1, <2>2
  <1>6. PagesKnown'
    <2>1. PagesKnown /\ heap_off_ \in [Region -> Nat]
      BY DEF ApiInv, ApiTypes
    <2>2. QED  BY <1>1, <1>3, <1>5, <2>1, KnownKept DEF PagesKnown
  <1>7. \A q \in Process : \A g \in held'[q] : HandleSound(q, g)'
    BY <1>1, <1>2, SoundKept
  <1>8. \A q, u \in Process : \A g \in held'[q], h \in held'[u] : g.ptr = h.ptr => g = h
    BY DEF ApiInv, Handles
  <1>9. IsFiniteSet(DOMAIN page')
    BY <1>1, FS_Subset DEF ApiInv, ApiTypes
  <1>10. QED  BY <1>4, <1>5, <1>6, <1>7, <1>8, <1>9 DEF Handles

LEMMA ReleaseKept ==
  ASSUME IInv, ApiInv, NEW p \in Process, NEW f \in held[p], NEW x, x = f.ptr, Release(p, f, x)
  PROVE  ApiInv'
  <1> PICK base : base = DOMAIN page \ {x}
    OBVIOUS
  <1> PICK bg : bg = Restrict(page, base)
    OBVIOUS
  <1>1. /\ Alone(p, f) /\ page' = bg /\ held' = [held EXCEPT ![p] = held[p] \ {f}]
        /\ total_alloc_' = [total_alloc_ EXCEPT
             ![page[x].arena] = total_alloc_[page[x].arena] - page[x].size]
        /\ UNCHANGED <<mmVars, heap_off_>>
    BY DEF Release
  <1>2. x \in DOMAIN page
    BY Handled DEF HandleSound
  <1>3. DOMAIN held = Process
    BY DEF ApiInv, ApiTypes
  <1>4. held' = [q \in Process |-> held'[q]]
        /\ \A q \in Process : \A g \in held'[q] : g \in held[q] /\ (q # p \/ g # f)
    BY <1>1, <1>3
  <1>5. /\ PagesKnown' /\ Handles' /\ Entries'
        /\ IsFiniteSet(DOMAIN page') /\ heap_off_' \in [Region -> Nat]
    <2>1. \A q \in Process : \A g \in held'[q] :
            /\ g.ptr \in base /\ HandleSound(q, g)
            /\ \E u \in Process : g \in held[u]
      BY <1>1, <1>4, OthersStay DEF ApiInv, Handles
    <2>2. Stay(base)
      BY <1>1 DEF Stay, Restrict
    <2>3. QED  BY <1>1, <1>4, <2>1, <2>2, HandlesStep
  <1>6. total_alloc_ \in [Region -> Int]
    BY DEF ApiInv, ApiTypes
  <1>7. page[x].arena \in Region /\ page[x].size \in Int
    BY <1>2 DEF ApiInv, PagesKnown
  <1>8. total_alloc_' \in [Region -> Int]
    BY <1>1, <1>6, <1>7
  <1>9. \A r \in Region : total_alloc_'[r] = BytesOut(page', r)
    <2> SUFFICES ASSUME NEW r \in Region  PROVE total_alloc_'[r] = BytesOut(page', r)
      OBVIOUS
    <2>1. /\ total_alloc_[r] = BytesOut(bg, r) + Share(page, x, r)
          /\ BytesOut(bg, r) \in Int
      <3>1. Without(bg, x)
        BY DEF Without
      <3>2. x \in DOMAIN page
        BY <1>2
      <3>3. QED  BY <3>1, <3>2, OneLess
    <2>2. total_alloc_'[r] = IF page[x].arena = r THEN total_alloc_[r] - page[x].size
                             ELSE total_alloc_[r]
      BY <1>1, <1>6, <1>7
    <2>3. QED  BY <1>1, <1>7, <2>1, <2>2 DEF Share
  <1>10. Account'
    BY <1>9 DEF Account
  <1>11. QED  BY <1>4, <1>5, <1>8, <1>10 DEF ApiInv, ApiTypes

\* Passing a pointer and forgetting one.
LEMMA HandOver ==
  ASSUME IInv, ApiInv, NEW p \in Process, NEW f \in held[p],
         (\E q \in Process : Pass(p, q, f)) \/ Drop(p, f)
  PROVE  ApiInv'
  <1>1. /\ UNCHANGED mmVars /\ heap_off_' = heap_off_ /\ total_alloc_' = total_alloc_
        /\ page' = page
    BY DEF Pass, Drop
  <1>2. DOMAIN held = Process /\ \A q \in Process : \A g \in held[q] : HandleSound(q, g)
    BY DEF ApiInv, ApiTypes, Handles
  <1>3. /\ held' = [q \in Process |-> held'[q]]
        /\ \A q \in Process : \A g \in held'[q] : HandleSound(q, g) /\ \E u \in Process : g \in held[u]
    <2>1. ASSUME NEW q \in Process, Pass(p, q, f)
          PROVE  <1>3!:
      <3>1. ToPtr(q, f.shm) = f.ptr /\ HandleSound(q, f)
        BY <2>1, Handled DEF Pass
      <3>2. [f EXCEPT !.ptr = f.ptr] = f
        BY <3>1 DEF HandleSound, FullPtr
      <3>3. held' = [held EXCEPT ![q] = held[q] \union {f}]
        BY <2>1, <3>1, <3>2 DEF Pass
      <3>4. QED  BY <1>2, <3>1, <3>3
    <2>2. CASE Drop(p, f)
      <3>1. held' = [held EXCEPT ![p] = held[p] \ {f}]
        BY <2>2 DEF Drop
      <3>2. QED  BY <1>2, <3>1
    <2>3. QED  BY <2>1, <2>2
  <1>4. /\ PagesKnown' /\ Handles' /\ Entries'
        /\ IsFiniteSet(DOMAIN page') /\ heap_off_' \in [Region -> Nat]
    <2> PICK base : base = DOMAIN page
      OBVIOUS
    <2>1. Stay(base)
      BY <1>1 DEF Stay
    <2>2. \A q \in Process : \A g \in held'[q] : g.ptr \in base
      BY <1>3 DEF HandleSound
    <2>3. QED  BY <1>1, <1>3, <2>1, <2>2, HandlesStep
  <1>5. Account' /\ total_alloc_' \in [Region -> Int]
    BY <1>1 DEF ApiInv, Account, ApiTypes
  <1>6. QED  BY <1>3, <1>4, <1>5 DEF ApiInv, ApiTypes

-----------------------------------------------------------------------------
(* The invariant of the interface is inductive *)

LEMMA InitApi == Init => ApiInv
  <1> SUFFICES ASSUME Init  PROVE ApiInv
    OBVIOUS
  <1>1. IInv
    BY InitIInv
  <1>2. /\ page = <<>> /\ DOMAIN page = {} /\ held = [p \in Process |-> {}]
        /\ heap_off_ = [r \in Region |-> 0] /\ total_alloc_ = [r \in Region |-> 0]
    BY DEF Init
  <1>3. /\ \A p \in Process : making[p] = Idle
        /\ \A p \in Process, i \in Index :
             allocators_[p][i] = IF i = ToIndex(RootId) THEN RootAlloc(p) ELSE NoAlloc
    BY DEF Init, MMInit
  <1>4. RootId \in AllocatorId /\ RootId[2] = 0
        /\ \A id \in MainIds : /\ id \in AllocatorId /\ ToIndex(id) \in Index
                               /\ ToIndex(id) = ToIndex(RootId) => id = RootId
    BY Ids DEF MainIds
  <1>5. Entries
    <2>1. \A p \in Process, i \in Index : EntrySound(p, i, allocators_[p][i])
      BY <1>3, <1>4 DEF EntrySound, MainEntry, RootAlloc
    <2>2. TablesAgree
      BY <1>3, <1>4 DEF TablesAgree
    <2>3. \A q \in Process : MallocKind(making[q].alloc)
      BY <1>3 DEF MallocKind, Idle, NoAlloc
    <2>4. QED  BY <2>1, <2>2, <2>3 DEF Entries
  <1>6. ApiTypes
    BY <1>2, FS_EmptySet DEF ApiTypes
  <1>7. PagesKnown /\ Handles
    BY <1>2 DEF PagesKnown, Handles
  <1>8. Account
    <2>1. \A r \in Region : Out(page, r) = {}
      BY <1>2 DEF Out
    <2>2. \A r \in Region : BytesOut(page, r) = 0
      BY <2>1, TotalNone DEF BytesOut
    <2>3. QED  BY <1>2, <2>2 DEF Account
  <1>9. QED  BY <1>5, <1>6, <1>7, <1>8 DEF ApiInv

LEMMA NewStepKept ==
  ASSUME IInv, ApiInv, OneMalloc, NEW p \in Process, NewStep(p)
  PROVE  ApiInv'
  <1>1. PICK i \in Index, n \in Sizes :
          \/ Allocate(p, i, n) \/ AllocatePtr(p, i, n) \/ AllocateLocalPtr(p, i, n)
          \/ NewObjs(p, i, n) \/ NewObjsLocal(p, i, n)
    BY DEF NewStep
  <1>2. AllOnes(<<>>) /\ Len(<<>>) = 0
    BY DEF AllOnes
  <1>3. AllOnes(ConstructObjs(<<>>, 0, n)) /\ Len(ConstructObjs(<<>>, 0, n)) = n
    BY <1>2, Constructed, Numbers
  <1>4. CASE Allocate(p, i, n) \/ AllocatePtr(p, i, n) \/ AllocateLocalPtr(p, i, n)
    BY <1>2, <1>4, NewKept DEF Allocate, AllocatePtr, AllocateLocalPtr
  <1>5. CASE NewObjs(p, i, n) \/ NewObjsLocal(p, i, n)
    BY <1>3, <1>5, NewKept DEF NewObjs, NewObjsLocal
  <1>6. QED  BY <1>1, <1>4, <1>5

LEMMA MoveStepKept ==
  ASSUME IInv, ApiInv, OneMalloc, NEW p \in Process, MoveStep(p)
  PROVE  ApiInv'
  <1>1. PICK f \in held[p], n \in Sizes :
          \/ Reallocate(p, f, n) \/ ReallocatePtr(p, f, n) \/ ReallocateLocalPtr(p, f, n)
          \/ ReallocateConstructObjs(p, f, n) \/ ReallocateConstructObjsLocal(p, f, n)
    BY DEF MoveStep
  <1> PICK x : x = f.ptr
    OBVIOUS
  <1>2. /\ PointerOf(p, f) = x /\ ConvertedOf(p, f) = x /\ AllOnes(page[x].objs)
        /\ Raw(x) \/ Len(page[x].objs) = f.size_
    BY Handled DEF HandleSound
  <1>3. AllOnes(<<>>)
    BY DEF AllOnes
  <1>4. CASE Reallocate(p, f, n) \/ ReallocatePtr(p, f, n) \/ ReallocateLocalPtr(p, f, n)
    BY <1>2, <1>3, <1>4, MoveKept DEF Reallocate, ReallocatePtr, ReallocateLocalPtr
  <1>5. CASE ReallocateConstructObjs(p, f, n) \/ ReallocateConstructObjsLocal(p, f, n)
    <2> PICK objs : objs = ConstructObjs(page[x].objs, f.size_, n)
      OBVIOUS
    <2>1. Len(page[x].objs) = f.size_
      BY <1>2, <1>5 DEF ReallocateConstructObjs, ReallocateConstructObjsLocal
    <2>2. AllOnes(objs) /\ Len(objs) = n
      BY <1>2, <2>1, Constructed, Numbers
    <2>3. Move(p, f, x, n, objs, "shm") \/ Move(p, f, x, n, objs, "both")
      BY <1>2, <1>5 DEF ReallocateConstructObjs, ReallocateConstructObjsLocal
    <2>4. QED  BY <2>2, <2>3, MoveKept
  <1>6. QED  BY <1>1, <1>4, <1>5

LEMMA FreeStepKept ==
  ASSUME IInv, ApiInv, NEW p \in Process, FreeStep(p)
  PROVE  ApiInv'
  <1>1. PICK f \in held[p] :
          Free(p, f) \/ FreePtr(p, f) \/ DelObjs(p, f) \/ DelObjsLocal(p, f) \/ Drop(p, f)
    BY DEF FreeStep
  <1>2. PointerOf(p, f) = f.ptr /\ ConvertedOf(p, f) = f.ptr
    BY Handled
  <1>3. CASE Drop(p, f)
    BY <1>3, HandOver
  <1>4. CASE Release(p, f, f.ptr)
    BY <1>4, ReleaseKept
  <1>5. QED  BY <1>1, <1>2, <1>3, <1>4 DEF Free, FreePtr, DelObjs, DelObjsLocal

LEMMA UnregisterKept ==
  ASSUME IInv, ApiInv, NEW p \in Process, NEW m \in 1 .. MaxMajor, Unregister(p, <<m, 0>>)
  PROVE  ApiInv'
  <1>1. /\ \A f \in held[p] : f.shm.id # <<m, 0>>
        /\ UnregisterAllocator(p, <<m, 0>>) /\ UNCHANGED apiVars
    BY DEF Unregister
  <1>2. /\ Entries' /\ HeadersKept
        /\ \A q \in Process, id \in MainIds :
             q # p \/ id # <<m, 0>> => allocators_'[q][ToIndex(id)] = allocators_[q][ToIndex(id)]
    BY <1>1, UnregisterEntries DEF ApiInv
  <1>3. \A q \in Process : \A f \in held[q] : f.shm.id \in MainIds
    BY DEF ApiInv, Handles, HandleSound, Owns
  <1>4. \A q \in Process : \A f \in held[q] :
          allocators_'[q][ToIndex(f.shm.id)] = allocators_[q][ToIndex(f.shm.id)]
    BY <1>1, <1>2, <1>3
  <1>5. QED  BY <1>1, <1>2, <1>4, MMApi

LEMMA StepApi ==
  ASSUME IInv, ApiInv, Barrier, OneMalloc, [Next]_vars
  PROVE  ApiInv'
  <1>1. CASE UNCHANGED vars
    <2>1. UNCHANGED mmVars /\ UNCHANGED apiVars
      BY <1>1 DEF vars
    <2>2. UNCHANGED <<region, allocators_, making>>
      BY <2>1 DEF mmVars, tables
    <2>3. HeadersKept
      BY <2>2 DEF HeadersKept, Complete, Discovered
    <2>4. Entries'
      <3>1. \A q \in Process : MallocKind(making'[q].alloc)
        BY <2>2 DEF ApiInv, Entries
      <3>2. QED  BY <2>2, <2>3, <3>1, SameTables DEF ApiInv
    <2>5. QED  BY <2>1, <2>2, <2>3, <2>4, MMApi
  <1>2. CASE MMNext /\ UNCHANGED apiVars
    <2>1. Entries' /\ HeadersKept /\ MainsKept
      BY <1>2, MMEntries DEF ApiInv
    <2>2. \A q \in Process : \A f \in held[q] :
            allocators_'[q][ToIndex(f.shm.id)] = allocators_[q][ToIndex(f.shm.id)]
      BY <2>1 DEF ApiInv, Handles, HandleSound, Owns, Home, MainsKept
    <2>3. QED  BY <1>2, <2>1, <2>2, MMApi
  <1>3. ASSUME NEW p \in Process,
               \/ NewStep(p) \/ MoveStep(p) \/ FreeStep(p)
               \/ \E f \in held[p], q \in Process : Pass(p, q, f)
               \/ \E m \in 1 .. MaxMajor : Unregister(p, <<m, 0>>)
        PROVE  ApiInv'
    BY <1>3, NewStepKept, MoveStepKept, FreeStepKept, HandOver, UnregisterKept
  <1>4. QED  BY <1>1, <1>2, <1>3 DEF Next

LEMMA ApiInductive ==
  ASSUME Barrier, OneMalloc
  PROVE  Safe => [](IInv /\ ApiInv)
  <1>1. Init => IInv /\ ApiInv
    BY InitIInv, InitApi
  <1>2. IInv /\ ApiInv /\ [Next]_vars => (IInv /\ ApiInv)'
    BY ApiStep, StepIInv, StepApi
  <1>3. QED  BY <1>1, <1>2, PTL DEF Safe

(***************************************************************************)
(* A pointer is process-independent (memory.h:315): it names the byte that *)
(* was allocated in each process that has it and in each that could be     *)
(* sent it, and the address alone leads back to that byte and to the       *)
(* allocator (test_init.h:76-79), through every order of allocating,       *)
(* moving, passing, freeing, attaching, scanning and unregistering.        *)
(***************************************************************************)
THEOREM PointersAlwaysAgree ==
  ASSUME Barrier, OneMalloc
  PROVE  Safe => []PointersAgree
  <1>1. ASSUME IInv, ApiInv  PROVE PointersAgree
    <2> SUFFICES ASSUME NEW p \in Process, NEW f \in held[p]
                 PROVE  /\ f.ptr \in DOMAIN page
                        /\ ToPtr(p, f.shm) = f.ptr
                        /\ f.ptr[1] \in Region => \A q \in Process :
                             allocators_[q][ToIndex(f.shm.id)] # NoAlloc => ToPtr(q, f.shm) = f.ptr
                        /\ ToPtr(p, ToPointer(p, f.ptr)) = f.ptr
                        /\ ToPointer(p, f.ptr).id[1] = f.shm.id[1]
      BY DEF PointersAgree
    <2> PICK a : a = Home(p, f)
      OBVIOUS
    <2> PICK x : x = f.ptr
      OBVIOUS
    <2>1. /\ x \in DOMAIN page /\ x \in AddressSet /\ ToPtr(p, f.shm) = x
          /\ Owns(p, f.shm.id, a) /\ Within(p, a, x) /\ f.shm = Here(a, x)
          /\ x[1] \in Region => \A q \in Process :
               allocators_[q][ToIndex(f.shm.id)] # NoAlloc => ToPtr(q, f.shm) = x
      BY <1>1, Handled DEF HandleSound
    <2>2. FindNearestAllocator(p, x) = a
      BY <1>1, <2>1, Nearest DEF ApiInv
    <2>3. ToPointer(p, x) = f.shm
      BY <2>1, <2>2 DEF ToPointer, Here
    <2>4. QED  BY <2>1, <2>3
  <1>2. QED  BY <1>1, ApiInductive, PTL

(***************************************************************************)
(* "the amount of memory that was allocated, but not yet freed"            *)
(* (allocator.h:353-354): the count in each shared header is the sum of    *)
(* the pages that its allocator has given out, whichever processes and     *)
(* whichever forms of the calls allocated, moved and freed them; and each  *)
(* object of an array was constructed once (allocator.h:822).              *)
(***************************************************************************)
THEOREM AccountsAlwaysExact ==
  ASSUME Barrier, OneMalloc
  PROVE  Safe => []AccountsExact
  <1>1. ASSUME ApiInv  PROVE AccountsExact
    <2>1. \A x \in DOMAIN page : \A i \in DOMAIN page[x].objs : page[x].objs[i] = 1
      BY <1>1 DEF ApiInv, PagesKnown
    <2>2. ASSUME NEW r \in Region
          PROVE  total_alloc_[r] = SumFunctionOnSet([x \in DOMAIN page |-> page[x].size],
                                                    {x \in DOMAIN page : page[x].arena = r})
      <3> PICK bytes : bytes = PageBytes(page)
        OBVIOUS
      <3> PICK S : S = Out(page, r)
        OBVIOUS
      <3>1. IsFiniteSet(S)
        BY <1>1, FS_Subset DEF ApiInv, ApiTypes, Out
      <3>2. SumFunctionOnSet(bytes, S) = Total(bytes, S)
        BY <3>1, SumIsTotal
      <3>3. total_alloc_[r] = Total(bytes, S)
        BY <1>1 DEF ApiInv, Account, BytesOut
      <3>4. QED  BY <3>2, <3>3 DEF PageBytes, Out
    <2>3. QED  BY <2>1, <2>2 DEF AccountsExact
  <1>2. QED  BY <1>1, ApiInductive, PTL
=============================================================================
