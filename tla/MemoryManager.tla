---------------------------- MODULE MemoryManager ----------------------------
(***************************************************************************)
(* The MemoryManager (memory/memory_manager_.h, memory_manager.h) of each  *)
(* process, with the backends and the allocators it registers.  A backend  *)
(* maps a region that holds a header (the backend's id, whether there is   *)
(* an allocator) and the allocator's header (its type and its id); other   *)
(* processes map a PosixShmMmap region by its url.  An allocator is found  *)
(* in a table at ToIndex() of its id: by CreateAllocator in its creator    *)
(* and by ScanBackends in the processes that attached.                     *)
(*                                                                         *)
(* Each process runs one call at a time.  The regions of RegionSize bytes  *)
(* are numbered in the order of their creation; MaxRegion bounds them.  A *)
(* region stays mapped for good: DestroyBackend runs the trivial destructor*)
(* of the base class MemoryBackend.  An object of class Allocator is the   *)
(* record of what conversions read: a scan makes a second, equal object.   *)
(*                                                                         *)
(* The program keeps to what the tests do: an allocator id is in use for   *)
(* one allocator at a time, a backend gets one allocator, minor ids are    *)
(* 0 (1 is the sub-allocator's).  Barrier is the MPI_Barrier of the tests: *)
(* nobody scans while an allocator is half made.                           *)
(***************************************************************************)
EXTENDS Integers, Sequences, FiniteSets

CONSTANTS Process, Url, Backend, MaxMajor, MaxRegion, RegionSize, Shift, Kinds, Barrier

\* Kinds[m]: the allocators that may get major id m; "scalable" stands for those
\* over pages, which have a sub-allocator.
ASSUME MemoryAssumption ==
  /\ Backend \subseteq Nat \ {0} /\ Process \intersect Int = {}
  /\ {MaxMajor, MaxRegion, RegionSize, Shift} \subseteq Nat /\ Barrier \in BOOLEAN
  /\ Kinds \in [1 .. MaxMajor -> SUBSET {"stack", "scalable", "malloc"}]

-----------------------------------------------------------------------------
(* AllocatorId, and what the program sees of an Allocator *)

AllocatorId == (0 .. MaxMajor) \X {0, 1}
RootId      == <<0, 0>>
SubId(id)   == <<id[1], 1>>
ToIndex(id) == id[1] * 2 + id[2]
Index       == 0 .. 2 * MaxMajor + 1

Region == 1 .. MaxRegion
None   == 0                        \* no region: a null backend or url

\* The region p is p's own memory: root_alloc_data_, and after it what malloc has.
\* base is where buffer_ is in the region; a MallocAllocator has no buffer.
Allocator == [id : AllocatorId, kind : {"stack", "scalable", "malloc"},
              region : Region \union Process, base : {0, Shift}]
NoAlloc   == [id |-> <<-1, -1>>, kind |-> "none", region |-> None, base |-> 0]

RootAlloc(p) == [id |-> RootId, kind |-> "stack", region |-> p, base |-> 0]

VARIABLES
  region,       \* the regions made so far, what their two headers say
  named,        \* named[u]: the region that the url u names
  backends_,    \* backends_[p][b]: the region p mapped, IS_SCANNED of the object
  allocators_,  \* allocators_[p][i]
  default_allocator_,
  making,       \* making[p]: the CreateAllocator that p is inside
  dropped       \* dropped[p]: the regions whose allocator p unregistered

tables  == <<backends_, allocators_, default_allocator_, dropped>>
mmVars  == <<region, named, making, tables>>

NoBackend == [region |-> None, scanned |-> FALSE]
Idle      == [at |-> "idle", alloc |-> NoAlloc]

MMTypeOK ==
  /\ region \in UNION {[1 .. n -> [id : Backend, has_alloc : BOOLEAN,
                                   type : {"none", "stack", "scalable"},
                                   alloc_id : AllocatorId]] : n \in 0 .. MaxRegion}
  /\ named \in [Url -> DOMAIN region \union {None}]
  /\ backends_ \in [Process -> [Backend -> [region : DOMAIN region \union {None},
                                            scanned : BOOLEAN]]]
  /\ allocators_ \in [Process -> [Index -> Allocator \union {NoAlloc}]]
  /\ default_allocator_ \in [Process -> Allocator]
  /\ making \in [Process -> [at : {"idle", "marked", "typed", "ready"},
                             alloc : Allocator \union {NoAlloc}]]
  /\ dropped \in [Process -> SUBSET DOMAIN region]

\* MemoryManager::Init: the root backend is in no table, its allocator is.
MMInit ==
  /\ region = <<>> /\ named = [u \in Url |-> None]
  /\ backends_ = [p \in Process |-> [b \in Backend |-> NoBackend]]
  /\ allocators_ = [p \in Process |-> [i \in Index |-> IF i = ToIndex(RootId)
                                                         THEN RootAlloc(p) ELSE NoAlloc]]
  /\ default_allocator_ = [p \in Process |-> RootAlloc(p)]
  /\ making = [p \in Process |-> Idle]
  /\ dropped = [p \in Process |-> {}]

CanCall(p) == making[p] = Idle

HalfMade(r)  == \E q \in Process : making[q].at \in {"marked", "typed"} /\ making[q].alloc.region = r
MayScan(p)   == Barrier => \A b \in Backend : ~HalfMade(backends_[p][b].region)

-----------------------------------------------------------------------------
(* RegisterAllocatorNoScan *)

\* The main allocator becomes the default one if there is only the root.
FirstDefault(p, old, a) ==
  IF old = RootAlloc(p) /\ a.id[2] = 0 THEN a ELSE old

MajorOnly(table, a) == [table EXCEPT ![a.id[1] * 2] = a]    \* minor id forgotten

Registered(table, a) == [table EXCEPT ![ToIndex(a.id)] = a]

\* A main allocator and the sub-allocator its shm_init or shm_deserialize
\* registers first, which starts Shift bytes after it.
Sub(a) == [a EXCEPT !.id = SubId(a.id), !.kind = "stack", !.base = Shift]

-----------------------------------------------------------------------------
(* ScanBackends: for each backend in turn AllocatorFactory::shm_deserialize,
   which is null while the region's header has no type. *)

Discovered(r) == [id |-> region[r].alloc_id, kind |-> region[r].type,
                  region |-> r, base |-> 0]

ScannedEarly(backends) ==      \* SetScanned before the null test
  {b \in Backend : /\ backends[b].region # None
                   /\ region[backends[b].region].has_alloc}

ToScan(backends) == {b \in Backend : /\ backends[b].region # None
                                     /\ region[backends[b].region].has_alloc
                                     /\ ~backends[b].scanned
                                     /\ region[backends[b].region].type # "none"}

SetScanned(backends) == {b \in Backend : backends[b].scanned} \union ToScan(backends)

Found(backends)  == {Discovered(backends[b].region) : b \in ToScan(backends)}
FoundAll(backends) ==
  Found(backends) \union {Sub(a) : a \in {f \in Found(backends) : f.kind = "scalable"}}

\* Where two backends hold the same id, the later one stays in the table.
Latest(backends, i) ==
  LET S == {b \in ToScan(backends) :
              LET a == Discovered(backends[b].region)
              IN  i = ToIndex(a.id) \/ (a.kind = "scalable" /\ i = ToIndex(SubId(a.id)))}
  IN  Discovered(backends[CHOOSE b \in S : \A c \in S : c <= b].region)

ScanTable(backends, table) ==
  [i \in Index |->
     IF \E a \in FoundAll(backends) : ToIndex(a.id) = i
       THEN LET a == Latest(backends, i) IN IF ToIndex(a.id) = i THEN a ELSE Sub(a)
       ELSE table[i]]

ScanDefault(p, backends, old) ==
  LET S == ToScan(backends)
  IN  IF S = {} THEN old
      ELSE FirstDefault(p, old,
             Discovered(backends[CHOOSE b \in S : \A c \in S : b <= c].region))

\* p scans, when its tables are these and its default allocator is old.
ScanFrom(p, backends, table, old) ==
  /\ backends_' = [backends_ EXCEPT ![p] =
       [b \in Backend |-> [backends[b] EXCEPT !.scanned = b \in SetScanned(backends)]]]
  /\ allocators_' = [allocators_ EXCEPT ![p] = ScanTable(backends, table)]
  /\ default_allocator_' = [default_allocator_ EXCEPT ![p] = ScanDefault(p, backends, old)]
  /\ dropped' = [dropped EXCEPT ![p] = @ \ {a.region : a \in Found(backends)}]

ScanBackends(p) ==
  /\ CanCall(p) /\ MayScan(p)
  /\ ScanFrom(p, backends_[p], allocators_[p], default_allocator_[p])
  /\ UNCHANGED <<region, named, making>>

-----------------------------------------------------------------------------
(* Backends *)

NewRegion(b) ==                \* the program numbers its backends in order
  /\ Len(region) < MaxRegion /\ b <= Len(region) + 1
  /\ region' = Append(region, [id |-> b, has_alloc |-> FALSE, type |-> "none",
                               alloc_id |-> RootId])

\* RegisterBackend throws MEMORY_BACKEND_REPEATED and the table is as before.
Mount(p, b, r) ==
  IF backends_[p][b].region # None THEN UNCHANGED backends_
  ELSE backends_' = [backends_ EXCEPT ![p][b] = [region |-> r, scanned |-> FALSE]]

\* PosixShmMmap::shm_init unlinks the url first.  The region is made and named
\* although RegisterBackend then refuses the id.
CreateBackend(p, u, b) ==
  /\ CanCall(p)
  /\ NewRegion(b)
  /\ named' = [named EXCEPT ![u] = Len(region')]
  /\ Mount(p, b, Len(region'))
  /\ UNCHANGED <<making, allocators_, default_allocator_, dropped>>

\* PosixMmap, MallocBackend, ArrayBackend: nobody else can attach.
CreatePrivateBackend(p, b) ==
  /\ CanCall(p)
  /\ NewRegion(b)
  /\ Mount(p, b, Len(region'))
  /\ UNCHANGED <<named, making, allocators_, default_allocator_, dropped>>

\* AttachBackend throws if nothing has the url or the id is taken.
AttachBackend(p, u) ==
  LET r == named[u]
      b == region[r].id
  IN  /\ CanCall(p) /\ MayScan(p) /\ (Barrier => ~HalfMade(r))
      /\ r # None /\ backends_[p][b].region = None
      /\ ScanFrom(p, [backends_[p] EXCEPT ![b] = [region |-> r, scanned |-> FALSE]],
                  allocators_[p], default_allocator_[p])
      /\ UNCHANGED <<region, named, making>>

DestroyBackend(p, b) ==
  /\ CanCall(p) /\ backends_[p][b].region # None
  /\ backends_' = [backends_ EXCEPT ![p][b] = NoBackend]
  /\ UNCHANGED <<region, named, making, allocators_, default_allocator_, dropped>>

-----------------------------------------------------------------------------
(* Allocators *)

InUse(id) ==
  \E p \in Process :
    \/ allocators_[p][ToIndex(id)] # NoAlloc
    \/ making[p].alloc.id = id
    \/ \E b \in Backend : /\ backends_[p][b].region # None
                          /\ region[backends_[p][b].region].has_alloc
                          /\ region[backends_[p][b].region].alloc_id = id
    \/ \E u \in Url : /\ named[u] # None /\ region[named[u]].has_alloc
                      /\ region[named[u]].alloc_id = id

\* CreateAllocator(backend_id, alloc_id): SetHasAlloc comes first.
CreateAllocator(p, b, id, kind) ==
  LET r == backends_[p][b].region
  IN  /\ CanCall(p)
      /\ r # None /\ ~region[r].has_alloc
      /\ id[1] > 0 /\ id[2] = 0 /\ ~InUse(id)
      /\ region' = [region EXCEPT ![r].has_alloc = TRUE]
      /\ making' = [making EXCEPT ![p] =
           [at |-> "marked",
            alloc |-> [id |-> id, kind |-> kind, region |-> r, base |-> 0]]]
      /\ UNCHANGED <<named, tables>>

\* AllocatorHeader::Configure writes the type and then the id.  An allocator over
\* pages has made and registered its sub-allocator by then.
ConfigureType(p) ==
  LET a == making[p].alloc
  IN  /\ making[p].at = "marked" /\ a.kind # "malloc"
      /\ region' = [region EXCEPT ![a.region].type = a.kind]
      /\ allocators_' = [allocators_ EXCEPT
           ![p] = IF a.kind = "scalable" THEN Registered(@, Sub(a)) ELSE @]
      /\ making' = [making EXCEPT ![p].at = "typed"]
      /\ UNCHANGED <<named, backends_, default_allocator_, dropped>>

ConfigureId(p) ==
  LET a == making[p].alloc
  IN  /\ making[p].at = "typed"
      /\ region' = [region EXCEPT ![a.region].alloc_id = a.id]
      /\ making' = [making EXCEPT ![p].at = "ready"]
      /\ UNCHANGED <<named, tables>>

\* The header of a MallocAllocator is outside the region, which stays untyped.
ConfigureMalloc(p) ==
  /\ making[p].at = "marked" /\ making[p].alloc.kind = "malloc"
  /\ making' = [making EXCEPT ![p].at = "ready"]
  /\ UNCHANGED <<region, named, tables>>

\* RegisterAllocator: the scan finds the new allocator's own backend too.
RegisterAllocator(p) ==
  LET a == making[p].alloc
  IN  /\ making[p].at = "ready"
      /\ MayScan(p)
      /\ ScanFrom(p, backends_[p], Registered(allocators_[p], a),
                  FirstDefault(p, default_allocator_[p], a))
      /\ making' = [making EXCEPT ![p] = Idle]
      /\ UNCHANGED <<region, named>>

Unregistered(p, id) ==
  LET a == allocators_[p][ToIndex(id)]
  IN  /\ allocators_' = [allocators_ EXCEPT ![p][ToIndex(id)] = NoAlloc]
      /\ dropped' = [dropped EXCEPT ![p] = @ \union {a.region}]

KeepDefault(p, id) ==          \* UnregisterAllocator without the first test
  /\ CanCall(p) /\ id # RootId /\ allocators_[p][ToIndex(id)] # NoAlloc
  /\ Unregistered(p, id)
  /\ UNCHANGED <<region, named, making, backends_, default_allocator_>>

\* DestroyAllocator too.  The sub-allocator's entry stays.
UnregisterAllocator(p, id) ==
  /\ CanCall(p) /\ id # RootId /\ allocators_[p][ToIndex(id)] # NoAlloc
  /\ Unregistered(p, id)
  /\ default_allocator_' = [default_allocator_ EXCEPT
       ![p] = IF @.id = id THEN RootAlloc(p) ELSE @]
  /\ UNCHANGED <<region, named, making, backends_>>

\* The program names an allocator it made or found.
SetDefaultAllocator(p, id) ==
  /\ CanCall(p) /\ id[2] = 0 /\ allocators_[p][ToIndex(id)] # NoAlloc
  /\ default_allocator_' = [default_allocator_ EXCEPT ![p] = allocators_[p][ToIndex(id)]]
  /\ UNCHANGED <<region, named, making, backends_, allocators_, dropped>>

MMNext ==
  \E p \in Process :
    \/ ScanBackends(p)
    \/ ConfigureType(p) \/ ConfigureId(p) \/ ConfigureMalloc(p) \/ RegisterAllocator(p)
    \/ \E u \in Url : AttachBackend(p, u) \/ \E b \in Backend : CreateBackend(p, u, b)
    \/ \E b \in Backend :
         \/ CreatePrivateBackend(p, b) \/ DestroyBackend(p, b)
         \/ \E m \in 1 .. MaxMajor : \E kind \in Kinds[m] : CreateAllocator(p, b, <<m, 0>>, kind)
    \/ \E m \in 1 .. MaxMajor : SetDefaultAllocator(p, <<m, 0>>)

-----------------------------------------------------------------------------
(* Convert *)

\* An address is a region and a byte of it; an offset is what is left of one when
\* buffer_ is taken away, which is all of it for a MallocAllocator (buffer_ is null).
Address(r, k) == <<r, k>>

FromOffset(a, off)  == IF a.kind = "malloc" THEN off ELSE <<a.region, a.base + off[2]>>
ToOffset(a, addr)   == IF a.kind = "malloc" THEN addr ELSE <<None, addr[2] - a.base>>
ContainsPtr(a, addr) == a.kind = "malloc" \/ (/\ a.region = addr[1]
                                              /\ addr[2] \in a.base .. RegionSize - 1)

\* MemoryManager::Convert(Pointer)
ToPtr(p, shm) == FromOffset(allocators_[p][ToIndex(shm.id)], shm.off)

\* The first allocator with a buffer around the address, else the last one
\* without a buffer: malloc's size is no less than the range it is compared with.
FindNearestAllocator(p, addr) ==
  LET S == {i \in Index : /\ allocators_[p][i] # NoAlloc
                          /\ ContainsPtr(allocators_[p][i], addr)}
      bounded == {i \in S : allocators_[p][i].kind # "malloc"}
  IN  IF S = {} THEN NoAlloc
      ELSE IF bounded # {}
        THEN allocators_[p][CHOOSE i \in bounded : \A j \in bounded : i <= j]
        ELSE allocators_[p][CHOOSE i \in S : \A j \in S : j <= i]

\* MemoryManager::Convert(T *)
ToPointer(p, addr) ==
  LET a == FindNearestAllocator(p, addr) IN [id |-> a.id, off |-> ToOffset(a, addr)]

-----------------------------------------------------------------------------
(* Properties *)

(***************************************************************************)
(* "the allocator used by default when no allocator is used to construct   *)
(* an object" (memory_manager_.h:255-257) is one the process can find by   *)
(* its id: the root, or what GetAllocator returns.  Attaching, scanning    *)
(* and creating set it on the way; unregistering must take it back         *)
(* (memory_manager_.h:228-230).                                            *)
(***************************************************************************)
DefaultUsable ==
  \A p \in Process :
    allocators_[p][ToIndex(default_allocator_[p].id)] = default_allocator_[p]

(***************************************************************************)
(* A backend that later scans pass over (memory_manager.h:240) is one      *)
(* whose allocator the process has, unless it unregistered it: an          *)
(* allocator that was made after the backend was attached is still found   *)
(* by the next scan.                                                       *)
(***************************************************************************)
ScannedIsRegistered ==
  \A p \in Process, b \in Backend :
    LET r == backends_[p][b].region
    IN  backends_[p][b].scanned =>
          \/ r \in dropped[p]
          \/ allocators_[p][ToIndex(region[r].alloc_id)] = Discovered(r)
=============================================================================
