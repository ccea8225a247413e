----------------------------- MODULE AllocatorApi -----------------------------
(***************************************************************************)
(* The allocation interface of BaseAllocator (memory/allocator/allocator.h)*)
(* and the pointers of memory/memory.h, over the MemoryManager: processes  *)
(* allocate raw memory and arrays of objects, pass pointers to each other, *)
(* reallocate and free, while allocators and backends come and go.         *)
(*                                                                         *)
(* What a process holds is a handle: a Pointer (an allocator id and an     *)
(* offset), the address it has there, and a size.  The calls differ in     *)
(* which half they take and return; the program makes the other half with  *)
(* the constructors of FullPtr.  A page is named by the place of its first *)
(* byte after its header; an object has one byte.  Where the allocators    *)
(* over pages put a page is PageAllocator's subject: here, in the first    *)
(* free place.                                                             *)
(*                                                                         *)
(* The program frees what it holds and nobody else holds, drops a pointer  *)
(* before the allocator's unregistering, does not pass a pointer of its    *)
(* own memory, reallocates to a larger size, asks a StackAllocator for no  *)
(* more than it has, and has one MallocAllocator, which takes any address  *)
(* for its own.  MaxPages bounds the pages in use.                         *)
(***************************************************************************)
EXTENDS MemoryManager, FiniteSetsExt, SequencesExt

CONSTANTS Sizes, Hdr, MaxPages

ASSUME ApiAssumption ==
  /\ Sizes \subseteq Nat \ {0}
  /\ {Hdr, MaxPages} \subseteq Nat

VARIABLES
  heap_off_,    \* heap_off_[r]: of the StackAllocator in region r
  total_alloc_, \* total_alloc_[r]: of the allocator that was made in region r
  page,         \* the pages in use: their allocator's region, page_size_, objects
  held          \* held[p]: the handles that p has

apiVars == <<heap_off_, total_alloc_, page, held>>
vars    == <<mmVars, apiVars>>

\* OffsetPointer: a distance from buffer_, a whole address where that is null.
OffsetPointer == ({None} \union Process) \X Nat
Pointer       == [id : AllocatorId, off : OffsetPointer]
FullPtr       == [shm : Pointer, ptr : (Region \union Process) \X Nat, size_ : Nat]

TypeOK ==
  /\ MMTypeOK
  /\ heap_off_ \in [Region -> Nat] /\ total_alloc_ \in [Region -> Int]
  /\ \A x \in DOMAIN page : page[x] \in [arena : Region, size : Nat, objs : Seq(Nat)]
  /\ \A p \in Process : held[p] \subseteq FullPtr

Init ==
  /\ MMInit
  /\ heap_off_ = [r \in Region |-> 0] /\ total_alloc_ = [r \in Region |-> 0]
  /\ page = <<>> /\ held = [p \in Process |-> {}]

-----------------------------------------------------------------------------
(* AllocateOffset of the allocators *)

\* A page of n bytes with its header; the ScalablePageAllocator rounds n up to a size
\* class, or leaves it as it is above the largest (PageId).
Rounded(n) ==
  LET classes == {s \in {1, 2, 4, 8} : s >= n}
  IN  IF classes = {} THEN n ELSE CHOOSE s \in classes : \A t \in classes : s <= t

Whole(a, n) == Hdr + (IF a.kind = "scalable" THEN Rounded(n) ELSE n)

\* page_size_: the MallocAllocator does not count the header.
PageSize(a, n) == IF a.kind = "malloc" THEN n ELSE Whole(a, n)

Bytes(x) == x[2] - Hdr .. x[2] + page[x].size - (IF x[1] \in Region THEN Hdr ELSE 0) - 1

Vacant(r, k, n) == \A x \in DOMAIN page : x[1] = r => Bytes(x) \intersect (k .. k + n - 1) = {}

\* The first of these places with room for n bytes.
Lowest(r, places, n) ==
  {k \in places : Vacant(r, k, n) /\ \A j \in places : j < k => ~Vacant(r, j, n)}

StackPlaces(a, n)     == {k \in {heap_off_[a.region]} : k + Whole(a, n) <= RegionSize}
ScalablePlaces(a, n)  == Lowest(a.region, Shift .. RegionSize - Whole(a, n), Whole(a, n))
MallocPlaces(p, a, n) == Lowest(p, RegionSize .. 2 * RegionSize, Whole(a, n))

\* Where the allocator a puts a page of n bytes when p calls it.
Places(p, a, n) ==
  CASE a.kind = "stack"    -> {Address(a.region, k + Hdr) : k \in StackPlaces(a, n)}
    [] a.kind = "scalable" -> {Address(a.region, k + Hdr) : k \in ScalablePlaces(a, n)}
    [] a.kind = "malloc"   -> {Address(p, k + Hdr) : k \in MallocPlaces(p, a, n)}

\* The heap moves on by the page and its header.
Bumped(a, n) == IF a.kind = "stack" THEN [heap_off_ EXCEPT ![a.region] = @ + Whole(a, n)]
                ELSE heap_off_

\* The allocator that p calls is in its own table.  The root allocator is left to
\* the factories and the sub-allocators to the containers of the main ones.
Callable(p, i) == allocators_[p][i].id[1] > 0 /\ allocators_[p][i].id[2] = 0

-----------------------------------------------------------------------------
(* The handles the calls return, for a page at x of n bytes *)

Here(a, x)        == [id |-> a.id, off |-> ToOffset(a, x)]
ByPointer(p, a, x, n) == [shm |-> Here(a, x), ptr |-> ToPtr(p, Here(a, x)), size_ |-> n]
ByAddress(p, a, x, n) == [shm |-> ToPointer(p, x), ptr |-> x, size_ |-> n]
ByBoth(p, a, x, n)    == [shm |-> Here(a, x), ptr |-> x, size_ |-> n]

\* shm: an offset that is made a pointer; ptr: a pointer that is made an offset.
Handle(p, a, x, n, from) ==
  CASE from = "shm"  -> ByPointer(p, a, x, n)
    [] from = "ptr"  -> ByAddress(p, a, x, n)
    [] from = "both" -> ByBoth(p, a, x, n)

-----------------------------------------------------------------------------
(* ConstructObjs, and how often each of the objects has been constructed *)

BuildAll(objs, old, n) ==      \* ConstructObjs from 0
  [i \in 1 .. n |-> 1 + (IF i <= Len(objs) THEN objs[i] ELSE 0)]

ConstructObjs(objs, old, n) ==
  [i \in 1 .. n |-> (IF i <= Len(objs) THEN objs[i] ELSE 0) + (IF i > old THEN 1 ELSE 0)]

-----------------------------------------------------------------------------
\* The pages of old, and the one that the allocator a puts at x.
WithPage(old, x, a, n, objs) ==
  [y \in old \union {x} |-> IF y = x THEN [arena |-> a.region, size |-> PageSize(a, n), objs |-> objs]
                            ELSE page[y]]

New(p, i, n, objs, from) ==
  LET a == allocators_[p][i]
  IN  /\ CanCall(p) /\ Callable(p, i) /\ Cardinality(DOMAIN page) < MaxPages
      /\ \E x \in Places(p, a, n) :
           /\ page' = WithPage(DOMAIN page, x, a, n, objs)
           /\ held' = [held EXCEPT ![p] = @ \union {Handle(p, a, x, n, from)}]
      /\ heap_off_' = Bumped(a, n)
      /\ total_alloc_' = [total_alloc_ EXCEPT ![a.region] = @ + PageSize(a, n)]
      /\ UNCHANGED mmVars

Allocate(p, i, n)         == New(p, i, n, <<>>, "shm")
AllocatePtr(p, i, n)      == New(p, i, n, <<>>, "ptr")
AllocateLocalPtr(p, i, n) == New(p, i, n, <<>>, "both")
NewObjs(p, i, n)          == New(p, i, n, ConstructObjs(<<>>, 0, n), "ptr")
NewObjsLocal(p, i, n)     == New(p, i, n, ConstructObjs(<<>>, 0, n), "both")

Alone(p, f) == f \in held[p] /\ \A q \in Process \ {p} : \A g \in held[q] : g.ptr # f.ptr

\* The allocator that is to take the handle back, and the two ways to name the page.
Home(p, f)        == allocators_[p][ToIndex(f.shm.id)]
PointerOf(p, f)   == FromOffset(Home(p, f), f.shm.off)
ConvertedOf(p, f) == FromOffset(Home(p, f), ToOffset(Home(p, f), f.ptr))

\* realloc may leave a page of malloc where it is.
Stays(a, x, n) ==
  {y \in {x} : /\ a.kind = "malloc"
              /\ Vacant(y[1], y[2] + page[y].size, n - page[y].size)}

\* ReallocateOffsetNoNullCheck of the page at x: a new page, a copy, the old one
\* freed.
Move(p, f, x, n, objs, from) ==
  LET a   == Home(p, f)
      old == page[x].size
  IN  /\ CanCall(p) /\ Alone(p, f) /\ f.size_ < n /\ old < PageSize(a, n)
      /\ \E y \in Places(p, a, n) \union Stays(a, x, n) :
           /\ page' = WithPage(DOMAIN page \ {x}, y, a, n, objs)
           /\ held' = [held EXCEPT ![p] = (@ \ {f}) \union {Handle(p, a, y, n, from)}]
      /\ heap_off_' = Bumped(a, n)
      /\ total_alloc_' = [total_alloc_ EXCEPT ![a.region] = @ + PageSize(a, n) - old]
      /\ UNCHANGED mmVars

Raw(x) == page[x].objs = <<>>

Reallocate(p, f, n) ==
  LET x == PointerOf(p, f) IN Raw(x) /\ Move(p, f, x, n, <<>>, "shm")

ReallocatePtr(p, f, n) ==
  LET x == ConvertedOf(p, f) IN Raw(x) /\ Move(p, f, x, n, <<>>, "ptr")

ReallocateLocalPtr(p, f, n) ==
  LET x == PointerOf(p, f) IN Raw(x) /\ Move(p, f, x, n, <<>>, "both")

\* size_ is the old_count that the program passes.
ReallocateConstructObjs(p, f, n) ==
  LET x == PointerOf(p, f)
  IN  ~Raw(x) /\ Move(p, f, x, n, ConstructObjs(page[x].objs, f.size_, n), "shm")

ReallocateConstructObjsLocal(p, f, n) ==
  LET x == PointerOf(p, f)
  IN  ~Raw(x) /\ Move(p, f, x, n, ConstructObjs(page[x].objs, f.size_, n), "both")

\* FreeOffsetNoNullCheck of the page at x, which is marked as allocated.
Release(p, f, x) ==
  /\ CanCall(p) /\ Alone(p, f)
  /\ page' = Restrict(page, DOMAIN page \ {x})
  /\ held' = [held EXCEPT ![p] = @ \ {f}]
  /\ total_alloc_' = [total_alloc_ EXCEPT ![page[x].arena] = @ - page[x].size]
  /\ UNCHANGED <<mmVars, heap_off_>>

Free(p, f)         == Raw(f.ptr) /\ Release(p, f, PointerOf(p, f))
FreePtr(p, f)      == Raw(f.ptr) /\ Release(p, f, ConvertedOf(p, f))
DelObjs(p, f)      == ~Raw(f.ptr) /\ Release(p, f, ConvertedOf(p, f))
DelObjsLocal(p, f) == ~Raw(f.ptr) /\ Release(p, f, PointerOf(p, f))

\* A message carries shm_; the receiver makes its FullPtr(shm).
Pass(p, q, f) ==
  /\ CanCall(p) /\ CanCall(q) /\ p # q
  /\ f \in held[p]
  /\ f.ptr[1] \in Region /\ allocators_[q][ToIndex(f.shm.id)] # NoAlloc
  /\ held' = [held EXCEPT ![q] = @ \union {[f EXCEPT !.ptr = ToPtr(q, f.shm)]}]
  /\ UNCHANGED <<mmVars, heap_off_, total_alloc_, page>>

\* A process forgets a pointer that another one also has.
Drop(p, f) ==
  /\ CanCall(p) /\ f \in held[p] /\ ~Alone(p, f)
  /\ held' = [held EXCEPT ![p] = @ \ {f}]
  /\ UNCHANGED <<mmVars, heap_off_, total_alloc_, page>>

Unregister(p, id) ==
  /\ \A f \in held[p] : f.shm.id # id
  /\ UnregisterAllocator(p, id)
  /\ UNCHANGED apiVars

NewStep(p) ==
  \E i \in Index, n \in Sizes :
    \/ Allocate(p, i, n) \/ AllocatePtr(p, i, n) \/ AllocateLocalPtr(p, i, n)
    \/ NewObjs(p, i, n) \/ NewObjsLocal(p, i, n)

MoveStep(p) ==
  \E f \in held[p], n \in Sizes :
    \/ Reallocate(p, f, n) \/ ReallocatePtr(p, f, n) \/ ReallocateLocalPtr(p, f, n)
    \/ ReallocateConstructObjs(p, f, n) \/ ReallocateConstructObjsLocal(p, f, n)

FreeStep(p) ==
  \E f \in held[p] :
    Free(p, f) \/ FreePtr(p, f) \/ DelObjs(p, f) \/ DelObjsLocal(p, f) \/ Drop(p, f)

Next ==
  \/ MMNext /\ UNCHANGED apiVars
  \/ \E p \in Process :
       \/ NewStep(p) \/ MoveStep(p) \/ FreeStep(p)
       \/ \E f \in held[p], q \in Process : Pass(p, q, f)
       \/ \E m \in 1 .. MaxMajor : Unregister(p, <<m, 0>>)

Safe == Init /\ [][Next]_vars

-----------------------------------------------------------------------------
(* Properties *)

(***************************************************************************)
(* A pointer is process-independent (memory.h:315): in every process that  *)
(* has one, however and in whatever order it found the allocator, it is    *)
(* the byte that was allocated, and so it is in every process that could   *)
(* be sent it.  The address alone leads back to the same byte and to the   *)
(* major id of its allocator, as the tests require of the MemoryManager    *)
(* (test/unit/allocators/test_init.h:76-79).                               *)
(***************************************************************************)
PointersAgree ==
  \A p \in Process : \A f \in held[p] :
    /\ f.ptr \in DOMAIN page
    /\ ToPtr(p, f.shm) = f.ptr
    /\ f.ptr[1] \in Region => \A q \in Process :
         allocators_[q][ToIndex(f.shm.id)] # NoAlloc => ToPtr(q, f.shm) = f.ptr
    /\ LET g == ToPointer(p, f.ptr)
       IN  ToPtr(p, g) = f.ptr /\ g.id[1] = f.shm.id[1]

(***************************************************************************)
(* "the amount of memory that was allocated, but not yet freed.  Useful    *)
(* for memory leak checks" (allocator.h:353-354): the count in the shared  *)
(* header is exact whoever allocated, moved or freed, and each object of   *)
(* an array was constructed once, which is what ReallocateConstructObjs's  *)
(* old_count is for ("avoids reconstruction", 822).                        *)
(***************************************************************************)
AccountsExact ==
  /\ \A r \in Region :
       total_alloc_[r] = SumFunctionOnSet([x \in DOMAIN page |-> page[x].size],
                                          {x \in DOMAIN page : page[x].arena = r})
  /\ \A x \in DOMAIN page : \A i \in DOMAIN page[x].objs : page[x].objs[i] = 1
=============================================================================
