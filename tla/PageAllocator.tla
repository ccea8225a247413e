---------------------------- MODULE PageAllocator ----------------------------
(***************************************************************************)
(* The allocators over pages (memory/allocator/): ThreadLocalAllocator and *)
(* ScalablePageAllocator, with the PageId, HeapAllocator, PageAllocator    *)
(* and ScopedTlsAllocator they use.  A region of shared memory is carved   *)
(* into pages by a bump heap; a freed page goes to the free list of its    *)
(* size class and comes back from there.  The thread-local allocator has   *)
(* one set of lists and a small heap per thread id, and hands out the ids. *)
(*                                                                         *)
(* A page is the place of its header in the buffer.  Places before the     *)
(* heaps belong to headers and to the table of the thread ids; the pages   *)
(* of the first local heap reach back into its end (PagesInHeaps).  What   *)
(* the program writes there is left out: the entries that MaxTid threads   *)
(* use are at the front of a table with room for more.                     *)
(*                                                                         *)
(* The steps of one call of the allocator that touch shared state are      *)
(* actions; one operation of a free list is one step, as PageFreeList is   *)
(* about the steps inside.  Thread ids are created and freed under a       *)
(* SpinLock (TicketLock): one step each.  fallback_list_ has no lock in    *)
(* the thread-local allocator: the requests of that kind must not be large *)
(* (Requests), or two calls would race.                                    *)
(* MaxAlloc bounds the calls that allocate, MaxDepth the nesting of scopes.*)
(***************************************************************************)
EXTENDS Integers, Sequences, FiniteSetsExt, SequencesExt

CONSTANTS Thread, Kinds, Requests, MinExp, MaxExp, Hdr, RegionSize, LocalSize,
          MaxTid, MaxDepth, MaxAlloc,
          RegionOff,    \* bytes of the buffer before that of the sub-allocator
          Table,        \* bytes of the sub-allocator's buffer up to the local heaps
          RegionStart   \* and up to the region

\* In the code MinExp is 6, MaxExp 24: the fallback class is no cached class.
ASSUME PageAssumption ==
  /\ Kinds \subseteq {"thread_local", "scalable"}
  /\ {MinExp, MaxExp, Hdr, MaxTid} \subseteq Nat \ {0}
  /\ {RegionSize, LocalSize, MaxDepth, MaxAlloc} \subseteq Nat
  /\ MinExp <= MaxExp
  /\ Requests \in [Kinds -> SUBSET Nat]
  /\ {RegionOff, Table, RegionStart} \subseteq Nat
  /\ Table + MaxTid * (LocalSize + Hdr) <= RegionStart

Tids   == 0 .. MaxTid - 1
NoTid  == MaxTid
NoPage == -1

VARIABLES
  kind,         \* the allocator in use; it never changes
  heap_off_,    \* the bump heap of the region, after the local heaps
  local_off_,   \* local_off_[i]: heap_ of the PageAllocator of thread id i
  tid_heap_, free_tids_,
  page,         \* the headers of the pages carved so far, and their extents
  lists,        \* lists[i][c]: the free pages of class c of thread id i
  total_alloc_,
  tls,          \* tls[t]: the thread id in t's thread-local storage
  ctx,          \* ctx[t]: the thread id in the MemContext of t's scope
  depth,        \* depth[t]: how many scopes t is inside
  pc, req, cur, \* cur[t]: the page the call of t is about
  moving,       \* moving[t]: the page t is reallocating
  held,         \* held[p]: the size the program asked for when it got page p
  allocs        \* how many calls allocated

heaps == <<heap_off_, local_off_>>
ids   == <<tid_heap_, free_tids_, tls>>
scope == <<ctx, depth>>
call  == <<pc, req, cur, moving, allocs>>
vars  == <<kind, heaps, ids, page, lists, total_alloc_, scope, call, held>>

Local == kind = "thread_local"

-----------------------------------------------------------------------------
(* PageId *)

NumCaches == MaxExp - MinExp + 1

Pow2[e \in Nat] == IF e = 0 THEN 1 ELSE 2 * Pow2[e - 1]

Log2Up(n)   == CHOOSE e \in 0 .. n : Pow2[e] >= n /\ \A d \in 0 .. e - 1 : Pow2[d] < n
Log2Down(n) == CHOOSE e \in 0 .. n : Pow2[e] <= n /\ \A d \in e + 1 .. n : Pow2[d] > n

PageIdDown(n) ==               \* PageId with floor instead of ceil
  LET e == Log2Down(n)
  IN  IF e < MinExp THEN [class |-> MinExp, round |-> Pow2[MinExp] + Hdr]
      ELSE IF e > MaxExp THEN [class |-> MaxExp, round |-> n + Hdr]
      ELSE [class |-> e - MinExp, round |-> Pow2[e] + Hdr]

\* The class and the rounded size of a page with n bytes after its header.
\* A class of NumCaches or more is the fallback list.
PageId(n) ==
  LET e == Log2Up(n)
  IN  IF e < MinExp THEN [class |-> MinExp, round |-> Pow2[MinExp] + Hdr]
      ELSE IF e > MaxExp THEN [class |-> MaxExp, round |-> n + Hdr]
      ELSE [class |-> e - MinExp, round |-> Pow2[e] + Hdr]

Cached(id) == id.class < NumCaches

\* The fallback list of the thread-local allocator has no lock.
ASSUME SmallRequests ==
  "thread_local" \in Kinds => \A n \in Requests["thread_local"] : Cached(PageId(n))

-----------------------------------------------------------------------------
TypeOK ==
  /\ kind \in Kinds
  /\ heap_off_ \in Nat /\ local_off_ \in [Tids -> Nat]
  /\ tid_heap_ \in 0 .. MaxTid /\ free_tids_ \in Seq(Tids)
  /\ \A p \in DOMAIN page :
       /\ p \in Nat
       /\ page[p] \in [size : Nat, tid : Tids, allocated : BOOLEAN, extent : Nat]
  /\ lists \in [Tids -> [0 .. MaxExp -> Seq(DOMAIN page)]]
  /\ total_alloc_ \in Int
  /\ tls \in [Thread -> Tids \union {NoTid}] /\ ctx \in [Thread -> Tids \union {NoTid}]
  /\ depth \in [Thread -> 0 .. MaxDepth]
  /\ pc \in [Thread -> {"idle", "list", "local", "global", "mark", "copy", "enqueue"}]
  /\ req \in [Thread -> Nat]
  /\ cur \in [Thread -> DOMAIN page \union {NoPage}]
  /\ moving \in [Thread -> DOMAIN page \union {NoPage}]
  /\ DOMAIN held \subseteq DOMAIN page

Init ==
  /\ kind \in Kinds
  /\ heap_off_ = 0 /\ local_off_ = [i \in Tids |-> 0]
  /\ tid_heap_ = 0 /\ free_tids_ = <<>>
  /\ page = <<>> /\ held = <<>>
  /\ lists = [i \in Tids |-> [c \in 0 .. MaxExp |-> <<>>]]
  /\ total_alloc_ = 0
  /\ tls = [t \in Thread |-> NoTid] /\ ctx = [t \in Thread |-> NoTid]
  /\ depth = [t \in Thread |-> 0]
  /\ pc = [t \in Thread |-> "idle"] /\ req = [t \in Thread |-> 0]
  /\ cur = [t \in Thread |-> NoPage] /\ moving = [t \in Thread |-> NoPage]
  /\ allocs = 0

Goto(t, label) == pc' = [pc EXCEPT ![t] = label]

-----------------------------------------------------------------------------
(* Thread ids *)

TidOf(t) == IF tls[t] # NoTid THEN tls[t]
            ELSE IF ctx[t] # NoTid THEN ctx[t]
            ELSE IF free_tids_ # <<>> THEN Last(free_tids_) ELSE tid_heap_

FreshTid(t) ==                 \* CreateTid that never looks at free_tids_
  /\ tls' = [tls EXCEPT ![t] = IF tls[t] # NoTid THEN tls[t]
                               ELSE IF ctx[t] # NoTid THEN ctx[t] ELSE tid_heap_]
  /\ tid_heap_' = tid_heap_ + (IF tls[t] = NoTid /\ ctx[t] = NoTid THEN 1 ELSE 0)
  /\ UNCHANGED free_tids_

\* The id in the storage of the thread, else the one in the context of the
\* call, else a free one or a new one.
GetOrCreateTid(t) ==
  /\ tls' = [tls EXCEPT ![t] = TidOf(t)]
  /\ \/ (tls[t] # NoTid \/ ctx[t] # NoTid) /\ UNCHANGED <<tid_heap_, free_tids_>>
     \/ /\ tls[t] = NoTid /\ ctx[t] = NoTid
        /\ IF free_tids_ # <<>>
             THEN free_tids_' = Front(free_tids_) /\ UNCHANGED tid_heap_
             ELSE tid_heap_' = tid_heap_ + 1 /\ UNCHANGED free_tids_

\* The constructor of ScopedTlsAllocator.
CreateTls(t) ==
  /\ Local /\ pc[t] = "idle" /\ depth[t] < MaxDepth
  /\ GetOrCreateTid(t)
  /\ ctx' = [ctx EXCEPT ![t] = TidOf(t)]
  /\ depth' = [depth EXCEPT ![t] = @ + 1]
  /\ UNCHANGED <<kind, heaps, page, lists, total_alloc_, call, held>>

KeepTls(t) ==                  \* FreeTls that leaves the id in the storage
  /\ Local /\ pc[t] = "idle" /\ depth[t] > 0
  /\ free_tids_' = Append(free_tids_, TidOf(t))
  /\ depth' = [depth EXCEPT ![t] = @ - 1]
  /\ ctx' = [ctx EXCEPT ![t] = IF depth[t] = 1 THEN NoTid ELSE @]
  /\ UNCHANGED <<kind, heaps, tid_heap_, tls, page, lists, total_alloc_, call, held>>

\* Its destructor.  An outer scope keeps its context.
FreeTls(t) ==
  /\ Local /\ pc[t] = "idle" /\ depth[t] > 0
  /\ free_tids_' = Append(free_tids_, TidOf(t))
  /\ tls' = [tls EXCEPT ![t] = NoTid]
  /\ depth' = [depth EXCEPT ![t] = @ - 1]
  /\ ctx' = [ctx EXCEPT ![t] = IF depth[t] = 1 THEN NoTid ELSE @]
  /\ UNCHANGED <<kind, heaps, tid_heap_, page, lists, total_alloc_, call, held>>

\* The thread id whose lists and local heap a call of t uses.
Mine(t) == IF Local THEN tls[t] ELSE 0

-----------------------------------------------------------------------------
(* AllocateOffset *)

With(f, x, v) == [y \in DOMAIN f \union {x} |-> IF y = x THEN v ELSE f[y]]

Begin(t, n) ==
  /\ pc[t] = "idle" /\ allocs < MaxAlloc
  /\ n \in Requests[kind]
  /\ IF Local THEN GetOrCreateTid(t) ELSE UNCHANGED ids
  /\ req' = [req EXCEPT ![t] = n]
  /\ allocs' = allocs + 1
  /\ Goto(t, "list")
  /\ UNCHANGED <<kind, heaps, page, lists, total_alloc_, scope, cur, held>>

Allocate(t, n) == Begin(t, n) /\ UNCHANGED moving

\* A page is enough if it is in the class, or large enough on the fallback list.
Enough(p, id) == Cached(id) \/ page[p].size >= id.round

FindPage(t) ==
  LET id   == PageId(req[t])
      list == lists[Mine(t)][id.class]
      fits == {i \in 1 .. Len(list) : Enough(list[i], id)}
  IN  /\ pc[t] = "list"
      /\ \/ /\ fits = {}
            /\ Goto(t, IF Local /\ Cached(id) THEN "local" ELSE "global")
            /\ UNCHANGED <<lists, cur>>
         \/ /\ fits # {}
            /\ cur' = [cur EXCEPT ![t] = list[Min(fits)]]
            /\ lists' = [lists EXCEPT ![Mine(t)][id.class] = RemoveAt(list, Min(fits))]
            /\ Goto(t, "mark")
      /\ UNCHANGED <<kind, heaps, ids, page, total_alloc_, scope, req, moving, allocs, held>>

\* A page carved for t at offset p.  The scalable allocator sets page_size_ later.
Carve(t, p) ==
  LET round == PageId(req[t]).round
  IN  /\ page' = With(page, p, [size |-> IF Local THEN round ELSE 0, tid |-> Mine(t),
                                allocated |-> FALSE, extent |-> round])
      /\ cur' = [cur EXCEPT ![t] = p]
      /\ Goto(t, "mark")

-----------------------------------------------------------------------------
(* The heaps.  The sub-allocator owns the buffer from RegionOff on.  The   *)
(* table of the PageAllocators takes the local heaps from it one after the *)
(* other, each behind a header, and the region is what is left.            *)

\* Where a byte of the sub-allocator's buffer is in the whole buffer.
InBuffer(off) == RegionOff + off

\* The offset the sub-allocator gave for the local heap of thread id i.
HeapOff(i) == Table + i * (LocalSize + Hdr) + Hdr

\* AllocateHeap converts that offset with tls_info_.alloc_, the allocator of the
\* whole buffer: the pages begin RegionOff below what was reserved for them.
LocalBase(i) == HeapOff(i)

\* Case 3 converts with the sub-allocator, whose offset it is.
RegionBase == InBuffer(RegionStart)

CarveUnchecked(t) ==           \* AllocateOffset that compares off, not its end
  LET off == local_off_[Mine(t)]
  IN  /\ pc[t] = "local"
      /\ local_off_' = [local_off_ EXCEPT ![Mine(t)] = off + PageId(req[t]).round]
      /\ \/ off > LocalSize /\ Goto(t, "global") /\ UNCHANGED <<page, cur>>
         \/ off <= LocalSize /\ Carve(t, LocalBase(Mine(t)) + off)
      /\ UNCHANGED <<kind, heap_off_, ids, lists, total_alloc_, scope, req, moving,
                     allocs, held>>

\* heap_.AllocateOffset: the offset moves on although the page does not fit.
CarveLocal(t) ==
  LET off  == local_off_[Mine(t)]
      next == off + PageId(req[t]).round
  IN  /\ pc[t] = "local"
      /\ local_off_' = [local_off_ EXCEPT ![Mine(t)] = next]
      /\ \/ next > LocalSize /\ Goto(t, "global") /\ UNCHANGED <<page, cur>>
         \/ next <= LocalSize /\ Carve(t, LocalBase(Mine(t)) + off)
      /\ UNCHANGED <<kind, heap_off_, ids, lists, total_alloc_, scope, req, moving,
                     allocs, held>>

\* SubAllocateOffset, and OUT_OF_MEMORY to the caller if it fails.
CarveGlobal(t) ==
  LET next == heap_off_ + PageId(req[t]).round
  IN  /\ pc[t] = "global"
      /\ heap_off_' = next
      /\ \/ /\ next > RegionSize
            /\ Goto(t, "idle")
            /\ moving' = [moving EXCEPT ![t] = NoPage]
            /\ UNCHANGED <<page, cur>>
         \/ /\ next <= RegionSize
            /\ Carve(t, RegionBase + heap_off_)
            /\ UNCHANGED moving
      /\ UNCHANGED <<kind, local_off_, ids, lists, total_alloc_, scope, req, allocs, held>>

MarkKeepSize(t) ==             \* AllocateOffset that leaves page_size_ as it was
  /\ pc[t] = "mark"
  /\ total_alloc_' = total_alloc_ + PageId(req[t]).round
  /\ page' = [page EXCEPT ![cur[t]].allocated = TRUE,
                          ![cur[t]].size = IF @ = 0 THEN PageId(req[t]).round ELSE @]
  /\ held' = With(held, cur[t], req[t])
  /\ Goto(t, IF moving[t] = NoPage THEN "idle" ELSE "copy")
  /\ UNCHANGED <<kind, heaps, ids, lists, scope, req, cur, moving, allocs>>

\* AddSize and SetAllocated; the scalable allocator writes page_size_ anew.
Mark(t) ==
  /\ pc[t] = "mark"
  /\ total_alloc_' = total_alloc_ + PageId(req[t]).round
  /\ page' = [page EXCEPT ![cur[t]].allocated = TRUE,
                          ![cur[t]].size = IF Local THEN @ ELSE PageId(req[t]).round]
  /\ held' = With(held, cur[t], req[t])
  /\ Goto(t, IF moving[t] = NoPage THEN "idle" ELSE "copy")
  /\ UNCHANGED <<kind, heaps, ids, lists, scope, req, cur, moving, allocs>>

-----------------------------------------------------------------------------
(* FreeOffsetNoNullCheck and ReallocateOffsetNoNullCheck.  The program     *)
(* frees what it holds, so the test for a double free never succeeds.      *)

Release(p) ==
  /\ page' = [page EXCEPT ![p].allocated = FALSE]
  /\ total_alloc_' = total_alloc_ - page[p].size
  /\ held' = Restrict(held, DOMAIN held \ {p})

\* The program has page p, and no call of ReallocateOffset is about it.
Has(p) == /\ p \in DOMAIN held
          /\ \A u \in Thread : moving[u] # p /\ ~(pc[u] = "copy" /\ cur[u] = p)

Free(t, p) ==
  /\ pc[t] = "idle" /\ Has(p)
  /\ Release(p)
  /\ cur' = [cur EXCEPT ![t] = p]
  /\ Goto(t, "enqueue")
  /\ UNCHANGED <<kind, heaps, ids, lists, scope, req, moving, allocs>>

EnqueueTwice(t) ==             \* Free that enqueues its page on two lists
  LET p == cur[t]  c == PageId(page[p].size - Hdr).class
  IN  /\ pc[t] = "enqueue"
      /\ lists' = [lists EXCEPT ![page[p].tid][c] = <<p, p>> \o @]
      /\ Goto(t, "idle")
      /\ UNCHANGED <<kind, heaps, ids, page, total_alloc_, scope, req, cur, moving,
                     allocs, held>>

\* PageAllocator::Free: to the lists of the thread id that carved the page.
Enqueue(t) ==
  LET p == cur[t]
      c == PageId(page[p].size - Hdr).class
  IN  /\ pc[t] = "enqueue"
      /\ lists' = [lists EXCEPT ![page[p].tid][c] = <<p>> \o @]
      /\ Goto(t, "idle")
      /\ UNCHANGED <<kind, heaps, ids, page, total_alloc_, scope, req, cur, moving,
                     allocs, held>>

\* The program asks for more than it had.
Reallocate(t, p, n) ==
  /\ Has(p) /\ n > held[p]
  /\ Begin(t, n)
  /\ moving' = [moving EXCEPT ![t] = p]

\* memcpy of page_size_ bytes less the header, then the old page is freed.
Copy(t) ==
  /\ pc[t] = "copy"
  /\ Release(moving[t])
  /\ cur' = [cur EXCEPT ![t] = moving[t]]
  /\ moving' = [moving EXCEPT ![t] = NoPage]
  /\ Goto(t, "enqueue")
  /\ UNCHANGED <<kind, heaps, ids, lists, scope, req, allocs>>

-----------------------------------------------------------------------------
Step(t) == FindPage(t) \/ CarveLocal(t) \/ CarveGlobal(t) \/ Mark(t) \/ Enqueue(t)
           \/ Copy(t)

Next == \E t \in Thread :
          \/ CreateTls(t) \/ FreeTls(t) \/ Step(t)
          \/ \E n \in Requests[kind] : Allocate(t, n)
          \/ \E p \in DOMAIN held :
               Free(t, p) \/ \E n \in Requests[kind] : Reallocate(t, p, n)

Safe == Init /\ [][Next]_vars

-----------------------------------------------------------------------------
(* Properties *)

Bytes(p) == p .. p + page[p].extent - 1

(***************************************************************************)
(* No two pages overlap, of whatever thread id and heap, although heaps    *)
(* move on after a request that does not fit (heap.h:57-62) and the local  *)
(* ones are entered RegionOff bytes too low (page_allocator.h:99-107): a   *)
(* page lies in the region, or in the LocalSize bytes from the place where *)
(* its thread id enters its heap.                                          *)
(***************************************************************************)
PagesApart ==
  /\ \A p, q \in DOMAIN page : p # q => Bytes(p) \intersect Bytes(q) = {}
  /\ \A p \in DOMAIN page :
       \/ Bytes(p) \subseteq RegionBase .. RegionBase + RegionSize - 1
       \/ LET i == page[p].tid
          IN  Bytes(p) \subseteq LocalBase(i) .. LocalBase(i) + LocalSize - 1

(***************************************************************************)
(* "Can we allocate of thread's heap?" (thread_local_allocator.h:185): a   *)
(* page lies in memory that was reserved for pages, the region or the heap *)
(* of its thread id (page_allocator.h:85-89).  The code breaks this, so it *)
(* is no invariant of a run: the first pages of a local heap lie over the  *)
(* end of the table or over the heap of another thread id.                 *)
(***************************************************************************)
PagesInHeaps ==
  \A p \in DOMAIN page :
    \/ Bytes(p) \subseteq InBuffer(RegionStart) .. InBuffer(RegionStart) + RegionSize - 1
    \/ LET heap == InBuffer(HeapOff(page[p].tid))
       IN  Bytes(p) \subseteq heap .. heap + LocalSize - 1

(***************************************************************************)
(* What the program gets is as large as it asked for, wherever the page    *)
(* came from: small requests look in a class of their own                  *)
(* (page_allocator.h:43-57), the fallback list takes the first fit (130).  *)
(***************************************************************************)
FitsRequest == \A p \in DOMAIN held : held[p] + Hdr <= page[p].extent

(***************************************************************************)
(* "Create a globally-unique thread ID" (thread_local_allocator.h:272): no *)
(* two threads use the lists and the heap of one id, which have no lock    *)
(* for a second consumer, and no id is free that a thread still uses or    *)
(* that is free already.                                                   *)
(***************************************************************************)
Using(t) == {tls[t], ctx[t]} \ {NoTid}

OneThreadPerTid ==
  /\ \A t, u \in Thread : t # u => Using(t) \intersect Using(u) = {}
  /\ \A t \in Thread : Using(t) \intersect ToSet(free_tids_) = {}
  /\ IsInjective(free_tids_)

(***************************************************************************)
(* A page is never handed out twice and never forgotten: it is held and    *)
(* marked allocated, or in the hands of one call, or on one list, which is *)
(* the one of its class and of the thread id that carved it.               *)
(***************************************************************************)
Lists    == Tids \X (0 .. MaxExp)
Where(p) == {l \in Lists : Contains(lists[l[1]][l[2]], p)}
Calls(p) == {t \in Thread : pc[t] \in {"mark", "enqueue"} /\ cur[t] = p}

PageSomewhere ==
  /\ \A p \in DOMAIN page :
       /\ Cardinality(Where(p)) + Cardinality(Calls(p))
            + (IF p \in DOMAIN held THEN 1 ELSE 0) = 1
       /\ page[p].allocated <=> p \in DOMAIN held
       /\ \A l \in Where(p) : l = <<page[p].tid, PageId(page[p].size - Hdr).class>>
  /\ \A l \in Lists : IsInjective(lists[l[1]][l[2]])

(***************************************************************************)
(* Reallocating a page for more bytes copies no more than the new page has *)
(* (thread_local_allocator.h:240): "Reallocate a small page to a       *)
(* larger page" (test/unit/allocators/test_init.h:134).                    *)
(***************************************************************************)
CopyFits ==
  \A t \in Thread : pc[t] = "copy" => page[moving[t]].size <= page[cur[t]].extent

(***************************************************************************)
(* The scalable allocator, which writes page_size_ anew each time a page   *)
(* is taken (scalable_page_allocator.h:141), copies within the page and    *)
(* its count of allocated bytes is exact: the tests read it as a leak      *)
(* check (allocators/allocator.cc).                                        *)
(***************************************************************************)
Live == {p \in DOMAIN page : page[p].allocated}

ScalableExact ==
  kind = "scalable" =>
    CopyFits /\ total_alloc_ = SumFunctionOnSet([p \in DOMAIN page |-> page[p].size], Live)
=============================================================================
