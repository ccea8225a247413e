# hermes_shm in TLA+

hermes_shm is a C++ library of data structures that live in memory shared by
threads and processes. What makes it hard is not size but words that several
threads change without a lock: ticket locks, rings and lists whose every step is
an atomic access, and allocators that give a page to whoever asks next. This
directory holds models of that core, the TLC runs that check them and the proofs
that TLAPS checks. Paths are relative to `src/include/hermes_shm/` unless they
begin with `test/`, `benchmark/` or `src/`.

## 1. The system

| Part | State | Operations | Touched by | Modelled in |
|---|---|---|---|---|
| `Mutex`, `SpinLock` (`thread/lock/`) | `lock_`, `head_`, `try_lock_`; `is_locked_` of each guard | Lock, TryLock, Unlock | any thread; allocators, `ticket_queue`, `dynamic_queue`, singletons | TicketLock |
| `RwLock` (`thread/lock/rwlock.h`) | `mode_`, `readers_`, `writers_`, `cur_writer_`, `ticket_` | ReadLock, ReadUnlock, WriteLock, WriteUnlock, UpdateMode | any thread | RwLock |
| ring queues (`data_structures/ipc/ring_queue.h`, `ring_ptr_queue.h`) | `head_`, `tail_`, vector of (ready bit, value) | emplace, pop, pop(), peek, pop_back, resize | producers and one consumer; `ticket_queue`, `split_ticket_queue`, `dynamic_queue` | RingQueue, ExtRingBuffer |
| `mpsc_lifo_list_queue` | `tail_shm_`, links in the entries, `count_` | enqueue, dequeue | threads that free a page, the thread that allocates | PageFreeList |
| `spsc_fifo_list_queue` | `head_shm_`, `tail_shm_`, `head_`, `tail_`, links | enqueue, dequeue | one producer, one consumer | SpscListQueue |
| page allocators (`memory/allocator/`: thread-local, scalable, page, heap) | bump offsets, page headers, free list per size class (and per thread id), free ids, thread-local slot | AllocateOffset, FreeOffset, ReallocateOffset, CreateTls, FreeTls | every container | PageAllocator |
| other allocators (stack, malloc) behind `BaseAllocator` | a bump offset, or none; total of allocated bytes | allocate, reallocate, free, construct, in three pointer forms | every process | AllocatorApi |
| `MemoryManager`, backends, allocator headers (`memory/`) | table of backends, table of allocators, default allocator; in each region the headers' flags and ids | create, attach, scan, destroy; create, register, unregister; convert pointers | each process, and all of them through the regions | MemoryManager |
| `ticket_queue`, `split_ticket_queue` | a ring or rings, each under a mutex; `rr_head_`, `rr_tail_` | emplace, pop | any thread | SplitTicketQueue, QueueContainers |
| `dynamic_queue`, `key_set` | a list and counters under a mutex; a heap of keys and a ring | emplace, pop; emplace, erase | any thread; one thread | DynamicQueue, KeySet |
| containers (list, slist, list queues, vector, string, unordered_map, pair, tuple, chararr) | shared-memory nodes, buffers and counters | the usual ones, copy, move, save, load | one thread at a time | Containers and one module per type |
| `local_serialize`, container base | a sequence of bytes and a position | `<<`, `>>`; destroy | | LocalSerialize |
| thread models, thread-local keys | key of a slot | CreateTls, SetTls, GetTls | allocators | the slot, in PageAllocator |
| atomics, bit fields | a word | load, store, fetch_add, CAS | everything | as the single steps of the models |
| `TestAllocator`, GPU allocator and backends | | | | no: mostly commented out; need a device |
| lightbeam (ZeroMQ, libfabric, thallium) | handles of a library | connect, send, poll | | no: calls of libraries |
| configuration, logging, compression, encryption, timers | | | | no: I/O and library calls |
| introspection, solver | | | | no: OS queries, floating point |

How they meet. An allocation goes from a container through the allocator of its
pointer to a `PageAllocator`, which takes a page from an
`mpsc_lifo_list_queue` (its consumer, under a `Mutex` if threads share it) or
carves one off a bump heap. A free goes straight to the list of the thread id
written in the page's header, from any thread. Thread ids are drawn and given
back under a `SpinLock`. A `ticket_queue` wraps a ring in a `Mutex` and a
`split_ticket_queue` is several of them. A pointer in shared memory is the id of an
allocator and an offset; each process looks the id up in its own `MemoryManager`,
which learnt it by creating the allocator or by scanning the backends it attached.

### What is hard, and what makes each part correct

* **Locks.** Tickets drawn, spinning, and release are separate atomics; TryLock
  reads two words in unspecified order and acts later; UpdateMode acts on a count
  that is old. Correct: exclusion, no ticket lost (a lost one blocks everybody
  for good), service in ticket order, progress.
* **Rings.** A producer loads `head_`, draws a ticket, waits or gives it back,
  writes and marks ready, in four steps that others interleave with. Correct: every
  accepted value leaves once, in ticket order; none is lost; nobody waits for room
  that was made.
* **Free lists.** CASes compare pointers to pages that are used again and again
  (ABA); the counter lags behind the list. Correct: no page handed out twice or
  lost, the chain never broken, some call always gets through.
* **Allocators.** Size classes at their ends, requests that do not fit and move
  the heap on anyway, pages freed by another thread than carved them, ids reused
  while pages of the former owner live, a reallocation that trusts an old size.
  Correct: pages disjoint and large enough, one thread per id, each page in one
  place.
* **Split queues.** A call visits the splits one at a time while others move tickets
  behind its back. Correct: a pop that gives up missed no ticket that was there all
  along, an emplace that gives up no room.
* **Memory manager.** Processes attach, create and scan in any order; each has its
  own tables of the same allocators. Correct: a scan that passes over a backend for
  good has registered its allocator; the default allocator is one of the table; a
  pointer means the same bytes to everybody; the total of allocated bytes is exact.
* **Containers.** Long sequences of inserts, erases, moves between allocators and
  loads, in which a wrong link or a forgotten buffer shows calls later. Correct: an
  object holds what its calls promised, and every allocated node or buffer belongs to
  one object.

PROJECT.json lists the hazards with their lines and the property that covers each.

## 2. The modules

Every concurrent module takes the same view of the code: **one action is one
access to shared memory**, and the locals of a call are variables indexed by
thread. Threads execute in program order on a sequentially consistent memory; a
weaker memory model is not represented (the ready bit of a ring slot is a plain
word, which is listed as a hazard). `compare_exchange_weak` may fail spuriously
(`types/atomic.h:530`), an action of its own.

**Threads**. The set of threads and `pc`, which the two locks and the free list of pages
share; what else they define has names of its own (`MutexSpec`, `PagesSpec`), so that
the proofs can be about all three.

**FcfsLock** (abstract). A client asks, is queued behind those who asked before,
enters when nobody is ahead, leaves. What a ticket lock promises.

**TicketLock** (`mutex.h`, and `spin_lock.h`, which has the same steps).
`Lock` (the guard's early return) and `Draw`; `Acquire` is the load of `head_` that
leaves the spin loop; `TryLock`, `LoadOperand`, `Compare`, `TryUndo`, `TryEnter`
are the fetch_add on the gate, the two loads of the comparison in either order,
the fetch_sub and the call of Lock; `Unlock` is `head_.fetch_add(1)`. The
refinement mapping makes a thread with a ticket wait behind the threads with a
smaller one.

**RwLock** (`rwlock.h`). Per access: counter up, mode load, CAS to the mode
wanted, UpdateMode's load of mode and counter and its CAS back to `kNone`, the
writer's reload and comparison of its ticket with `cur_writer_`, both unlocks.
`cur_writer_` is taken modulo `RegWidth` (2^32 in the code), the ticket is not.

**ReservationQueue** (abstract). A bounded queue in which a place is reserved
first and filled later; values leave from the front, filled, in the order of the
reservations. What a ring promises.

**RingQueue** (`ring_queue.h`, `ring_queue_flags.h`, `ring_ptr_queue.h`). `kind` is
the queue type: which of WaitForSpace, ErrorOnNoSpace and DynamicResize its flags
have, whether a slot is a pair or a word with the bit inside, and whether several
threads are in a call at once. The producer goes LoadHead, DrawTicket, then
AwaitRoom or Undo if the ring looks full, WriteSlot, MarkReady; the consumer Call,
LoadTail, TestReady, MoveValue, ClearReady, Advance. **ExtRingBuffer** adds the
resize, one action because that queue is not thread-safe.

**PageFreeList** (`mpsc_lifo_list_queue.h` as `page_allocator.h:109-153` uses it).
Enqueue is lock-free, Dequeue holds the mutex when `MPMC`, and otherwise has one
consumer. `stack` is a history variable: what the list should be.

**SpscListQueue** (`spsc_fifo_list_queue.h`). Plain words, one producer, one
consumer.

**PageAllocator** (`page_allocator.h`, `heap.h`, `thread_local_allocator.h`,
`scalable_page_allocator.h`, the scope of `allocator.h:1270`). `kind` picks the
allocator. A call of AllocateOffset goes Begin, FindPage, CarveLocal, CarveGlobal,
Mark, each ending early as the code does; FreeOffset goes Free, Enqueue;
ReallocateOffset is an allocation followed by Copy and Enqueue. One step of a free
list or of the id table is one action here, because PageFreeList and TicketLock are
about what happens inside. `held[p]` remembers what the program asked for;
`extent` what was carved, while `size` is the `page_size_` of the header.
A page is a place in the allocator's buffer, and the heaps are laid out in it as
shm_init does: from `RegionOff` on the buffer is the sub-allocator's, which gave out
`Table` bytes up to the end of the table of PageAllocators, then a local heap behind a
header for each thread id, and from `RegionStart` on is the region. An offset is
turned into a place as the code does: the region's by the sub-allocator (`InBuffer`), a
local heap's by the allocator of the whole buffer, `RegionOff` too low (`LocalBase`, the
finding of `page_allocator.h:103`). Pages of the first local heap therefore lie over the end of
the table. What the program overwrites there is not represented: `MaxTid` is the number
of ids in use, whose entries are at the front of a table that has 1024 by default.

**SplitTicketQueue** (`split_ticket_queue.h`, `ticket_queue.h`). One action is one call
of a split from Lock to Unlock; the mutex inside is TicketLock and the ring RingQueue.
Emplace and Pop draw the round robin number (taken modulo `RrWidth`, 2^16 in the
code), EmplaceAt and PopAt try the next split, TryNext and Return go on or give up.
`stayed[t]` and `roomy[t]` remember what has been true since the call of t began.

**MemoryManager** (`memory_manager_.h`, `memory_manager.h`, the backends, the allocator
headers, `allocator_factory.h`). Regions with their two headers are shared; the tables
`backends_`, `allocators_`, `default_allocator_` are one per process. One action is
one call, and CreateAllocator two, as it sets the flag before it fills in the header.
**AllocatorApi** composes it with the interface of `BaseAllocator`
(`allocator.h`) and the pointers of `memory.h`: processes allocate, share, convert,
reallocate and free while allocators and backends come and go. A handle is what a
process knows of a page, its `Pointer` and its address.

**Containers** holds what the container modules share: `content`, the history of what
the calls promised, and `heap`, laid out by the module of the `kind`. One action is
one call of the container, with all the calls it makes inside; a promise is stated
apart from the heap, in terms of sequences, so that the two can disagree.

| Module | Of | Models |
|---|---|---|
| **LinkedEntries** | `list.h`, `slist.h`, `lifo_list_queue.h` | entries, links, iterators |
| **List**, **SList**, **LifoListQueue** | the same | their calls on the links |
| **EntryQueues** | `mpsc_lifo_list_queue.h`, `spsc_fifo_list_queue.h` | the same queues as PageFreeList and SpscListQueue, with peek and clear, for one thread |
| **Vector**, **String** | `vector.h`, `string.h` (and charwrap) | buffers, growth, shifting, iterators; the small-string and wrapping forms |
| **UnorderedMap** | `unordered_map.h` | buckets, iteration over the empty ones; copy assignment and copy construction, which differ |
| **DynamicQueue**, **KeySet** | `dynamic_queue.h`, `key_set.h` | a list with tokens; keys that come back and a set that grows |
| **QueueContainers** | the four ring queues | construction, copy, move, resize, destruction |
| **Pair** | `pair.h`, `tuple_base.h` | two strings as parts |
| **CharArr** | `chararr.h` | characters in place |
| **LocalSerialize** | `local_serialize.h`, `serialize_common.h` | a sequence of words that is written at its end and read from its start |

A move is the move assignment in all of them. A move construction within one allocator
has the effect of an assignment to an empty object; between two allocators the code works
on fields that nothing has set (the finding of `vector.h:424`), and there is no model
of it. The copy construction of a map, `CopyConstruct`, starts from a `length_` that is
whatever the memory held (the finding of `unordered_map.h:253`).

**ListObjects** is the objects of the classes list and slist alone, which the proofs
about them need; MCContainers adds the other classes to it and chooses one by `kind`.

## 3. The runs

Bounds are the constants of each `.cfg`. They are enough because the hazards need
few actors: two threads for every stale value, a third to take the place of one
that undid or lost; rings of one and two slots, so that each run wraps; and as many
calls as it takes to come round twice.

| Run | Bounds | Shows |
|---|---|---|
| `ticket_lock` | 3 threads, 4 tickets | MutualExclusion, NoOrphanTicket, GateHolds, EveryTicketServed; refines FcfsLock with its fairness |
| `rwlock` | 3 threads, 2 writers' tickets, width 4 | WriterExclusion, CountsExact, WriterHasTurn, WritersInOrder (refines FcfsLock), SomebodyGetsIn |
| `rwlock_mix` (violation) | 2 threads | ReadersExcludeWriters fails: a reader and a writer inside |
| `ring` | 2 producers, 2 values each, 1 and 2 slots, five kinds | PoppedInOrder, QuiescentExact, PeekStable, refines ReservationQueue, EmplaceReturns, EventuallyPopped |
| `ring_fixed_mpsc` (violation) | 2 producers, 3 values, 2 slots | QuiescentExact fails when a failed emplace gives back a ticket that is not the last |
| `ring_resize` (violation) | 1 producer | ResizeKeepsAll fails: the value that made the queue grow is lost |
| `page_list` | 3 threads, 2 consumers, 2 pages | ListIsStack, PageInOnePlace, CountExact, SomebodyGetsThrough |
| `spsc_list` (violation) | 3 values | HoldsTheRest fails: enqueue behind an entry that leaves |
| `allocators` | 2 threads, 3 allocations, classes 2, 4, 8 bytes | PagesApart, FitsRequest, OneThreadPerTid, PageSomewhere, ScalableExact |
| `split_queue` | 3 threads, 2 tickets, 3 splits of 1 slot, width 4 | TicketInOnePlace, PopMissesNothing, RefusedWhenFull |
| `memory` | 2 processes, 1 url, 2 backend ids, 2 regions of 6 bytes, 2 major ids, 1 page | DefaultUsable, ScannedIsRegistered, PointersAgree, AccountsExact |
| `containers` | 2 objects, 2 values, 3 values in all, 20 kinds | ContentsKept, MemoryOwned, BothWays |

Deadlock is checked in `rwlock` and `page_list`. The other runs bound the number of
calls and stop when they are used up, or are about a program that may stop.

The five kinds of `ring` are those whose contract the code keeps: the waiting
queue of many producers, the fixed queue of one producer, the queue of words, and
the fixed and the waiting queue with one thread at a time, with pop_back. The
fixed queue of several producers and the extensible one have runs that fail; the
circular ones promise no order that is written down.

`allocators` scales the sizes down. In the code a request below 2^6 bytes gets
class 6 and one above 2^24 the fallback list; with three classes of 2, 4 and 8
bytes a request of 1 is below all of them and one of 9 above, and the class a
small request gets (`MinExp`, here 1) is again one of the cached ones, as 6 is in
the code. Heap and region are so small that the local heap overflows into the
region and the region runs out within three allocations. `RegionOff` (2) is smaller than
a local heap, so that pages of one id reach into the memory reserved for the one before
and those of the first over the table. With four allocations (7.5
million states, minutes instead of seconds) the invariants hold too. The two threads
are symmetric, which is sound because the run has no liveness.

`split_queue` has three splits because the first and the last of a scan are the ends
and a split in between is where a ticket could hide; a width of 4 is no multiple of 3,
so that the counters wrap in the middle of a round, as 2^16 does with 3 splits. Two
tickets are enough for one to be taken behind a scan while another is put ahead of it.
The threads and the tickets are symmetric; the two history properties are action
properties, with which symmetry is sound.

`memory` gives major id 1 to an allocator with a sub-allocator (whose entry in the
table is the odd one) and 2 to a stack or a malloc allocator, in regions where one page
of 1 or 2 bytes with a header of 1 fits before and after the shift between header and
buffer. Two regions are what it takes to replace a backend of a url that another
process still has. With two pages the run is minutes long and finds nothing more.
`Barrier` is the `MPI_Barrier` of the tests between the creation of an allocator and
the other processes' scans: without it ScannedIsRegistered fails in six steps (the
finding of `memory_manager.h:296`).

`containers` walks through every sequence of calls on two objects that hold three
values together (pairs: fewer than three characters), with vectors of ring slots of
depth 1 and 2, two splits, strings that are in place up to 1 character and character
arrays of 2. Three values are the least with which an inner element exists, and each
kind comes back to the states it started from, so that the sequences are not bounded
in length. Each object may have an allocator of its own, for the moves that become
copies. The calls that break a promise are in the modules and are switched on by a
constant that names the kinds that make them: `Fronts` (emplace_front; only slist's is
right), `Middles` (emplace before an inner entry of list and slist), `Overwrites` (a move
or copy over an object with contents, of strings, vectors, maps and rings, or the
construction of a map over memory that does not hold the right `length_`), `Shrinks`
(resize of a vector within its capacity, or of a ring below its entries) and `ReUse`
(pushing to a list queue or a dynamic queue that was moved from). With the kind added
to its constant (for a `ring_queue` that shrinks, to `Overwrites` too) the run violates
ContentsKept, MemoryOwned or BothWays; the findings say why.

### Fairness

`Step` of a thread inside a call is weakly fair: the operating system schedules
threads. Critical sections end (weak fairness of `Unlock`), nobody is made to call
anything, and a weak CAS does not fail spuriously for ever (strong fairness of the
CAS actions). In RingQueue the consumer polls, as the tests' consumers do
(`test/unit/data_structures/containers/queue.h:138`), so `Pop` is called again and
again whatever else is called. In PageFreeList the mutex is fair, which TicketLock
shows.

### Findings

PROJECT.json has each of them with its line and the words of the repository that it
disagrees with. Four have a run that fails: `rwlock.h:165`, `ring_queue.h:228`
and `:234`, `spsc_fifo_list_queue.h:240`. With PagesInHeaps among its invariants
`allocators` fails at the first page of a local heap (`page_allocator.h:103`). Without
the barrier of the tests one more does,
`memory_manager.h:296`, for which the constant `Barrier` of `memory` is there. The
others are one-thread matters that a unit test shows, met while modelling:

* locks and rings: a successful TryLock that shuts its gate for good (`mutex.h:59`),
  the word that `pop()` leaves marked (`ring_ptr_queue.h:295`);
* allocators: local heaps that are entered `region_off` too low (`page_allocator.h:103`),
  the reallocation that copies more than the new page has
  (`thread_local_allocator.h:240`, `stack_allocator.h:147`), the free-list class of small
  requests (`page_allocator.h:50`), the free ids of `test_allocator.h:50`;
* memory manager: the bound of its table (`memory_manager_.h:207`), a repeated backend
  (`:96`), what unregistering leaves behind (`:226`), what DestroyBackend does not
  free (`memory_manager.h:224`), one allocator per backend only (`:284`), the nearest
  allocator of an address (`memory_manager_.h:326`), IsNull of a pointer
  (`memory.h:370`), the result of Reallocate (`allocator.h:416`);
* containers: the copy constructors of a map, which count nothing (`unordered_map.h:253`),
  the move constructors between allocators (`vector.h:424`, `unordered_map.h:322`,
  `string.h:305`, `list.h:331`, `slist.h:348`), insertion at the front and
  before an inner entry (`list.h:392`, `:404`), resize of a vector and of a chararr (`vector.h:493`, `chararr.h:46`), vector iterators
  (`vector.h:111`), the move assignments of a string and of a vector (`string.h:279`,
  `vector.h:421`), a map that never grows (`unordered_map.h:383`), key sets
  (`key_set.h:86`), copies and moves of the ring queues (`ring_queue.h:116`, `:190`), of
  the list queues (`mpsc_lifo_list_queue.h:111`) and of `dynamic_queue.h:154`;
* `introspect/system_info.cc:266`, `util/singleton.h:39`, `types/bitfield.h:138`.

## 4. The proofs

TLAPS checks each of them for every value of the constants that the modules'
assumptions allow: threads are a finite set (to be counted), bounds are naturals.

* **LockProofs**, three parts. Of the mutex: `MutexTypeCorrect`, `MutexExclusion`,
  `NoneOrphan`, `GateSound`, and `Refinement`, the safety half of the refinement of
  FcfsLock. The inductive invariant adds to the properties that active threads hold
  different tickets between `head_` and `lock_` and the holder the ticket `head_`:
  exclusion alone does not say why a thread that sees its ticket is alone. The gate needs
  a count of the threads inside it, since `try_lock_` stays positive under one thread's
  decrement only because of the others.
  Of RwLock: `Exclusion`, `TurnKept`, `CountsRight`, `OrderOfWriters`, for every
  width of `cur_writer_`. The mode plays no part in the argument, which is why stale
  resets cannot break it: the threads with a ticket have different ones, and the writer
  inside, until it moves `cur_writer_` on, has the one that `cur_writer_` shows. The
  counters need the cardinality of the threads in each role. `TypeCorrect` rests on
  that count (Bounded): a counter that is decremented has somebody in it.
  Of PageFreeList: `PagesTypeCorrect`, `ListIntact`, `PagesConserved`, `CountRight`,
  with and without the mutex. What keeps ABA away: only dequeues take pages off, one at
  a time, so the page whose link a dequeue loaded is on the list until its CAS, and the
  link of a page on the list is never written, since the page of an enqueue is nowhere
  else. The counter lags behind the list by the threads between their CAS and their
  fetch_add (CountLags), a difference of two cardinalities.
* **RingQueueProofs**: `SafeTypeOK`, `SafePoppedInOrder`, `SafeQuiescentExact`,
  `SafePeekStable` and `Refinement` (the safety half of the refinement of
  ReservationQueue), for any producers, any depth and any number of calls of the five
  kinds of SoundKinds. The properties speak of popped values and of quiet moments; the
  invariant accounts for every slot at every step (Slots): in the window of `depth`
  tickets from `head_` a slot is filled exactly if its ticket was given out, nobody
  holds it any more and the consumer has not cleared it, and beyond the window there
  are only tickets of producers that wait or were refused (Refused). Tickets of one
  window have slots of their own (arithmetic of `%`), so that a slot has one owner.
  A producer that gives back its ticket must hold the last one, which is where the
  queues that fail need one producer or one call at a time, and why
  `fixed_mpsc_queue` is not among them. In the refinement a place is a ticket that was
  drawn, published when the ready bit is set, cancelled by the fetch_sub and taken when
  the value is moved out; every other step stutters.
* **PageAllocatorProofs**: `TypeCorrect`, `PagesDisjoint`, `RequestsFit`, `OneThread`,
  `OnePlaceEach` and `CountRight`: every property of the `allocators` run, for both
  allocators, any size classes, headers and requests, any sizes of the heaps and any
  distances between the parts of the buffer. They assume Sound: no scope inside a
  scope, whose inner FreeTls would free an id in use (`thread_local_allocator.h:286`), and no more threads than `max_threads`, beyond
  which CreateTid has no id to give. That a thread without an id finds one is a
  pigeonhole argument (IdLeft). The invariant has two halves. Ids: each id drawn is
  with one thread or free, once. Pages: each page is held, on one list or in one call
  (Somewhere), a list has pages of its own class and id (InOrder), a page is as large as
  its class (Sizes), and pages lie apart, below the offsets of the heaps (Apart).
  PagesDisjoint is about where pages are, not about where they should be: two local heaps and the region
  are entered in the order in which they were reserved, each local one the same
  `RegionOff` too low, so their pages never meet (Bases), although they leave the memory
  reserved for them (PagesInHeaps, which the code breaks). A page
  taken from a list fits because the class of a rounded size is the class that it was
  rounded to (RoundedSize, ClassFits), which is where the powers of two come in, and a
  reallocation copies no more than fits because rounding never shrinks (RoundGrows).
* **Sums**: induction over the naturals and over finite sets, as facts about the set of
  those for which something holds, and from it the laws of sums over finite sets that
  the accounts need. Pow2 is proved to be what its equation says in the same way.
* **SplitTicketQueueProofs**: `TypeCorrect`, `TicketsConserved`, `NothingMissed`,
  `OnlyFullRefuses`, for every number of threads, tickets, splits and slots. What a scan
  has established so far is the invariant: no ticket that stayed since the call began is
  in a split it has tried, because tickets never move from one split to another, and no
  split it has tried had room all along. At the end it has tried every split, which
  needs that start, start + 1, ... reach each of them once.
* **MemoryManagerProofs**: `DefaultAlwaysUsable`, `ScannedAlwaysRegistered`,
  `PointersAlwaysAgree` and `AccountsAlwaysExact`, for any processes, urls, backends,
  ids, regions and sizes, under the barrier (`Barrier`), which the tests have and
  without which the first two fail. About the tables the properties say nothing of how a scan can
  harm a table: it writes whatever id a header shows. The invariant adds that an id
  belongs to one allocator wherever it is written, in a header that can still be found,
  in a table or in a CreateAllocator in progress, so that a scan only writes over an
  entry what is there already; and that a header without an id belongs to a
  CreateAllocator in progress, which is what the barrier keeps from a scan. The proofs
  are of AllocatorApi's specification, whose allocations leave this state alone.
  A pointer agrees because every entry means what the header of its region says, so that
  two tables with an entry for a main id have the same one (Entries, TablesAgree); this
  holds of the sub-allocators' entries too, which outlive their main ones. The address
  alone leads back because the first allocator around it is the main one, whose index is
  below its sub-allocator's, and the process's own memory above the root allocator's is
  nobody's but malloc's (Nearest); this assumes OneMalloc, that the program has one
  MallocAllocator, since two contain every address (the finding of
  `memory_manager_.h:326`). A handle keeps its meaning since its holder keeps the
  allocator and nobody else holds the page it moves or frees (Handles). The accounts
  are sums over the pages in use (Account), which change by one page at a time
  (OneMore).
* **ListProofs** and **ContainerProofs**: `ListsHold`, `ListsKeep` (ContentsKept),
  `ListsOwn` (MemoryOwned) and `ListsBothEnds` (BothWays), for objects of the classes
  list and slist among those of all classes, any finite set of objects, any values and
  any bound on the lengths. They assume SoundCalls, the calls of the `containers` run: a
  list is not inserted into at its front, and neither class before an inner entry, which
  breaks the links (the findings of `list.h:392` and `:404`). They are about calls on
  objects that were constructed: a list or slist that is move-constructed from one of
  another allocator starts from a header that nothing set (`list.h:331`, `slist.h:348`),
  and the theorems say nothing of it.
  The properties are not inductive, because they speak of what an iterator finds, and
  one that goes wrong may find the right thing by chance. The invariant Held gives each
  object a sequence of entries, its Path: the links lead from `head_ptr_` through
  exactly these entries to `tail_ptr_` and null, with the values of the content in
  order and, in a list, the prior links back the same way; no entry is on two paths,
  the entries on paths are those allocated, and their number is the sum of the lengths
  (Laid). An iterator that starts on a path can only follow it (WalkIsPath), from which
  the three properties follow. Each call changes a path in one place: an entry at its
  end (AppendPath) or its front (PrependPath), a part taken out (CutPath), a path moved
  to another object (StealHeld), or one entry after the other in a copy (BuildsHeld);
  that a copy always finds a free entry rests on the count (CountChange). Walk and the
  copies are recursive functions: their defining equations are proved first (WalksExist,
  BuildsExist), what they compute by induction over the path. The calls of the other
  classes leave the class of an object alone (KindStays).

Only model-checked: every liveness property and so the liveness half of the two
refinements, of FcfsLock and of ReservationQueue (fairness and ENABLED are out of the
prover's reach); the containers other than list and slist (vectors, strings, maps, the
queues as objects, pairs), whose promises are about buffers and folds. The induction
theorems of the library take an operator as a parameter, which the provers cannot
instantiate; stated about sets, as in Sums, induction works for recursive functions like
Pow2 and Walk. That PageAllocator may take a free list for what LockProofs shows of it
is not proved: there one step of a list is one action.

## 5. Not modelled, and why

Weak memory orders; wrapping of 64-bit counters; processes that die inside a call
(nothing in the library recovers from it: a lock held by a dead process stays held).
Allocations that fail inside a container, and the failures of `mmap` and `shm_open`.
Move constructions of containers between two allocators, which read unset fields, and what
pages of a local heap overwrite at the end of the table (see the findings).
The copies and moves of the list queues and of `split_ticket_queue`, which do not work
(see the findings), and peek of a ring at an offset. The fallback list of the
thread-local allocator, which has no lock: the run gives it no request that large.
Nested scopes (`MaxDepth` 2 breaks OneThreadPerTid; no document promises they nest).
AlignedAllocate, which the code does not implement. `big_bitfield`, which nothing in
the library uses. The copies to devices and GPU paths. The parts marked "no" in
section 1.

## 6. Plan

Done, in this order: TicketLock with FcfsLock; RwLock; RingQueue with
ReservationQueue; PageFreeList; SpscListQueue; PageAllocator; the containers;
SplitTicketQueue; MemoryManager with AllocatorApi; the queues as objects, pairs,
character arrays and the serialization. Of these the two locks, RingQueue,
PageFreeList, PageAllocator, SplitTicketQueue and MemoryManager with AllocatorApi have
every safety property of their passing runs proved; of the containers, list and slist
have.

Next, most important first:

1. **Proofs**: the composition of PageFreeList in PageAllocator, whose list steps are
   single actions today; vector next among the containers (its end iterator and its
   shifts make BothWays an invariant of its own), then strings and maps.
2. **Allocators, continued**: two allocators and their thread-local keys, threads that
   end outside a scope, the unlocked fallback list, nested scopes.
3. **Singleton** and `delay_ar` construction under threads.
4. `dynamic_queue`'s size() outside its mutex and callers of `mpmc_key_set` at once.
