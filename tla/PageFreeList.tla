---------------------------- MODULE PageFreeList ----------------------------
(***************************************************************************)
(* mpsc_lifo_list_queue (data_structures/ipc/mpsc_lifo_list_queue.h) as    *)
(* the allocators use it: the free list of one page size (PageAllocator,   *)
(* memory/allocator/page_allocator.h).  Any thread frees a page onto the   *)
(* list; the Consumers allocate from it, under lock_ if MPMC, and without  *)
(* MPMC there is one consumer.  One action is one access to shared memory. *)
(*                                                                         *)
(* Pages are used again and again, so the same page may come back to the   *)
(* top while a thread holds an old copy of the pointer to it: a CAS on     *)
(* tail_shm_ cannot tell.  That nothing breaks rests on there being one    *)
(* consumer at a time.                                                     *)
(***************************************************************************)
EXTENDS Naturals, Sequences, Threads

CONSTANTS Consumers, Page, Null, MPMC

ASSUME PageAssumption == Null \notin Page

\* The threads that allocate: many only if they lock.
ASSUME ConsumerAssumption ==
  /\ Consumers \subseteq Thread
  /\ MPMC \in BOOLEAN
  /\ ~MPMC => \A t, u \in Consumers : t = u

VARIABLES
  tail_shm_,   \* the top of the list
  next_shm_,   \* the link in the header of each page
  count_,
  holders,     \* who holds the mutex of the page allocator: at most one
  page,        \* page[t]: the entry of enqueue, the val of dequeue
  tail,        \* tail[t]: the local tail_shm of either loop
  next,        \* next[t]: the local next_tail of dequeue
  out,         \* history: the pages that the program has
  stack        \* history: the pages on the list, the top first

shared == <<tail_shm_, next_shm_, count_, holders>>
locals == <<pc, page, tail, next>>
pageVars == <<shared, locals, out, stack>>

Link == Page \union {Null}

EnqueuePc == {"load", "link", "push", "count"}
DequeuePc == {"size", "top", "next", "pop", "uncount"}

PagesTypeOK ==
  /\ tail_shm_ \in Link
  /\ next_shm_ \in [Page -> Link]
  /\ count_ \in Nat
  /\ holders \subseteq Consumers
  /\ pc \in [Thread -> {"idle", "lock", "unlock"} \union EnqueuePc \union DequeuePc]
  /\ page \in [Thread -> Link]
  /\ tail \in [Thread -> Link]
  /\ next \in [Thread -> Link]
  /\ out \subseteq Page
  /\ stack \in Seq(Page)

PagesInit ==
  /\ tail_shm_ = Null
  /\ next_shm_ = [p \in Page |-> Null]
  /\ count_ = 0
  /\ holders = {}
  /\ pc = [t \in Thread |-> "idle"]
  /\ page = [t \in Thread |-> Null]
  /\ tail = [t \in Thread |-> Null]
  /\ next = [t \in Thread |-> Null]
  /\ out = Page /\ stack = <<>>

\* The locals of a call end with it.
Forget(t) ==
  /\ page' = [page EXCEPT ![t] = Null]
  /\ tail' = [tail EXCEPT ![t] = Null]
  /\ next' = [next EXCEPT ![t] = Null]

-----------------------------------------------------------------------------
(* enqueue: PageAllocator::Free takes no lock. *)

Enqueue(t, p) ==
  /\ pc[t] = "idle" /\ p \in out
  /\ page' = [page EXCEPT ![t] = p]
  /\ out' = out \ {p}
  /\ Goto(t, "load")
  /\ UNCHANGED <<shared, tail, next, stack>>

LoadTail(t) ==
  /\ pc[t] = "load"
  /\ tail' = [tail EXCEPT ![t] = tail_shm_]
  /\ Goto(t, "link")
  /\ UNCHANGED <<shared, page, next, out, stack>>

LinkPage(t) ==
  /\ pc[t] = "link"
  /\ next_shm_' = [next_shm_ EXCEPT ![page[t]] = tail[t]]
  /\ Goto(t, "push")
  /\ UNCHANGED <<tail_shm_, count_, holders, page, tail, next, out, stack>>

PushOnce(t) ==                 \* enqueue that gives up when the CAS fails
  /\ pc[t] = "push"
  /\ IF tail_shm_ = tail[t]
       THEN /\ tail_shm_' = page[t]
            /\ stack' = <<page[t]>> \o stack
            /\ Goto(t, "count")
       ELSE /\ Goto(t, "idle")
            /\ UNCHANGED <<tail_shm_, stack>>
  /\ UNCHANGED <<next_shm_, count_, holders, page, tail, next, out>>

PushStale(t) ==                \* enqueue whose loop does not load the tail again
  /\ pc[t] = "push"
  /\ IF tail_shm_ = tail[t]
       THEN /\ tail_shm_' = page[t]
            /\ stack' = <<page[t]>> \o stack
            /\ Goto(t, "count")
       ELSE /\ Goto(t, "push")
            /\ UNCHANGED <<tail_shm_, stack>>
  /\ UNCHANGED <<next_shm_, count_, holders, page, tail, next, out>>

Push(t) ==
  /\ pc[t] = "push"
  /\ IF tail_shm_ = tail[t]
       THEN /\ tail_shm_' = page[t]
            /\ stack' = <<page[t]>> \o stack
            /\ Goto(t, "count")
       ELSE /\ Goto(t, "load")
            /\ UNCHANGED <<tail_shm_, stack>>
  /\ UNCHANGED <<next_shm_, count_, holders, page, tail, next, out>>

Count(t) ==
  /\ pc[t] = "count"
  /\ count_' = count_ + 1
  /\ Goto(t, "idle") /\ Forget(t)
  /\ UNCHANGED <<tail_shm_, next_shm_, holders, out, stack>>

-----------------------------------------------------------------------------
(* dequeue, in PageAllocator::Allocate: under the mutex if MPMC. *)

DequeueUnlocked(t) ==          \* Allocate without the mutex
  /\ pc[t] = "idle" /\ t \in Consumers
  /\ Goto(t, "size")
  /\ UNCHANGED <<shared, page, tail, next, out, stack>>

Dequeue(t) ==
  /\ pc[t] = "idle" /\ t \in Consumers
  /\ Goto(t, IF MPMC THEN "lock" ELSE "size")
  /\ UNCHANGED <<shared, page, tail, next, out, stack>>

AcquireLock(t) ==
  /\ pc[t] = "lock" /\ holders = {}
  /\ holders' = {t}
  /\ Goto(t, "size")
  /\ UNCHANGED <<tail_shm_, next_shm_, count_, page, tail, next, out, stack>>

Return(t) == Goto(t, IF MPMC THEN "unlock" ELSE "idle") /\ Forget(t)

Release(t) ==
  /\ pc[t] = "unlock"
  /\ holders' = holders \ {t}
  /\ Goto(t, "idle")
  /\ UNCHANGED <<tail_shm_, next_shm_, count_, page, tail, next, out, stack>>

SizeAnything(t) ==             \* dequeue that does not look at the size
  /\ pc[t] = "size"
  /\ Goto(t, "top")
  /\ UNCHANGED <<shared, page, tail, next, out, stack>>

CheckSize(t) ==
  /\ pc[t] = "size"
  /\ \/ count_ = 0 /\ Return(t)
     \/ count_ # 0 /\ Goto(t, "top") /\ UNCHANGED <<page, tail, next>>
  /\ UNCHANGED <<shared, out, stack>>

LoadTop(t) ==
  /\ pc[t] = "top"
  /\ \/ tail_shm_ = Null /\ Return(t)
     \/ /\ tail_shm_ # Null
        /\ tail' = [tail EXCEPT ![t] = tail_shm_]
        /\ page' = [page EXCEPT ![t] = tail_shm_]
        /\ Goto(t, "next")
        /\ UNCHANGED next
  /\ UNCHANGED <<shared, out, stack>>

LoadNext(t) ==
  /\ pc[t] = "next"
  /\ next' = [next EXCEPT ![t] = next_shm_[page[t]]]
  /\ Goto(t, "pop")
  /\ UNCHANGED <<shared, page, tail, out, stack>>

Pop(t) ==
  /\ pc[t] = "pop"
  /\ IF tail_shm_ = tail[t]
       THEN /\ tail_shm_' = next[t]
            /\ stack' = Tail(stack)
            /\ out' = out \union {page[t]}
            /\ Goto(t, "uncount")
       ELSE /\ Goto(t, "top")
            /\ UNCHANGED <<tail_shm_, stack, out>>
  /\ UNCHANGED <<next_shm_, count_, holders, page, tail, next>>

Uncount(t) ==
  /\ pc[t] = "uncount"
  /\ count_' = count_ - 1
  /\ Return(t)
  /\ UNCHANGED <<tail_shm_, next_shm_, holders, out, stack>>

\* compare_exchange_weak may fail although the value is the expected one.
CasTailFails(t) ==
  /\ \/ pc[t] = "push" /\ Goto(t, "load")
     \/ pc[t] = "pop" /\ Goto(t, "top")
  /\ UNCHANGED <<shared, page, tail, next, out, stack>>

-----------------------------------------------------------------------------
CasTail(t) == Push(t) \/ Pop(t)
PagesStep(t) ==
  \/ LoadTail(t) \/ LinkPage(t) \/ Count(t) \/ CheckSize(t) \/ LoadTop(t)
  \/ LoadNext(t) \/ Uncount(t) \/ Release(t) \/ CasTail(t)

PagesNext ==
  \E t \in Thread :
    \/ \E p \in Page : Enqueue(t, p)
    \/ Dequeue(t) \/ AcquireLock(t) \/ PagesStep(t) \/ CasTailFails(t)

PagesSafe == PagesInit /\ [][PagesNext]_pageVars

(***************************************************************************)
(* A thread inside a call is scheduled, a weak CAS does not fail           *)
(* spuriously for ever, and the mutex is fair (TicketLock).  Nobody is     *)
(* made to call.                                                           *)
(***************************************************************************)
PagesFairness ==
  \A t \in Thread :
    WF_pageVars(PagesStep(t)) /\ SF_pageVars(CasTail(t)) /\ SF_pageVars(AcquireLock(t))

PagesSpec == PagesSafe /\ PagesFairness

-----------------------------------------------------------------------------
(* Properties *)

Pushing(t)  == pc[t] \in EnqueuePc \ {"count"}
OnList(p)   == \E i \in 1 .. Len(stack) : stack[i] = p

(***************************************************************************)
(* The links from tail_shm_ on run through exactly the pages that were     *)
(* enqueued and not dequeued, the last one first, although pages come back *)
(* and each CAS compares a pointer only (mpsc_lifo_list_queue.h:183, 230). *)
(***************************************************************************)
TopIsFirst == tail_shm_ = IF stack = <<>> THEN Null ELSE stack[1]

Linked ==
  \A i \in 1 .. Len(stack) :
    next_shm_[stack[i]] = IF i = Len(stack) THEN Null ELSE stack[i + 1]

ListIsStack == TopIsFirst /\ Linked

(***************************************************************************)
(* No page is handed out twice and none is lost: a page is with the        *)
(* program, or in one call of enqueue, or on the list in one place         *)
(* (scalable_page_allocator.h:120, 189).                                   *)
(***************************************************************************)
PageInOnePlace ==
  /\ \A p \in Page :
       p \in out \/ OnList(p) \/ \E t \in Thread : Pushing(t) /\ page[t] = p
  /\ \A p \in out : ~OnList(p)
  /\ \A i, j \in 1 .. Len(stack) : stack[i] = stack[j] => i = j
  /\ \A t \in Thread : Pushing(t) =>
       /\ page[t] \notin out /\ ~OnList(page[t])
       /\ \A u \in Thread : Pushing(u) /\ page[u] = page[t] => u = t

(***************************************************************************)
(* count_ lags behind the list by the calls between their CAS and their    *)
(* count, and never falls below zero: an enqueue counts late, so a dequeue *)
(* may take a page that is not counted yet, but only if another one is     *)
(* (mpsc_lifo_list_queue.h:185, 215, 232).                                 *)
(***************************************************************************)
CountExact ==
  /\ count_ + Cardinality({t \in Thread : pc[t] = "count"})
       = Len(stack) + Cardinality({t \in Thread : pc[t] = "uncount"})
  /\ \A t \in Thread : pc[t] \in DequeuePc \ {"size"} => count_ > 0

(***************************************************************************)
(* While some call is in one of the CAS loops, some call leaves one: a CAS *)
(* that fails means that another one succeeded (mpsc_lifo_list_queue.h:    *)
(* 180-184, 221-231).  No single call is promised to return.               *)
(***************************************************************************)
InLoop(t) == pc[t] \in {"load", "link", "push", "top", "next", "pop"}

SomebodyGetsThrough ==
  (\E t \in Thread : InLoop(t)) ~>
    \/ \E t \in Thread : pc[t] \in {"count", "uncount"}
    \/ \A t \in Thread : ~InLoop(t)
=============================================================================
