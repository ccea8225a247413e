---------------------------- MODULE SpscListQueue ---------------------------
(***************************************************************************)
(* spsc_fifo_list_queue (data_structures/ipc/spsc_fifo_list_queue.h): a    *)
(* producer links entries at the tail, a consumer takes them at the head,  *)
(* and no word is atomic.  One action is one access to shared memory, in   *)
(* program order.  The entries are 1, 2, ... in the order of the calls.    *)
(* The counters have one writer each.  MaxPush bounds the calls.           *)
(***************************************************************************)
EXTENDS Naturals, Sequences

CONSTANTS MaxPush   \* a natural number

Null  == 0
Entry == 1 .. MaxPush

VARIABLES
  head_shm_, tail_shm_, head_, tail_,
  next_shm_,   \* the link in each entry
  ppc, entry,  \* the producer and its entry
  cpc, size,   \* the consumer, its cur_size
  val,         \* its val
  pushed,      \* history: how many calls of enqueue began
  popped       \* history: the entries the consumer got, in order

list == <<head_shm_, tail_shm_, next_shm_>>
prod == <<ppc, entry, pushed>>
cons == <<cpc, size, val, popped>>
vars == <<list, head_, tail_, prod, cons>>

Init ==
  /\ head_shm_ = Null /\ tail_shm_ = Null /\ head_ = 0 /\ tail_ = 0
  /\ next_shm_ = [e \in Entry |-> Null]
  /\ ppc = "idle" /\ entry = Null
  /\ cpc = "idle" /\ size = 0 /\ val = Null
  /\ pushed = 0 /\ popped = <<>>

-----------------------------------------------------------------------------
(* enqueue *)

\* entry->next_shm_ = null: the entry is not shared yet.
Enqueue ==
  /\ ppc = "idle" /\ pushed < MaxPush
  /\ pushed' = pushed + 1
  /\ entry' = pushed + 1
  /\ next_shm_' = [next_shm_ EXCEPT ![pushed + 1] = Null]
  /\ ppc' = "count"
  /\ UNCHANGED <<head_shm_, tail_shm_, head_, tail_, cons>>

CountTail ==
  /\ ppc = "count"
  /\ tail_' = tail_ + 1
  /\ ppc' = "head"
  /\ UNCHANGED <<list, head_, entry, pushed, cons>>

TestHead ==
  /\ ppc = "head"
  /\ ppc' = IF head_shm_ = Null THEN "first" ELSE "link"
  /\ UNCHANGED <<list, head_, tail_, entry, pushed, cons>>

LinkEntry ==
  /\ \/ /\ ppc = "link"
        /\ next_shm_' = [next_shm_ EXCEPT ![tail_shm_] = entry]
        /\ UNCHANGED head_shm_
     \/ /\ ppc = "first"
        /\ head_shm_' = entry
        /\ UNCHANGED next_shm_
  /\ ppc' = "tail"
  /\ UNCHANGED <<tail_shm_, head_, tail_, entry, pushed, cons>>

SetTail ==
  /\ ppc = "tail"
  /\ tail_shm_' = entry
  /\ ppc' = "idle"
  /\ UNCHANGED <<head_shm_, next_shm_, head_, tail_, entry, pushed, cons>>

-----------------------------------------------------------------------------
(* dequeue *)

\* size(): head_ is the consumer's own, so the load of tail_ decides.
Dequeue ==
  /\ cpc = "idle"
  /\ size' = tail_ - head_
  /\ cpc' = IF tail_ = head_ THEN "idle" ELSE "head"
  /\ UNCHANGED <<list, head_, tail_, prod, val, popped>>

LoadHead ==
  /\ cpc = "head"
  /\ val' = head_shm_
  /\ cpc' = "test"
  /\ UNCHANGED <<list, head_, tail_, prod, size, popped>>

\* val.ptr_->next_shm_: behind a null head_shm_ there is no entry to read.
TestNext ==
  /\ cpc = "test"
  /\ cpc' = IF val = Null THEN "crashed"
            ELSE IF next_shm_[val] = Null /\ size > 1 THEN "idle" ELSE "unlink"
  /\ UNCHANGED <<list, head_, tail_, prod, size, val, popped>>

\* The link is read once more and stored in the same statement; the two are
\* one step, the order of the store and the producer's being what matters.
Unlink ==
  /\ cpc = "unlink"
  /\ head_shm_' = next_shm_[val]
  /\ cpc' = "count"
  /\ UNCHANGED <<tail_shm_, next_shm_, head_, tail_, prod, size, val, popped>>

CountHead ==
  /\ cpc = "count"
  /\ head_' = head_ + 1
  /\ popped' = Append(popped, val)
  /\ cpc' = "idle"
  /\ UNCHANGED <<list, tail_, prod, size, val>>

-----------------------------------------------------------------------------
Next == \/ Enqueue \/ CountTail \/ TestHead \/ LinkEntry \/ SetTail
        \/ Dequeue \/ LoadHead \/ TestNext \/ Unlink \/ CountHead

Safe == Init /\ [][Next]_vars

(***************************************************************************)
(* "A singly-linked lock-free queue implementation"                        *)
(* (spsc_fifo_list_queue.h:33): between calls the links from head_shm_ on  *)
(* run through the entries that were pushed and not popped, in order.      *)
(***************************************************************************)
Walk[n \in Nat] == IF n = 0 THEN head_shm_
                   ELSE IF Walk[n - 1] = Null THEN Null ELSE next_shm_[Walk[n - 1]]

HoldsTheRest ==
  ppc = "idle" /\ cpc = "idle" =>
    \A n \in 0 .. pushed - Len(popped) :
      Walk[n] = IF n < pushed - Len(popped) THEN Len(popped) + n + 1 ELSE Null
=============================================================================
