----------------------------- MODULE TicketLock -----------------------------
(***************************************************************************)
(* hshm::Mutex (thread/lock/mutex.h) and hshm::SpinLock (spin_lock.h, the  *)
(* same code without the Yield), called through the guard object           *)
(* ScopedMutex / ScopedSpinLock that each thread keeps on its stack.       *)
(*                                                                         *)
(* One action is one access to a shared atomic.  A thread between two      *)
(* calls has pc "idle"; whether it holds the lock is what its guard says,  *)
(* isLocked.  The library's direct calls of Lock and Unlock are paired in  *)
(* the source, so they are the same steps.                                 *)
(*                                                                         *)
(* lock_ and head_ are 64-bit on the host: no execution wraps them, and    *)
(* they are naturals here.  MaxTicket bounds the run: no call starts once  *)
(* that many tickets were drawn.                                           *)
(***************************************************************************)
EXTENDS Naturals, Threads

CONSTANT MaxTicket

ASSUME MaxTicketAssumption == MaxTicket \in Nat

VARIABLES
  lock_,      \* the next ticket to draw
  head_,      \* the ticket being served
  try_lock_,  \* the gate of TryLock
  tkt,        \* tkt[t]: the local of Lock
  seen,       \* seen[t]: the first operand of TryLock's comparison
  isLocked    \* isLocked[t]: is_locked_ of t's guard

mutexVars == <<lock_, head_, try_lock_, pc, tkt, seen, isLocked>>
mem  == <<lock_, head_, try_lock_>>

MutexTypeOK ==
  /\ lock_ \in Nat /\ head_ \in Nat /\ try_lock_ \in Nat
  /\ pc \in [Thread -> {"idle", "spin", "load", "cmpHead", "cmpLock",
                        "enter", "undo"}]
  /\ tkt \in [Thread -> Nat]
  /\ seen \in [Thread -> Nat]
  /\ isLocked \in [Thread -> BOOLEAN]

MutexInit ==
  /\ lock_ = 0 /\ head_ = 0 /\ try_lock_ = 0
  /\ pc = [t \in Thread |-> "idle"]
  /\ tkt = [t \in Thread |-> 0]
  /\ seen = [t \in Thread |-> 0]
  /\ isLocked = [t \in Thread |-> FALSE]

-----------------------------------------------------------------------------
(* Lock: draw a ticket and wait until it is served. *)

Draw(t) ==
  /\ tkt' = [tkt EXCEPT ![t] = lock_]
  /\ lock_' = lock_ + 1

\* ScopedMutex::Lock does nothing when the guard already holds the lock.
Lock(t) ==
  /\ pc[t] = "idle" /\ ~isLocked[t] /\ lock_ < MaxTicket
  /\ Draw(t)
  /\ Goto(t, "spin")
  /\ UNCHANGED <<head_, try_lock_, seen, isLocked>>

AcquireEarly(t) ==             \* tkt <= head_ + 1 instead of tkt == head_
  /\ pc[t] = "spin" /\ tkt[t] <= head_ + 1
  /\ Goto(t, "idle")
  /\ isLocked' = [isLocked EXCEPT ![t] = TRUE]
  /\ UNCHANGED <<mem, tkt, seen>>

\* The other outcome of the load, tkt != head_, goes round the loop.
Acquire(t) ==
  /\ pc[t] = "spin" /\ tkt[t] = head_
  /\ Goto(t, "idle")
  /\ isLocked' = [isLocked EXCEPT ![t] = TRUE]
  /\ UNCHANGED <<mem, tkt, seen>>

-----------------------------------------------------------------------------
(* TryLock: a gate that lets one thread at a time look at the lock. *)

TryLock(t) ==
  /\ pc[t] = "idle" /\ ~isLocked[t] /\ lock_ < MaxTicket
  /\ try_lock_' = try_lock_ + 1
  /\ Goto(t, IF try_lock_ > 0 THEN "undo" ELSE "load")
  /\ UNCHANGED <<lock_, head_, tkt, seen, isLocked>>

\* lock_.load() > head_.load(): C++ leaves the order of the operands open.
LoadOperand(t) ==
  /\ pc[t] = "load"
  /\ \/ /\ seen' = [seen EXCEPT ![t] = lock_]
        /\ Goto(t, "cmpHead")
     \/ /\ seen' = [seen EXCEPT ![t] = head_]
        /\ Goto(t, "cmpLock")
  /\ UNCHANGED <<mem, tkt, isLocked>>

Compare(t) ==
  /\ \/ /\ pc[t] = "cmpHead"
        /\ Goto(t, IF seen[t] > head_ THEN "undo" ELSE "enter")
     \/ /\ pc[t] = "cmpLock"
        /\ Goto(t, IF lock_ > seen[t] THEN "undo" ELSE "enter")
  /\ UNCHANGED <<mem, tkt, seen, isLocked>>

TryUndoTwice(t) ==             \* the gate opened once too often
  /\ pc[t] = "undo"
  /\ try_lock_' = try_lock_ - 2
  /\ Goto(t, "idle")
  /\ UNCHANGED <<lock_, head_, tkt, seen, isLocked>>

TryUndo(t) ==
  /\ pc[t] = "undo"
  /\ try_lock_' = try_lock_ - 1
  /\ Goto(t, "idle")
  /\ UNCHANGED <<lock_, head_, tkt, seen, isLocked>>

\* TryLock ends in Lock(owner); it leaves the gate as it is.
TryEnter(t) ==
  /\ pc[t] = "enter"
  /\ Draw(t)
  /\ Goto(t, "spin")
  /\ UNCHANGED <<head_, try_lock_, seen, isLocked>>

-----------------------------------------------------------------------------
(* Unlock and the destructor of the guard. *)

UnlockUnchecked(t) ==          \* the guard that forgets `if (is_locked_)`
  /\ pc[t] = "idle" /\ head_ < MaxTicket
  /\ head_' = head_ + 1
  /\ isLocked' = [isLocked EXCEPT ![t] = FALSE]
  /\ UNCHANGED <<lock_, try_lock_, pc, tkt, seen>>

UnlockTwice(t) ==              \* head_.fetch_add(1) executed twice
  /\ pc[t] = "idle" /\ isLocked[t]
  /\ head_' = head_ + 2
  /\ isLocked' = [isLocked EXCEPT ![t] = FALSE]
  /\ UNCHANGED <<lock_, try_lock_, pc, tkt, seen>>

\* A guard that does not hold the lock leaves it alone, whoever calls.
Unlock(t) ==
  /\ pc[t] = "idle" /\ isLocked[t]
  /\ head_' = head_ + 1
  /\ isLocked' = [isLocked EXCEPT ![t] = FALSE]
  /\ UNCHANGED <<lock_, try_lock_, pc, tkt, seen>>

-----------------------------------------------------------------------------
\* What a thread does once it is inside a call.
MutexStep(t) == Acquire(t) \/ LoadOperand(t) \/ Compare(t) \/ TryUndo(t) \/ TryEnter(t)

MutexNext == \E t \in Thread : Lock(t) \/ TryLock(t) \/ MutexStep(t) \/ Unlock(t)

MutexSafe == MutexInit /\ [][MutexNext]_mutexVars

(***************************************************************************)
(* Threads are scheduled: one inside a call goes on with it.  Critical     *)
(* sections end: every guard is destroyed.  No thread has to call Lock.    *)
(***************************************************************************)
MutexFairness == \A t \in Thread : WF_mutexVars(MutexStep(t)) /\ WF_mutexVars(Unlock(t))

MutexSpec == MutexSafe /\ MutexFairness

-----------------------------------------------------------------------------
(* Properties *)

Waiting(t) == pc[t] = "spin"
Active(t)  == Waiting(t) \/ isLocked[t]

(***************************************************************************)
(* No two guards hold the lock at once, whatever mix of Lock, TryLock and  *)
(* Unlock the threads run (mutex.h:44-74).                                 *)
(***************************************************************************)
MutualExclusion ==
  \A t, u \in Thread : isLocked[t] /\ isLocked[u] => t = u

(***************************************************************************)
(* Every ticket that was drawn and not yet served belongs to a thread that *)
(* waits for it or holds it: no Unlock can hand the lock to nobody, which  *)
(* would block all later callers of Lock for good (mutex.h:45-52, 73).     *)
(***************************************************************************)
NoOrphanTicket ==
  \A n \in head_ .. lock_ - 1 : \E t \in Thread : Active(t) /\ tkt[t] = n

(***************************************************************************)
(* The gate counts at least the threads between its fetch_add and its      *)
(* fetch_sub, so fetch_sub never wraps it to 2^32 - 1 (mutex.h:59-60), and *)
(* at most one of them ever passes it and looks at the lock.               *)
(***************************************************************************)
Past(t) == pc[t] \in {"load", "cmpHead", "cmpLock", "enter"}
GateHolds ==
  /\ \A t \in Thread : Past(t) \/ pc[t] = "undo" => try_lock_ > 0
  /\ \A t, u \in Thread : Past(t) /\ Past(u) => t = u

(***************************************************************************)
(* A thread that has drawn a ticket gets the lock (mutex.h:46-53), however *)
(* often the others come back: the lock starves nobody.                    *)
(***************************************************************************)
EveryTicketServed == \A t \in Thread : Waiting(t) ~> isLocked[t]

(***************************************************************************)
(* The ticket lock is a first-come-first-served lock: a thread asks when   *)
(* it draws its ticket, and those ahead of it drew a smaller one.          *)
(***************************************************************************)
mutexStage ==
  [t \in Thread |-> IF isLocked[t] THEN "holding"
                    ELSE IF Waiting(t) THEN "waiting" ELSE "out"]
mutexAhead ==
  [t \in Thread |-> {u \in Thread : Active(t) /\ Active(u) /\ tkt[u] < tkt[t]}]

MutexFcfs == INSTANCE FcfsLock WITH Client <- Thread, stage <- mutexStage, ahead <- mutexAhead

\* Refinement, with the fairness: Lock and Unlock as FcfsLock promises them.
ImplementsFcfs == MutexFcfs!Spec
=============================================================================
