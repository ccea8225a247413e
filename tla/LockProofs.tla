----------------------------- MODULE LockProofs -----------------------------
(***************************************************************************)
(* Proofs about what threads share: RwLock for every finite set of         *)
(* threads, every bound and every width of cur_writer_; the mutex of       *)
(* TicketLock for every finite set of threads and every bound; and the     *)
(* free list of pages of PageFreeList, whose enqueue does without a lock,  *)
(* for every set of pages, with and without the mutex of its consumers.    *)
(*                                                                         *)
(* The mode of a RwLock plays no part in what keeps its writers apart: the *)
(* threads with a ticket have different ones (TicketsDistinct) and the     *)
(* writer inside, and until it has moved cur_writer_ on, has the ticket    *)
(* that cur_writer_ shows (WriterHasTurn).                                 *)
(*                                                                         *)
(* MutualExclusion of a mutex is not inductive: it does not say why the    *)
(* thread that sees its ticket served is alone. LockInv adds that active   *)
(* threads have different tickets, all between head_ and lock_, and that   *)
(* the holder has the ticket head_. Nor is GateHolds: that try_lock_ stays *)
(* positive under one thread's fetch_sub needs a count of the others,      *)
(* GateCounted.                                                            *)
(*                                                                         *)
(* ListIsStack is not inductive either: it does not say why the next       *)
(* pointer that a dequeue loaded is still the right one when its CAS       *)
(* succeeds. The reason is that the page it is about has been on the list  *)
(* all the time (DequeueLocals): only a dequeue takes pages off the list   *)
(* and there is one at a time (ConsumersExclude), and the link of a page   *)
(* on the list never changes, because only the page of an enqueue is       *)
(* written and that page is nowhere else (PageInOnePlace).                 *)
(***************************************************************************)
EXTENDS RwLock, TicketLock, PageFreeList, SequenceTheorems, FiniteSetTheorems, TLAPS

RoleOfPc ==
  \A t \in Thread : pc[t] \in {"ticket", "reload", "turn", "next"} => role[t] = "writer"

TicketsInWindow ==
  /\ cur_writer_ <= ticket_
  /\ \A t \in Thread : Ticketed(t) => cur_writer_ <= ticket[t] /\ ticket[t] < ticket_

TicketsDistinct ==
  \A t, u \in Thread : Ticketed(t) /\ Ticketed(u) /\ ticket[t] = ticket[u] => t = u

\* TypeOK, but for the counts and the bound on tickets.
Types ==
  /\ cur_writer_ \in Nat /\ ticket_ \in Nat
  /\ mode_ \in Mode
  /\ pc \in [Thread -> {"idle", "ticket", "load", "count", "reset", "cas",
                        "reload", "turn", "in", "next"}]
  /\ role \in [Thread -> {"reader", "writer"}]
  /\ mode \in [Thread -> Mode]
  /\ ticket \in [Thread -> Nat]

Writers == /\ cur_writer_ < RegWidth
           /\ RoleOfPc /\ TicketsInWindow /\ TicketsDistinct /\ WriterHasTurn

IInv == Types /\ CountsExact /\ Writers

-----------------------------------------------------------------------------
(* The turn *)

LEMMA NextTurn ==
  ASSUME NEW n \in Nat, n < RegWidth
  PROVE  /\ (n + 1) % RegWidth \in Nat
         /\ (n + 1) % RegWidth < RegWidth
         /\ (n + 1) % RegWidth <= n + 1
  <1> USE RwAssumption
  <1>1. CASE n + 1 < RegWidth
    <2>1. (n + 1) % RegWidth = n + 1  BY <1>1
    <2>2. QED  BY <1>1, <2>1
  <1>2. CASE n + 1 = RegWidth
    <2>1. (n + 1) % RegWidth = 0  BY <1>2
    <2>2. QED  BY <2>1
  <1>3. QED  BY <1>1, <1>2

LEMMA WriterWithTurn ==
  ASSUME IInv, NEW t \in Thread, NEW u \in Thread, Writing(t), Ticketed(u)
  PROVE  /\ Ticketed(t) /\ ticket[t] = cur_writer_
         /\ u = t \/ (ticket[u] > ticket[t] /\ ~Writing(u))
  <1> USE DEF IInv, Types, Writers
  <1>1. Ticketed(t) /\ ticket[t] = cur_writer_
    BY DEF Writing, In, Ticketed, RoleOfPc, WriterHasTurn
  <1>2. ticket[t] <= ticket[u]
    BY <1>1 DEF TicketsInWindow
  <1>3. u # t => ticket[t] # ticket[u]
    BY <1>1 DEF TicketsDistinct
  <1>4. Writing(u) => ticket[u] = cur_writer_
    BY DEF WriterHasTurn
  <1>5. QED  BY <1>1, <1>2, <1>3, <1>4

\* Steps after which every thread has the ticket and the place it had.
LEMMA SameWriters ==
  ASSUME IInv, UNCHANGED <<cur_writer_, ticket_, ticket>>, RoleOfPc',
         \A t \in Thread : /\ Ticketed(t)' => Ticketed(t)
                           /\ Writing(t)' => Writing(t) \/ ticket[t] = cur_writer_
  PROVE  Writers'
  BY DEF IInv, Writers, TicketsInWindow, TicketsDistinct, WriterHasTurn

LEMMA NextWriters ==
  ASSUME IInv, [Next]_vars
  PROVE  Types' /\ Writers'
  <1> USE DEF IInv, Types, Mode, Goto, SetLocal, lockVars
  <1>1. CASE UNCHANGED vars
    BY <1>1 DEF vars, Writers, RoleOfPc, TicketsInWindow, TicketsDistinct,
                WriterHasTurn, Ticketed, Writing, In
  <1> SUFFICES ASSUME NEW t \in Thread,
                      \/ ReadLock(t) \/ WriteLock(t) \/ Step(t)
                      \/ SpuriousFailure(t) \/ AnyUnlock(t)
               PROVE  Types' /\ Writers'
    BY <1>1 DEF Next
  <1>2. \A m : AfterUpdate(t, m) \in {"cas", "in", "turn", "load"}
    BY DEF AfterUpdate
  <1>3. \A m : /\ AfterUpdate(t, m) = "in" => role[t] = "reader"
               /\ AfterUpdate(t, m) = "turn" => role[t] = "writer"
    BY DEF AfterUpdate
  <1> DEFINE Roles == RoleOfPc'
             Keeps == \A u \in Thread :
                        /\ Ticketed(u)' => Ticketed(u)
                        /\ Writing(u)' => Writing(u) \/ ticket[u] = cur_writer_
  <1> USE DEF RoleOfPc, Ticketed, Writing, In
  <1>4. CASE ReadLock(t)
    <2>1. Types' /\ Roles /\ Keeps  BY <1>4 DEF ReadLock, Writers
    <2>2. QED  BY <1>4, <2>1, SameWriters DEF ReadLock
  <1>5. CASE WriteLock(t)
    <2>1. Types' /\ Roles /\ Keeps  BY <1>5 DEF WriteLock, Writers
    <2>2. QED  BY <1>5, <2>1, SameWriters DEF WriteLock
  <1>6. CASE DrawTicket(t)
    <2>1. Types' /\ Roles
      BY <1>6 DEF DrawTicket, Writers
    <2>2. ~Ticketed(t) /\ ~Writing(t)' /\ ticket'[t] = ticket_ /\ ticket_' = ticket_ + 1
      BY <1>6 DEF DrawTicket
    <2>3. \A u \in Thread : u # t => /\ Ticketed(u)' <=> Ticketed(u)
                                     /\ Writing(u)' <=> Writing(u)
                                     /\ ticket'[u] = ticket[u]
      BY <1>6 DEF DrawTicket
    <2>4. cur_writer_' = cur_writer_
      BY <1>6 DEF DrawTicket
    <2>5. QED
      BY <2>1, <2>2, <2>3, <2>4
         DEF Writers, TicketsInWindow, TicketsDistinct, WriterHasTurn
  <1>7. CASE LoadMode(t)
    <2>1. Types' /\ Roles /\ Keeps  BY <1>2, <1>3, <1>7 DEF LoadMode, Writers
    <2>2. QED  BY <1>7, <2>1, SameWriters DEF LoadMode
  <1>8. CASE LoadCount(t)
    <2>1. Types' /\ Roles /\ Keeps  BY <1>2, <1>3, <1>8 DEF LoadCount, Writers
    <2>2. QED  BY <1>8, <2>1, SameWriters DEF LoadCount
  <1>9. CASE ResetMode(t)
    <2>1. Types' /\ Roles /\ Keeps  BY <1>2, <1>3, <1>9 DEF ResetMode, Writers
    <2>2. QED  BY <1>9, <2>1, SameWriters DEF ResetMode
  <1>10. CASE SetMode(t)
    <2>1. Types' /\ Roles /\ Keeps  BY <1>10 DEF SetMode, Writers
    <2>2. QED  BY <1>10, <2>1, SameWriters DEF SetMode
  <1>11. CASE SpuriousFailure(t)
    <2>1. Types' /\ Roles /\ Keeps  BY <1>2, <1>3, <1>11 DEF SpuriousFailure, Writers
    <2>2. QED  BY <1>11, <2>1, SameWriters DEF SpuriousFailure
  <1>12. CASE ReloadMode(t)
    <2>1. Types' /\ Roles /\ Keeps  BY <1>12 DEF ReloadMode, Writers
    <2>2. QED  BY <1>12, <2>1, SameWriters DEF ReloadMode
  <1>13. CASE CheckTurn(t)
    <2>1. Types' /\ Roles /\ Keeps  BY <1>13 DEF CheckTurn, Writers
    <2>2. QED  BY <1>13, <2>1, SameWriters DEF CheckTurn
  <1>14. CASE ReadUnlock(t)
    <2>1. Types' /\ Roles /\ Keeps  BY <1>14 DEF ReadUnlock, Writers
    <2>2. QED  BY <1>14, <2>1, SameWriters DEF ReadUnlock
  <1>15. CASE WriteUnlock(t)
    <2>1. Types' /\ Roles /\ Keeps  BY <1>15 DEF WriteUnlock, Writers
    <2>2. QED  BY <1>15, <2>1, SameWriters DEF WriteUnlock
  <1>16. CASE NextWriter(t)
    <2>1. Writing(t)
      BY <1>16 DEF NextWriter
    <2>2. \A u \in Thread : Ticketed(u) /\ u # t => ticket[u] > cur_writer_ /\ ~Writing(u)
      BY <2>1, WriterWithTurn
    <2>3. \A u \in Thread : Writing(u) => Ticketed(u)
      BY <2>1, WriterWithTurn DEF Writers
    <2>4. Ticketed(t) /\ ticket[t] = cur_writer_ /\ ticket[t] < ticket_
      BY <2>1, <2>3 DEF Writers, WriterHasTurn, TicketsInWindow
    <2>5. /\ cur_writer_' \in Nat /\ cur_writer_' < RegWidth
          /\ cur_writer_' <= cur_writer_ + 1
      BY <1>16, NextTurn DEF NextWriter, Writers
    <2>6. Types' /\ Roles
      BY <1>16, <2>5 DEF NextWriter, Writers
    <2>7. \A u \in Thread : ~Writing(u)' /\ (Ticketed(u)' => Ticketed(u) /\ u # t)
      BY <1>16, <2>2, <2>3 DEF NextWriter
    <2>8. ticket' = ticket /\ ticket_' = ticket_
      BY <1>16 DEF NextWriter
    <2>9. QED
      BY <2>2, <2>4, <2>5, <2>6, <2>7, <2>8
         DEF Writers, TicketsInWindow, TicketsDistinct, WriterHasTurn
  <1>17. QED
    BY <1>4, <1>5, <1>6, <1>7, <1>8, <1>9, <1>10, <1>11, <1>12, <1>13, <1>14,
       <1>15, <1>16 DEF Step, Cas, AnyUnlock

-----------------------------------------------------------------------------
(* The counts *)

Readers == {t \in Thread : role[t] = "reader" /\ pc[t] # "idle"}
Counted == {t \in Thread : role[t] = "writer" /\ pc[t] \notin {"idle", "next"}}

LEMMA OneMore ==
  ASSUME NEW S, S \subseteq Thread, NEW t \in Thread
  PROVE  /\ IsFiniteSet(S) /\ Cardinality(S) \in Nat
         /\ t \notin S => Cardinality(S \union {t}) = Cardinality(S) + 1
         /\ t \in S => Cardinality(S \ {t}) = Cardinality(S) - 1
  <1>1. IsFiniteSet(S)  BY ThreadAssumption, FS_Subset
  <1>2. QED  BY <1>1, FS_CardinalityType, FS_AddElement, FS_RemoveElement

LEMMA NextCounts ==
  ASSUME IInv, [Next]_vars
  PROVE  CountsExact'
  <1> USE DEF IInv, Types, Goto, SetLocal, lockVars
  <1>1. CountsExact <=> readers_ = Cardinality(Readers) /\ writers_ = Cardinality(Counted)
    BY DEF CountsExact, Readers, Counted
  <1>2. CountsExact' <=> readers_' = Cardinality(Readers') /\ writers_' = Cardinality(Counted')
    BY DEF CountsExact, Readers, Counted
  <1>3. ASSUME Readers' = Readers, Counted' = Counted, UNCHANGED <<readers_, writers_>>
        PROVE  CountsExact'
    BY <1>1, <1>2, <1>3
  <1>4. CASE UNCHANGED vars
    BY <1>3, <1>4 DEF vars, Readers, Counted
  <1>w. Readers \subseteq Thread /\ Counted \subseteq Thread
    BY DEF Readers, Counted
  <1> SUFFICES ASSUME NEW t \in Thread,
                      \/ ReadLock(t) \/ WriteLock(t) \/ Step(t)
                      \/ SpuriousFailure(t) \/ AnyUnlock(t)
               PROVE  CountsExact'
    BY <1>4 DEF Next
  <1>5. CASE ReadLock(t)
    <2>1. t \notin Readers /\ Readers' = Readers \union {t} /\ Counted' = Counted
      BY <1>5 DEF ReadLock, Readers, Counted
    <2>2. Cardinality(Readers \union {t}) = Cardinality(Readers) + 1
      BY <1>w, <2>1, OneMore
    <2>3. QED  BY <1>1, <1>2, <1>5, <2>1, <2>2 DEF ReadLock
  <1>6. CASE WriteLock(t)
    <2>1. t \notin Counted /\ Counted' = Counted \union {t} /\ Readers' = Readers
      BY <1>6 DEF WriteLock, Readers, Counted
    <2>2. Cardinality(Counted \union {t}) = Cardinality(Counted) + 1
      BY <1>w, <2>1, OneMore
    <2>3. QED  BY <1>1, <1>2, <1>6, <2>1, <2>2 DEF WriteLock
  <1>7. CASE ReadUnlock(t)
    <2>1. t \in Readers /\ Readers' = Readers \ {t} /\ Counted' = Counted
      BY <1>7 DEF ReadUnlock, Readers, Counted
    <2>2. Cardinality(Readers \ {t}) = Cardinality(Readers) - 1
      BY <1>w, <2>1, OneMore
    <2>3. QED  BY <1>1, <1>2, <1>7, <2>1, <2>2 DEF ReadUnlock
  <1>8. CASE WriteUnlock(t)
    <2>1. t \in Counted /\ Counted' = Counted \ {t} /\ Readers' = Readers
      BY <1>8 DEF WriteUnlock, Readers, Counted
    <2>2. Cardinality(Counted \ {t}) = Cardinality(Counted) - 1
      BY <1>w, <2>1, OneMore
    <2>3. QED  BY <1>1, <1>2, <1>8, <2>1, <2>2 DEF WriteUnlock
  <1>9. CASE NextWriter(t)
    <2>1. role[t] = "writer"
      BY <1>9 DEF NextWriter, Writers, RoleOfPc
    <2>2. Readers' = Readers /\ Counted' = Counted
      BY <1>9, <2>1 DEF NextWriter, Readers, Counted
    <2>3. QED  BY <1>3, <1>9, <2>2 DEF NextWriter
  <1> DEFINE Inner == {"ticket", "load", "count", "reset", "cas", "reload", "turn", "in"}
  <1>10. ASSUME pc[t] \in Inner \ {"in"}, UNCHANGED <<readers_, writers_, role>>,
                NEW label \in Inner, pc' = [pc EXCEPT ![t] = label]
         PROVE  CountsExact'
    <2>1. Readers' = Readers /\ Counted' = Counted  BY <1>10 DEF Readers, Counted
    <2>2. QED  BY <1>3, <1>10, <2>1
  <1>11. \A m : AfterUpdate(t, m) \in Inner
    BY DEF AfterUpdate
  <1>12. CASE DrawTicket(t)
    BY <1>10, <1>12 DEF DrawTicket
  <1>13. CASE LoadMode(t)
    BY <1>10, <1>11, <1>13 DEF LoadMode
  <1>14. CASE LoadCount(t)
    BY <1>10, <1>11, <1>14 DEF LoadCount
  <1>15. CASE ResetMode(t)
    BY <1>10, <1>11, <1>15 DEF ResetMode
  <1>16. CASE SetMode(t)
    BY <1>10, <1>16 DEF SetMode
  <1>17. CASE ReloadMode(t)
    BY <1>10, <1>17 DEF ReloadMode
  <1>18. CASE CheckTurn(t)
    BY <1>10, <1>18 DEF CheckTurn
  <1>19. CASE SpuriousFailure(t)
    BY <1>10, <1>11, <1>19 DEF SpuriousFailure
  <1>20. QED
    BY <1>5, <1>6, <1>7, <1>8, <1>9, <1>12, <1>13, <1>14, <1>15, <1>16, <1>17,
       <1>18, <1>19 DEF Step, Cas, AnyUnlock

-----------------------------------------------------------------------------
LEMMA InitInv == Init => IInv
  <1> SUFFICES ASSUME Init PROVE IInv  OBVIOUS
  <1> USE DEF Init
  <1>1. Types  BY DEF Types, Mode
  <1>2. Writers
    BY RwAssumption DEF Writers, RoleOfPc, TicketsInWindow, TicketsDistinct,
                        WriterHasTurn, Ticketed, Writing, In
  <1>3. /\ {t \in Thread : role[t] = "reader" /\ pc[t] # "idle"} = {}
        /\ {t \in Thread : role[t] = "writer" /\ pc[t] \notin {"idle", "next"}} = {}
    OBVIOUS
  <1>4. CountsExact  BY <1>3, FS_EmptySet DEF CountsExact
  <1>5. QED  BY <1>1, <1>2, <1>4 DEF IInv

(***************************************************************************)
(* The inductive invariant of the writers and of the two counters.         *)
(***************************************************************************)
THEOREM Invariant == Safe => []IInv
  <1>1. IInv /\ [Next]_vars => IInv'
    BY NextWriters, NextCounts DEF IInv
  <1>2. QED  BY InitInv, <1>1, PTL DEF Safe

(***************************************************************************)
(* Two writers are never inside at once, whatever the readers and the mode *)
(* do (rwlock.h:137-145).                                                  *)
(***************************************************************************)
THEOREM Exclusion == Safe => []WriterExclusion
  <1>1. IInv => WriterExclusion
    <2> SUFFICES ASSUME IInv, NEW t \in Thread, NEW u \in Thread,
                        In(t, "writer"), In(u, "writer")
                 PROVE  t = u
      BY DEF WriterExclusion
    <2>1. Writing(t) /\ Writing(u) /\ Ticketed(u)
      BY DEF Writing, In, Ticketed
    <2>2. QED  BY <2>1, WriterWithTurn
  <1>2. QED  BY Invariant, <1>1, PTL

(***************************************************************************)
(* A writer inside has the turn until it gives it away (rwlock.h:139, 155).*)
(***************************************************************************)
THEOREM TurnKept == Safe => []WriterHasTurn
  <1>1. IInv => WriterHasTurn  BY DEF IInv, Writers
  <1>2. QED  BY Invariant, <1>1, PTL

(***************************************************************************)
(* readers_ and writers_ are the threads they should count (rwlock.h:94,   *)
(* 118, 127, 154).                                                         *)
(***************************************************************************)
THEOREM CountsRight == Safe => []CountsExact
  <1>1. IInv => CountsExact  BY DEF IInv
  <1>2. QED  BY Invariant, <1>1, PTL
-----------------------------------------------------------------------------
(* The bounds: MaxWrites counts the calls of WriteLock, also those that have *)
(* no ticket yet.                                                            *)

Drawing == {t \in Thread : pc[t] = "ticket"}

Bounded ==
  /\ ticket_ + Cardinality(Drawing) <= MaxWrites
  /\ \A t \in Thread : ticket[t] <= MaxWrites

LEMMA NextBounded ==
  ASSUME IInv, Bounded, [Next]_vars
  PROVE  Bounded'
  <1> USE RwAssumption DEF IInv, Types, Goto, SetLocal, lockVars
  <1>1. Drawing \subseteq Thread /\ IsFiniteSet(Drawing) /\ Cardinality(Drawing) \in Nat
    BY ThreadAssumption, FS_Subset, FS_CardinalityType DEF Drawing
  <1>2. ASSUME Drawing' = Drawing, UNCHANGED <<ticket_, ticket>>
        PROVE  Bounded'
    BY <1>2 DEF Bounded
  <1>3. CASE UNCHANGED vars
    BY <1>2, <1>3 DEF vars, Drawing
  <1> SUFFICES ASSUME NEW t \in Thread,
                      \/ ReadLock(t) \/ WriteLock(t) \/ Step(t)
                      \/ SpuriousFailure(t) \/ AnyUnlock(t)
               PROVE  Bounded'
    BY <1>3 DEF Next
  <1>4. CASE WriteLock(t)
    <2>1. ticket_ + Cardinality(Drawing) < MaxWrites
      BY <1>4 DEF WriteLock, Drawing
    <2>2. t \notin Drawing /\ Drawing' = Drawing \union {t}
      BY <1>4 DEF WriteLock, Drawing
    <2>3. Cardinality(Drawing \union {t}) = Cardinality(Drawing) + 1
      BY <1>1, <2>2, OneMore
    <2>4. ticket_' = ticket_ /\ ticket' = ticket
      BY <1>4 DEF WriteLock
    <2>5. QED  BY <1>1, <2>1, <2>2, <2>3, <2>4 DEF Bounded
  <1>5. CASE DrawTicket(t)
    <2>1. t \in Drawing /\ Drawing' = Drawing \ {t}
      BY <1>5 DEF DrawTicket, Drawing
    <2>2. Cardinality(Drawing \ {t}) = Cardinality(Drawing) - 1
      BY <1>1, <2>1, OneMore
    <2>3. ticket_' = ticket_ + 1 /\ ticket_ <= MaxWrites
      BY <1>1, <1>5 DEF DrawTicket, Bounded
    <2>4. \A u \in Thread : ticket'[u] = ticket[u] \/ ticket'[u] = ticket_
      BY <1>5 DEF DrawTicket
    <2>5. QED  BY <1>1, <2>1, <2>2, <2>3, <2>4 DEF Bounded
  <1>6. ASSUME pc[t] # "ticket", UNCHANGED <<ticket_, ticket>>,
               NEW label, label # "ticket", pc' = [pc EXCEPT ![t] = label]
        PROVE  Bounded'
    <2>1. Drawing' = Drawing  BY <1>6 DEF Drawing
    <2>2. QED  BY <1>2, <1>6, <2>1
  <1>7. \A m : AfterUpdate(t, m) # "ticket"
    BY DEF AfterUpdate
  <1>8. CASE ReadLock(t)
    BY <1>6, <1>8 DEF ReadLock
  <1>9. CASE LoadMode(t)
    BY <1>6, <1>7, <1>9 DEF LoadMode
  <1>10. CASE LoadCount(t)
    BY <1>6, <1>7, <1>10 DEF LoadCount
  <1>11. CASE ResetMode(t)
    BY <1>6, <1>7, <1>11 DEF ResetMode
  <1>12. CASE SetMode(t)
    BY <1>6, <1>12 DEF SetMode
  <1>13. CASE ReloadMode(t)
    BY <1>6, <1>13 DEF ReloadMode
  <1>14. CASE CheckTurn(t)
    BY <1>6, <1>14 DEF CheckTurn
  <1>15. CASE NextWriter(t)
    BY <1>6, <1>15 DEF NextWriter
  <1>16. CASE ReadUnlock(t)
    BY <1>6, <1>16 DEF ReadUnlock
  <1>17. CASE WriteUnlock(t)
    BY <1>6, <1>17 DEF WriteUnlock
  <1>18. CASE SpuriousFailure(t)
    BY <1>6, <1>7, <1>18 DEF SpuriousFailure
  <1>19. QED
    BY <1>4, <1>5, <1>8, <1>9, <1>10, <1>11, <1>12, <1>13, <1>14, <1>15, <1>16,
       <1>17, <1>18 DEF Step, Cas, AnyUnlock

LEMMA InitBounded == Init => Bounded
  <1> SUFFICES ASSUME Init PROVE Bounded  OBVIOUS
  <1>1. Drawing = {}  BY DEF Init, Drawing
  <1>2. QED  BY <1>1, RwAssumption, FS_EmptySet DEF Init, Bounded

(***************************************************************************)
(* The words of the lock keep their types: neither counter ever falls      *)
(* below zero or exceeds the threads there are, cur_writer_ keeps to its   *)
(* register (rwlock.h:36-40, 118, 154).                                    *)
(***************************************************************************)
THEOREM TypeCorrect == Safe => []TypeOK
  <1>1. IInv /\ Bounded /\ [Next]_vars => Bounded'
    BY NextBounded
  <1>2. IInv /\ Bounded => TypeOK
    <2> SUFFICES ASSUME IInv, Bounded PROVE TypeOK  OBVIOUS
    <2>1. /\ Readers \subseteq Thread /\ Counted \subseteq Thread /\ Drawing \subseteq Thread
      BY DEF Readers, Counted, Drawing
    <2>2. /\ Cardinality(Thread) \in Nat /\ Cardinality(Drawing) \in Nat
          /\ Cardinality(Readers) \in 0 .. Cardinality(Thread)
          /\ Cardinality(Counted) \in 0 .. Cardinality(Thread)
      <3>1. /\ Cardinality(Thread) \in Nat /\ Cardinality(Drawing) \in Nat
            /\ Cardinality(Readers) \in Nat /\ Cardinality(Counted) \in Nat
        BY <2>1, ThreadAssumption, FS_Subset, FS_CardinalityType
      <3>2. /\ Cardinality(Readers) <= Cardinality(Thread)
            /\ Cardinality(Counted) <= Cardinality(Thread)
        BY <2>1, ThreadAssumption, FS_Subset
      <3>3. QED  BY <3>1, <3>2
    <2>3. readers_ = Cardinality(Readers) /\ writers_ = Cardinality(Counted)
      BY DEF IInv, CountsExact, Readers, Counted
    <2>4. cur_writer_ \in 0 .. RegWidth - 1
      BY RwAssumption DEF IInv, Types, Writers
    <2>5. ticket_ \in 0 .. MaxWrites
      BY <2>2, RwAssumption DEF IInv, Types, Bounded
    <2>6. ticket \in [Thread -> 0 .. MaxWrites]
      <3>1. \A t \in Thread : ticket[t] \in 0 .. MaxWrites
        BY RwAssumption DEF IInv, Types, Bounded
      <3>2. QED  BY <3>1 DEF IInv, Types
    <2>7. QED
      BY <2>2, <2>3, <2>4, <2>5, <2>6 DEF IInv, Types, TypeOK
  <1>3. QED  BY Invariant, InitBounded, <1>1, <1>2, PTL DEF Safe

-----------------------------------------------------------------------------
(* The writers of every step of RwLock move as those of FcfsLock, or not. *)

LEMMA StepSimulates ==
  ASSUME IInv, [Next]_vars
  PROVE  [Fcfs!Next]_(Fcfs!vars)
  <1> USE DEF IInv, Types, Goto, SetLocal, lockVars, Ticketed, Writing, In
  <1>1. ASSUME UNCHANGED ticket,
               \A u \in Thread : /\ Ticketed(u)' <=> Ticketed(u)
                                 /\ Writing(u)' <=> Writing(u)
        PROVE  UNCHANGED Fcfs!vars
    BY <1>1 DEF Fcfs!vars, stageBar, aheadBar
  <1>2. CASE UNCHANGED vars
    BY <1>1, <1>2 DEF vars
  <1> SUFFICES ASSUME NEW t \in Thread,
                      \/ ReadLock(t) \/ WriteLock(t) \/ Step(t)
                      \/ SpuriousFailure(t) \/ AnyUnlock(t)
               PROVE  Fcfs!Next \/ UNCHANGED Fcfs!vars
    BY <1>2 DEF Next
  <1>3. \A m : AfterUpdate(t, m) \in {"cas", "in", "turn", "load"}
    BY DEF AfterUpdate
  <1>4. \A m : AfterUpdate(t, m) = "in" => role[t] = "reader"
    BY DEF AfterUpdate
  <1>5. CASE DrawTicket(t)
    <2>1. ~Ticketed(t) /\ role[t] = "writer" /\ Ticketed(t)' /\ ~Writing(t)'
      BY <1>5 DEF DrawTicket, Writers, RoleOfPc
    <2>2. \A u \in Thread : u # t => /\ Ticketed(u)' <=> Ticketed(u)
                                     /\ Writing(u)' <=> Writing(u)
                                     /\ ticket'[u] = ticket[u]
      BY <1>5 DEF DrawTicket
    <2>3. \A u \in Thread : Ticketed(u) => ticket[u] < ticket'[t]
      BY <1>5 DEF DrawTicket, Writers, TicketsInWindow
    <2>4. stageBar[t] = "out"  BY <2>1 DEF stageBar
    <2>5. stageBar' = [stageBar EXCEPT ![t] = "waiting"]
      BY <2>1, <2>2 DEF stageBar
    <2>6. Fcfs!Inside = {u \in Thread : Ticketed(u)}
      BY DEF Fcfs!Inside, stageBar
    <2>7. aheadBar' = [aheadBar EXCEPT ![t] = Fcfs!Inside]
      <3> DEFINE moved == [aheadBar EXCEPT ![t] = Fcfs!Inside]
      <3>1. \A u, v \in Thread :
              v \in aheadBar'[u] <=> v \in (IF u = t THEN Fcfs!Inside ELSE aheadBar[u])
        BY <2>1, <2>2, <2>3, <2>6, <1>5 DEF aheadBar, DrawTicket
      <3>2. /\ \A u \in Thread : aheadBar'[u] \subseteq Thread /\ aheadBar[u] \subseteq Thread
            /\ aheadBar' = [u \in Thread |-> aheadBar'[u]]
            /\ moved = [u \in Thread |-> IF u = t THEN Fcfs!Inside ELSE aheadBar[u]]
        BY DEF aheadBar
      <3>3. Fcfs!Inside \subseteq Thread
        BY <2>6
      <3> HIDE DEF moved
      <3>4. \A u \in Thread : aheadBar'[u] = moved[u]
        BY <3>1, <3>2, <3>3
      <3>5. aheadBar' = moved  BY <3>2, <3>4
      <3>6. QED  BY <3>5 DEF moved
    <2>8. QED  BY <2>4, <2>5, <2>7 DEF Fcfs!Request, Fcfs!Next
  <1>6. CASE CheckTurn(t) /\ cur_writer_ = ticket[t]
    <2>1. Ticketed(t) /\ ~Writing(t) /\ Writing(t)'
      BY <1>6 DEF CheckTurn, Writers, RoleOfPc
    <2>2. \A u \in Thread : Ticketed(u) => ~(ticket[u] < ticket[t])
      BY <1>6 DEF Writers, TicketsInWindow
    <2>3. \A u \in Thread : /\ Ticketed(u)' <=> Ticketed(u)
                            /\ u # t => (Writing(u)' <=> Writing(u))
      BY <1>6 DEF CheckTurn
    <2>4. stageBar[t] = "waiting"  BY <2>1 DEF stageBar
    <2>5. aheadBar[t] = {}  BY <2>2 DEF aheadBar
    <2>6. stageBar' = [stageBar EXCEPT ![t] = "holding"]
      BY <2>1, <2>3 DEF stageBar
    <2>7. UNCHANGED aheadBar  BY <1>6, <2>3 DEF CheckTurn, aheadBar
    <2>8. QED  BY <2>4, <2>5, <2>6, <2>7 DEF Fcfs!Enter, Fcfs!Next
  <1>7. CASE CheckTurn(t) /\ cur_writer_ # ticket[t]
    BY <1>1, <1>7 DEF CheckTurn
  <1>8. CASE NextWriter(t)
    <2>1. Ticketed(t) /\ Writing(t) /\ ~Ticketed(t)' /\ ticket[t] = cur_writer_
      BY <1>8 DEF NextWriter, Writers, RoleOfPc, WriterHasTurn
    <2>2. \A u \in Thread : Ticketed(u) => ~(ticket[u] < ticket[t])
      BY <2>1 DEF Writers, TicketsInWindow
    <2>3. \A u \in Thread : u # t => /\ Ticketed(u)' <=> Ticketed(u)
                                     /\ Writing(u)' <=> Writing(u)
      BY <1>8 DEF NextWriter
    <2>4. stageBar[t] = "holding"  BY <2>1 DEF stageBar
    <2>5. stageBar' = [stageBar EXCEPT ![t] = "out"]
      BY <2>1, <2>3 DEF stageBar
    <2>6. aheadBar' = [u \in Thread |-> aheadBar[u] \ {t}]
      <3>1. \A u, v \in Thread : v \in aheadBar'[u] <=> v \in aheadBar[u] \ {t}
        BY <1>8, <2>1, <2>2, <2>3 DEF NextWriter, aheadBar
      <3>2. QED  BY <3>1 DEF aheadBar
    <2>7. QED  BY <2>4, <2>5, <2>6 DEF Fcfs!Leave, Fcfs!Next
  <1>9. CASE ReadLock(t)         BY <1>1, <1>9 DEF ReadLock
  <1>10. CASE WriteLock(t)       BY <1>1, <1>10 DEF WriteLock
  <1>11. CASE LoadMode(t)        BY <1>1, <1>3, <1>4, <1>11 DEF LoadMode
  <1>12. CASE LoadCount(t)       BY <1>1, <1>3, <1>4, <1>12 DEF LoadCount
  <1>13. CASE ResetMode(t)       BY <1>1, <1>3, <1>4, <1>13 DEF ResetMode
  <1>14. CASE SetMode(t)         BY <1>1, <1>14 DEF SetMode
  <1>15. CASE SpuriousFailure(t) BY <1>1, <1>3, <1>4, <1>15 DEF SpuriousFailure
  <1>16. CASE ReloadMode(t)      BY <1>1, <1>16 DEF ReloadMode
  <1>17. CASE ReadUnlock(t)      BY <1>1, <1>17 DEF ReadUnlock
  <1>18. CASE WriteUnlock(t)     BY <1>1, <1>18 DEF WriteUnlock
  <1>19. QED
    BY <1>5, <1>6, <1>7, <1>8, <1>9, <1>10, <1>11, <1>12, <1>13, <1>14, <1>15,
       <1>16, <1>17, <1>18 DEF Step, Cas, AnyUnlock

(***************************************************************************)
(* Among themselves the writers have a first-come-first-served lock, a     *)
(* WriteLock asking when it draws its ticket (rwlock.h:128, 137-145, 155), *)
(* although readers and UpdateMode change the mode under them.             *)
(***************************************************************************)
THEOREM OrderOfWriters == Safe => WritersInOrder
  <1>1. Init => Fcfs!Init
    BY DEF Init, Fcfs!Init, stageBar, aheadBar, Ticketed
  <1>2. QED
    BY <1>1, StepSimulates, Invariant, PTL DEF Safe, Fcfs!Safe, WritersInOrder

-----------------------------------------------------------------------------
(* The mutex *)

\* A ticket in use was drawn and is not yet served.
MutexTicketsInWindow ==
  /\ head_ <= lock_
  /\ \A t \in Thread : Active(t) => head_ <= tkt[t] /\ tkt[t] < lock_

MutexTicketsDistinct ==
  \A t, u \in Thread : Active(t) /\ Active(u) /\ tkt[t] = tkt[u] => t = u

HolderIsServed ==
  \A t \in Thread : isLocked[t] => pc[t] = "idle" /\ tkt[t] = head_

LockInv == MutexTicketsInWindow /\ MutexTicketsDistinct /\ HolderIsServed

\* The threads whose fetch_add on the gate is not undone, but for those that won.
InGate == {t \in Thread : Past(t) \/ pc[t] = "undo"}

GateCounted == Cardinality(InGate) <= try_lock_

PastAlone == \A t, u \in Thread : Past(t) /\ Past(u) => t = u

MutexIInv == MutexTypeOK /\ GateCounted /\ PastAlone /\ LockInv /\ NoOrphanTicket

-----------------------------------------------------------------------------
LEMMA InGateFinite == /\ IsFiniteSet(InGate)
                      /\ Cardinality(InGate) \in Nat
  <1>1. InGate \subseteq Thread  BY DEF InGate
  <1>2. IsFiniteSet(InGate)      BY <1>1, ThreadAssumption, FS_Subset
  <1>3. QED                      BY <1>2, FS_CardinalityType

\* A thread inside the gate sees a positive count: its own fetch_add is in it.
LEMMA GatePositive ==
  ASSUME MutexTypeOK, GateCounted, NEW t \in Thread, t \in InGate
  PROVE  try_lock_ > 0
  <1>1. Cardinality(InGate) # 0
    BY InGateFinite, FS_EmptySet
  <1>2. QED
    BY <1>1, InGateFinite DEF GateCounted, MutexTypeOK

LEMMA MutexInitInv == MutexInit => MutexIInv
  <1> SUFFICES ASSUME MutexInit PROVE MutexIInv  OBVIOUS
  <1>1. MutexTypeOK  BY DEF MutexInit, MutexTypeOK
  <1>2. InGate = {}  BY DEF MutexInit, InGate, Past
  <1>3. GateCounted  BY <1>2, FS_EmptySet DEF GateCounted, MutexInit
  <1>4. PastAlone  BY DEF PastAlone, Past, MutexInit
  <1>5. LockInv
    BY DEF LockInv, MutexTicketsInWindow, MutexTicketsDistinct, HolderIsServed, Active,
           Waiting, MutexInit
  <1>6. NoOrphanTicket  BY DEF NoOrphanTicket, MutexInit
  <1>7. QED  BY <1>1, <1>3, <1>4, <1>5, <1>6 DEF MutexIInv

\* The type and the gate.
LEMMA NextGate ==
  ASSUME MutexIInv, [MutexNext]_mutexVars
  PROVE  MutexTypeOK' /\ GateCounted' /\ PastAlone'
  <1> USE DEF MutexIInv, MutexTypeOK, Goto, mem
  <1>1. CASE UNCHANGED mutexVars
    BY <1>1 DEF mutexVars, GateCounted, InGate, PastAlone, Past
  <1> SUFFICES ASSUME NEW t \in Thread,
                      Lock(t) \/ TryLock(t) \/ MutexStep(t) \/ Unlock(t)
               PROVE  MutexTypeOK' /\ GateCounted' /\ PastAlone'
    BY <1>1 DEF MutexNext
  <1> DEFINE Keeps == InGate' = InGate /\ try_lock_' = try_lock_
  <1>2. Keeps => GateCounted'
    BY DEF GateCounted
  <1>3. CASE Lock(t)
    <2>1. MutexTypeOK'  BY <1>3 DEF Lock, Draw
    <2>2. Keeps    BY <1>3 DEF Lock, InGate, Past
    <2>3. PastAlone'  BY <1>3 DEF Lock, PastAlone, Past
    <2>4. QED  BY <1>2, <2>1, <2>2, <2>3
  <1>4. CASE TryLock(t)
    <2>1. MutexTypeOK'  BY <1>4 DEF TryLock
    <2>2. InGate' = InGate \union {t}  BY <1>4 DEF TryLock, InGate, Past
    <2>3. t \notin InGate  BY <1>4 DEF TryLock, InGate, Past
    <2>4. Cardinality(InGate') = Cardinality(InGate) + 1
      BY <2>2, <2>3, InGateFinite, FS_AddElement
    <2>5. GateCounted'
      BY <1>4, <2>4, InGateFinite DEF GateCounted, TryLock
    <2>6. try_lock_ = 0 => \A u \in Thread : ~Past(u)
      BY GatePositive DEF InGate
    <2>7. PastAlone'  BY <1>4, <2>6 DEF TryLock, PastAlone, Past
    <2>8. QED  BY <2>1, <2>5, <2>7
  <1>5. CASE Acquire(t)
    <2>1. MutexTypeOK'  BY <1>5 DEF Acquire
    <2>2. Keeps    BY <1>5 DEF Acquire, InGate, Past
    <2>3. PastAlone'  BY <1>5 DEF Acquire, PastAlone, Past
    <2>4. QED  BY <1>2, <2>1, <2>2, <2>3
  <1>6. CASE LoadOperand(t)
    <2>1. MutexTypeOK'  BY <1>6 DEF LoadOperand
    <2>2. Keeps    BY <1>6 DEF LoadOperand, InGate, Past
    <2>3. PastAlone'  BY <1>6 DEF LoadOperand, PastAlone, Past
    <2>4. QED  BY <1>2, <2>1, <2>2, <2>3
  <1>7. CASE Compare(t)
    <2>1. MutexTypeOK'  BY <1>7 DEF Compare
    <2>2. Keeps    BY <1>7 DEF Compare, InGate, Past
    <2>3. PastAlone'  BY <1>7 DEF Compare, PastAlone, Past
    <2>4. QED  BY <1>2, <2>1, <2>2, <2>3
  <1>8. CASE TryUndo(t)
    <2>1. t \in InGate  BY <1>8 DEF TryUndo, InGate
    <2>2. InGate' = InGate \ {t}  BY <1>8 DEF TryUndo, InGate, Past
    <2>3. Cardinality(InGate') = Cardinality(InGate) - 1
      BY <2>1, <2>2, InGateFinite, FS_RemoveElement
    <2>4. try_lock_ > 0  BY <2>1, GatePositive
    <2>5. GateCounted'
      BY <1>8, <2>3, <2>4, InGateFinite DEF GateCounted, TryUndo
    <2>6. MutexTypeOK'  BY <1>8, <2>4 DEF TryUndo
    <2>7. PastAlone'  BY <1>8 DEF TryUndo, PastAlone, Past
    <2>8. QED  BY <2>5, <2>6, <2>7
  <1>9. CASE TryEnter(t)
    <2>1. MutexTypeOK'  BY <1>9 DEF TryEnter, Draw
    <2>2. InGate' = InGate \ {t}  BY <1>9 DEF TryEnter, InGate, Past
    <2>3. Cardinality(InGate') <= Cardinality(InGate)
      BY <2>2, InGateFinite, FS_Subset, FS_CardinalityType
    <2>4. Cardinality(InGate') \in Nat
      BY <2>2, InGateFinite, FS_Subset, FS_CardinalityType
    <2>5. GateCounted'
      BY <1>9, <2>3, <2>4, InGateFinite DEF GateCounted, TryEnter
    <2>6. PastAlone'  BY <1>9 DEF TryEnter, PastAlone, Past
    <2>7. QED  BY <2>1, <2>5, <2>6
  <1>10. CASE Unlock(t)
    <2>1. MutexTypeOK'  BY <1>10 DEF Unlock
    <2>2. Keeps    BY <1>10 DEF Unlock, InGate, Past
    <2>3. PastAlone'  BY <1>10 DEF Unlock, PastAlone, Past
    <2>4. QED  BY <1>2, <2>1, <2>2, <2>3
  <1>11. QED
    BY <1>3, <1>4, <1>5, <1>6, <1>7, <1>8, <1>9, <1>10 DEF MutexStep

\* The tickets.  Only drawing, acquiring and releasing touch them.
LEMMA NextLock ==
  ASSUME MutexIInv, [MutexNext]_mutexVars
  PROVE  LockInv' /\ NoOrphanTicket'
  <1> USE DEF MutexIInv, MutexTypeOK, LockInv, MutexTicketsInWindow, MutexTicketsDistinct,
              HolderIsServed, Active, Waiting, Goto, mem
  <1>1. CASE UNCHANGED mutexVars
    BY <1>1 DEF mutexVars, NoOrphanTicket
  <1> SUFFICES ASSUME NEW t \in Thread,
                      Lock(t) \/ TryLock(t) \/ MutexStep(t) \/ Unlock(t)
               PROVE  LockInv' /\ NoOrphanTicket'
    BY <1>1 DEF MutexNext
  <1>2. ASSUME pc[t] \in {"idle", "enter"}, ~isLocked[t], Draw(t),
               Goto(t, "spin"), UNCHANGED <<head_, isLocked>>
        PROVE  LockInv' /\ NoOrphanTicket'
    <2>1. MutexTicketsInWindow' /\ MutexTicketsDistinct' /\ HolderIsServed'
      BY <1>2 DEF Draw
    <2>2. NoOrphanTicket'
      <3> SUFFICES ASSUME NEW n \in head_' .. lock_' - 1
                   PROVE  \E u \in Thread : Active(u)' /\ tkt'[u] = n
        BY DEF NoOrphanTicket
      <3>1. CASE n = lock_
        BY <3>1, <1>2 DEF Draw
      <3>2. CASE n # lock_
        <4>1. n \in head_ .. lock_ - 1  BY <3>2, <1>2 DEF Draw
        <4>2. PICK u \in Thread : Active(u) /\ tkt[u] = n
          BY <4>1 DEF NoOrphanTicket
        <4>3. u # t  BY <4>2, <1>2
        <4>4. QED  BY <4>2, <4>3, <1>2 DEF Draw
      <3>3. QED  BY <3>1, <3>2
    <2>3. QED  BY <2>1, <2>2
  <1>3. ASSUME UNCHANGED <<lock_, head_, tkt, isLocked>>,
               \A u \in Thread : u # t => pc'[u] = pc[u],
               pc[t] # "spin", pc'[t] # "spin", ~isLocked[t]
        PROVE  LockInv' /\ NoOrphanTicket'
    <2>1. \A u \in Thread : Active(u)' <=> Active(u)  BY <1>3
    <2>2. NoOrphanTicket'
      <3> SUFFICES ASSUME NEW n \in head_' .. lock_' - 1
                   PROVE  \E u \in Thread : Active(u)' /\ tkt'[u] = n
        BY DEF NoOrphanTicket
      <3>1. PICK u \in Thread : Active(u) /\ tkt[u] = n
        BY <1>3 DEF NoOrphanTicket
      <3>2. Active(u)' /\ tkt'[u] = n  BY <2>1, <3>1, <1>3
      <3>3. QED  BY <3>2
    <2>3. MutexTicketsInWindow' /\ MutexTicketsDistinct' /\ HolderIsServed'
      BY <1>3, <2>1
    <2>4. QED  BY <2>2, <2>3
  <1>4. CASE Lock(t)  BY <1>4, <1>2 DEF Lock
  <1>5. CASE TryEnter(t)
    <2>1. ~isLocked[t]  BY <1>5 DEF TryEnter
    <2>2. QED  BY <1>5, <2>1, <1>2 DEF TryEnter
  <1>6. CASE TryLock(t)  BY <1>6, <1>3 DEF TryLock
  <1>7. CASE LoadOperand(t)
    <2>1. ~isLocked[t]  BY <1>7 DEF LoadOperand
    <2>2. QED  BY <1>7, <2>1, <1>3 DEF LoadOperand
  <1>8. CASE Compare(t)
    <2>1. ~isLocked[t] /\ pc[t] # "spin" /\ pc'[t] # "spin"
      BY <1>8 DEF Compare
    <2>2. QED  BY <1>8, <2>1, <1>3 DEF Compare
  <1>9. CASE TryUndo(t)
    <2>1. ~isLocked[t]  BY <1>9 DEF TryUndo
    <2>2. QED  BY <1>9, <2>1, <1>3 DEF TryUndo
  <1>10. CASE Acquire(t)
    <2>1. \A u \in Thread : Active(u)' <=> Active(u)  BY <1>10 DEF Acquire
    <2>2. NoOrphanTicket'
      <3> SUFFICES ASSUME NEW n \in head_' .. lock_' - 1
                   PROVE  \E u \in Thread : Active(u)' /\ tkt'[u] = n
        BY DEF NoOrphanTicket
      <3>1. PICK u \in Thread : Active(u) /\ tkt[u] = n
        BY <1>10 DEF NoOrphanTicket, Acquire
      <3>2. Active(u)' /\ tkt'[u] = n  BY <2>1, <3>1, <1>10 DEF Acquire
      <3>3. QED  BY <3>2
    <2>3. MutexTicketsInWindow' /\ MutexTicketsDistinct' /\ HolderIsServed'
      BY <1>10, <2>1 DEF Acquire
    <2>4. QED  BY <2>2, <2>3
  <1>11. CASE Unlock(t)
    <2>1. tkt[t] = head_ /\ head_ < lock_  BY <1>11 DEF Unlock
    <2>2. \A u \in Thread : Active(u)' <=> Active(u) /\ u # t
      BY <1>11 DEF Unlock
    <2>3. \A u \in Thread : Active(u) /\ u # t => tkt[u] # head_
      BY <2>1, <1>11 DEF Unlock
    <2>4. MutexTicketsInWindow' /\ MutexTicketsDistinct' /\ HolderIsServed'
      BY <2>1, <2>2, <2>3, <1>11 DEF Unlock
    <2>5. NoOrphanTicket'
      <3> SUFFICES ASSUME NEW n \in head_' .. lock_' - 1
                   PROVE  \E u \in Thread : Active(u)' /\ tkt'[u] = n
        BY DEF NoOrphanTicket
      <3>1. n \in head_ .. lock_ - 1 /\ n # head_  BY <1>11 DEF Unlock
      <3>2. PICK u \in Thread : Active(u) /\ tkt[u] = n
        BY <3>1 DEF NoOrphanTicket
      <3>3. u # t  BY <2>1, <3>1, <3>2
      <3>4. Active(u)' /\ tkt'[u] = n  BY <2>2, <3>2, <3>3, <1>11 DEF Unlock
      <3>5. QED  BY <3>4
    <2>6. QED  BY <2>4, <2>5
  <1>12. QED
    BY <1>4, <1>5, <1>6, <1>7, <1>8, <1>9, <1>10, <1>11 DEF MutexStep

(***************************************************************************)
(* The inductive invariant: the tickets in use are distinct, lie between   *)
(* head_ and lock_ with none missing, and the gate of TryLock counts the   *)
(* threads inside it (mutex.h:44-74).                                      *)
(***************************************************************************)
THEOREM MutexInvariant == MutexSafe => []MutexIInv
  <1>1. MutexInit => MutexIInv  BY MutexInitInv
  <1>2. MutexIInv /\ [MutexNext]_mutexVars => MutexIInv'
    BY NextGate, NextLock DEF MutexIInv
  <1>3. QED  BY <1>1, <1>2, PTL DEF MutexSafe

(***************************************************************************)
(* Lock, TryLock and Unlock keep the types of the words they work on; in   *)
(* particular fetch_sub never takes try_lock_ below zero (mutex.h:60).     *)
(***************************************************************************)
THEOREM MutexTypeCorrect == MutexSafe => []MutexTypeOK
  BY MutexInvariant, PTL DEF MutexIInv

(***************************************************************************)
(* Two guards never hold the mutex at once (mutex.h:44-74), for any number *)
(* of threads: they would have the same ticket, head_.                     *)
(***************************************************************************)
THEOREM MutexExclusion == MutexSafe => []MutualExclusion
  <1>1. MutexIInv => MutualExclusion
    BY DEF MutexIInv, LockInv, HolderIsServed, MutexTicketsDistinct, Active,
           MutualExclusion
  <1>2. QED  BY <1>1, MutexInvariant, PTL

(***************************************************************************)
(* No ticket between head_ and lock_ is without an owner, so no Unlock     *)
(* hands the mutex to nobody (mutex.h:73).                                 *)
(***************************************************************************)
THEOREM NoneOrphan == MutexSafe => []NoOrphanTicket
  BY MutexInvariant, PTL DEF MutexIInv

(***************************************************************************)
(* The gate is positive while a thread is inside it and lets one thread    *)
(* past at a time (mutex.h:59-62).                                         *)
(***************************************************************************)
THEOREM GateSound == MutexSafe => []GateHolds
  <1>1. MutexIInv => GateHolds
    BY GatePositive DEF MutexIInv, GateHolds, PastAlone, InGate
  <1>2. QED  BY <1>1, MutexInvariant, PTL

-----------------------------------------------------------------------------
\* Drawing a ticket puts t behind exactly those inside.
LEMMA DrawIsRequest ==
  ASSUME MutexIInv, NEW t \in Thread, pc[t] \in {"idle", "enter"}, ~isLocked[t],
         Draw(t), Goto(t, "spin"), UNCHANGED isLocked
  PROVE  MutexFcfs!Request(t)
  <1> USE DEF MutexIInv, MutexTypeOK, Draw, Goto, Active, Waiting
  <1>1. mutexStage[t] = "out"  BY DEF mutexStage
  <1>2. mutexStage' = [mutexStage EXCEPT ![t] = "waiting"]  BY DEF mutexStage
  <1>3. \A u \in Thread : Active(u) => tkt[u] < lock_
    BY DEF LockInv, MutexTicketsInWindow
  <1>4. MutexFcfs!Inside = {u \in Thread : Active(u)}
    BY DEF MutexFcfs!Inside, mutexStage
  <1>5. mutexAhead' = [mutexAhead EXCEPT ![t] = MutexFcfs!Inside]
    <2>1. mutexAhead'[t] = MutexFcfs!Inside  BY <1>3, <1>4 DEF mutexAhead
    <2>2. \A u \in Thread : u # t => mutexAhead'[u] = mutexAhead[u]
      BY <1>3 DEF mutexAhead
    <2>3. QED  BY <2>1, <2>2 DEF mutexAhead
  <1>6. QED  BY <1>1, <1>2, <1>5 DEF MutexFcfs!Request

\* Every step of the ticket lock is a step of the abstract lock or none.
LEMMA MutexStepSimulates ==
  ASSUME MutexIInv, [MutexNext]_mutexVars
  PROVE  [MutexFcfs!Next]_(MutexFcfs!vars)
  <1> USE DEF MutexIInv, MutexTypeOK, Active, Waiting, Goto, mem
  <1>1. ASSUME UNCHANGED <<tkt, isLocked>>,
               \A u \in Thread : (pc[u] = "spin") <=> (pc'[u] = "spin")
        PROVE  UNCHANGED MutexFcfs!vars
    BY <1>1 DEF MutexFcfs!vars, mutexStage, mutexAhead
  <1>2. CASE UNCHANGED mutexVars
    BY <1>1, <1>2 DEF mutexVars
  <1> SUFFICES ASSUME NEW t \in Thread,
                      Lock(t) \/ TryLock(t) \/ MutexStep(t) \/ Unlock(t)
               PROVE  MutexFcfs!Next \/ UNCHANGED MutexFcfs!vars
    BY <1>2 DEF MutexNext
  <1>3. CASE Lock(t)
    BY <1>3, DrawIsRequest DEF Lock, MutexFcfs!Next
  <1>4. CASE TryEnter(t)
    <2>1. ~isLocked[t]  BY <1>4 DEF TryEnter, LockInv, HolderIsServed
    <2>2. QED  BY <1>4, <2>1, DrawIsRequest DEF TryEnter, MutexFcfs!Next
  <1>5. CASE Acquire(t)
    <2>1. mutexStage[t] = "waiting"
      BY <1>5 DEF Acquire, mutexStage, LockInv, HolderIsServed
    <2>2. \A u \in Thread : Active(u) => ~(tkt[u] < tkt[t])
      BY <1>5 DEF Acquire, LockInv, MutexTicketsInWindow
    <2>3. mutexAhead[t] = {}  BY <2>2 DEF mutexAhead
    <2>4. mutexStage' = [mutexStage EXCEPT ![t] = "holding"]
      BY <1>5 DEF Acquire, mutexStage
    <2>5. UNCHANGED mutexAhead  BY <1>5 DEF Acquire, mutexAhead
    <2>6. QED  BY <2>1, <2>3, <2>4, <2>5 DEF MutexFcfs!Enter, MutexFcfs!Next
  <1>6. CASE Unlock(t)
    <2>1. mutexStage[t] = "holding"  BY <1>6 DEF Unlock, mutexStage
    <2>2. mutexStage' = [mutexStage EXCEPT ![t] = "out"]
      BY <1>6 DEF Unlock, mutexStage
    <2>3. \A u \in Thread : Active(u)' <=> Active(u) /\ u # t
      BY <1>6 DEF Unlock
    <2>4. \A u \in Thread : Active(u) => ~(tkt[u] < tkt[t])
      BY <1>6 DEF Unlock, LockInv, MutexTicketsInWindow, HolderIsServed
    <2>5. mutexAhead' = [u \in Thread |-> mutexAhead[u] \ {t}]
      BY <1>6, <2>3, <2>4 DEF Unlock, mutexAhead
    <2>6. QED  BY <2>1, <2>2, <2>5 DEF MutexFcfs!Leave, MutexFcfs!Next
  <1>7. CASE TryLock(t)  BY <1>7, <1>1 DEF TryLock
  <1>8. CASE LoadOperand(t)  BY <1>8, <1>1 DEF LoadOperand
  <1>9. CASE Compare(t)  BY <1>9, <1>1 DEF Compare
  <1>10. CASE TryUndo(t)  BY <1>10, <1>1 DEF TryUndo
  <1>11. QED
    BY <1>3, <1>4, <1>5, <1>6, <1>7, <1>8, <1>9, <1>10 DEF MutexStep

(***************************************************************************)
(* The mutex is a first-come-first-served lock (mutex.h:44-74): its steps  *)
(* are those of FcfsLock, a Lock asking when it draws its ticket.          *)
(***************************************************************************)
THEOREM Refinement == MutexSafe => MutexFcfs!Safe
  <1>1. MutexInit => MutexFcfs!Init
    BY DEF MutexInit, MutexFcfs!Init, mutexStage, mutexAhead, Active, Waiting
  <1>2. QED  BY <1>1, MutexStepSimulates, MutexInvariant, PTL DEF MutexSafe, MutexFcfs!Safe

-----------------------------------------------------------------------------
(* The free list of pages *)

Critical(t) == pc[t] \in DequeuePc \union {"unlock"}

ConsumersExclude ==
  \A t \in Thread : /\ pc[t] = "lock" \/ Critical(t) => t \in Consumers
                    /\ Critical(t) /\ MPMC => holders = {t}

EnqueueLocals ==
  \A t \in Thread : /\ Pushing(t) => page[t] \in Page
                    /\ pc[t] = "push" => next_shm_[page[t]] = tail[t]

DequeueLocals ==
  \A t \in Thread :
    /\ pc[t] \in {"next", "pop"} =>
         page[t] = tail[t] /\ page[t] \in Page /\ OnList(page[t])
    /\ pc[t] = "pop" => next[t] = next_shm_[page[t]]

CountPositive == \A t \in Thread : pc[t] \in DequeuePc \ {"size"} => count_ > 0

Control == PagesTypeOK /\ ConsumersExclude /\ CountPositive
List    == ListIsStack /\ PageInOnePlace /\ EnqueueLocals /\ DequeueLocals
PagesIInv    == Control /\ List

-----------------------------------------------------------------------------
(* Sequences *)

LEMMA Pushed ==
  ASSUME NEW S, NEW s \in Seq(S), NEW e \in S
  PROVE  /\ <<e>> \o s \in Seq(S)
         /\ Len(<<e>> \o s) = Len(s) + 1
         /\ (<<e>> \o s)[1] = e
         /\ \A i \in 1 .. Len(s) : (<<e>> \o s)[i + 1] = s[i]
  <1>1. <<e>> \in Seq(S) /\ Len(<<e>>) = 1 /\ <<e>>[1] = e  OBVIOUS
  <1>2. Len(s) \in Nat  OBVIOUS
  <1>3. /\ <<e>> \o s \in Seq(S)
        /\ Len(<<e>> \o s) = 1 + Len(s)
        /\ \A i \in 1 .. 1 + Len(s) : (<<e>> \o s)[i] =
              IF i <= 1 THEN <<e>>[i] ELSE s[i - 1]
    BY <1>1, ConcatProperties
  <1>4. (<<e>> \o s)[1] = e  BY <1>1, <1>2, <1>3
  <1>5. ASSUME NEW i \in 1 .. Len(s)  PROVE (<<e>> \o s)[i + 1] = s[i]
    <2>1. i + 1 \in 1 .. 1 + Len(s) /\ ~(i + 1 <= 1) /\ (i + 1) - 1 = i
      BY <1>2
    <2>2. QED  BY <2>1, <1>3
  <1>6. QED  BY <1>2, <1>3, <1>4, <1>5

-----------------------------------------------------------------------------
(* Control *)

LEMMA Alone ==
  ASSUME ConsumersExclude, NEW t \in Thread, NEW u \in Thread,
         Critical(t), Critical(u)
  PROVE  t = u
  BY ConsumerAssumption DEF ConsumersExclude

LEMMA NextControl ==
  ASSUME Control, List, [PagesNext]_pageVars
  PROVE  Control'
  <1> USE DEF Control, PagesTypeOK, ConsumersExclude, CountPositive, Critical, Link,
              EnqueuePc, DequeuePc, Goto, Forget, Return,
              shared, locals
  <1>1. CASE UNCHANGED pageVars
    BY <1>1 DEF pageVars
  <1> SUFFICES ASSUME NEW t \in Thread,
                      \/ \E p \in Page : Enqueue(t, p)
                      \/ Dequeue(t) \/ AcquireLock(t)
                      \/ PagesStep(t) \/ CasTailFails(t)
               PROVE  Control'
    BY <1>1 DEF PagesNext
  <1>2. CASE \E p \in Page : Enqueue(t, p)
    BY <1>2 DEF Enqueue
  <1>3. CASE Dequeue(t)
    BY <1>3 DEF Dequeue
  <1>4. CASE AcquireLock(t)
    BY <1>4 DEF AcquireLock
  <1>5. CASE LoadTail(t)
    BY <1>5 DEF LoadTail
  <1>6. CASE LinkPage(t)
    BY <1>6 DEF LinkPage
  <1>7. CASE Push(t)
    <2>1. page[t] \in Page
      BY <1>7 DEF Push, List, EnqueueLocals, Pushing
    <2>2. <<page[t]>> \o stack \in Seq(Page)
      BY <2>1, Pushed
    <2>3. QED
      BY <1>7, <2>1, <2>2 DEF Push
  <1>8. CASE Count(t)
    BY <1>8 DEF Count
  <1>9. CASE CheckSize(t)
    BY <1>9 DEF CheckSize
  <1>10. CASE LoadTop(t)
    BY <1>10 DEF LoadTop
  <1>11. CASE LoadNext(t)
    <2>1. page[t] \in Page
      BY <1>11 DEF LoadNext, List, DequeueLocals
    <2>2. QED
      BY <1>11, <2>1 DEF LoadNext
  <1>12. CASE Pop(t)
    <2>1. page[t] \in Page /\ OnList(page[t])
      BY <1>12 DEF Pop, List, DequeueLocals
    <2>2. stack # <<>>
      BY <2>1 DEF OnList
    <2>3. Tail(stack) \in Seq(Page)
      BY <2>2, HeadTailProperties
    <2>4. QED
      BY <1>12, <2>1, <2>3 DEF Pop
  <1>13. CASE Uncount(t)
    <2>1. count_ > 0 /\ count_ - 1 \in Nat
      BY <1>13 DEF Uncount
    <2>2. \A u \in Thread : u # t => ~Critical(u)
      BY <1>13, Alone DEF Uncount
    <2>3. QED
      BY <1>13, <2>1, <2>2 DEF Uncount
  <1>14. CASE Release(t)
    <2>1. \A u \in Thread : u # t => ~Critical(u)
      BY <1>14, Alone DEF Release
    <2>2. QED
      BY <1>14, <2>1 DEF Release
  <1>15. CASE CasTailFails(t)
    BY <1>15 DEF CasTailFails
  <1>16. QED
    BY <1>2, <1>3, <1>4, <1>5, <1>6, <1>7, <1>8, <1>9, <1>10, <1>11, <1>12,
       <1>13, <1>14, <1>15 DEF PagesStep, CasTail

-----------------------------------------------------------------------------
(* The list *)

\* Steps that change neither the list nor where pages are.
LEMMA SameList ==
  ASSUME List,
         UNCHANGED <<tail_shm_, next_shm_, stack, out>>,
         \A t \in Thread :
           /\ Pushing(t)' <=> Pushing(t)
           /\ Pushing(t) => page'[t] = page[t],
         EnqueueLocals', DequeueLocals'
  PROVE  List'
  <1>1. ListIsStack'
    BY DEF List, ListIsStack, TopIsFirst, Linked
  <1>2. PageInOnePlace'
    BY DEF List, PageInOnePlace, OnList
  <1>3. QED  BY <1>1, <1>2 DEF List

\* A page is linked while it is nowhere else, so the list does not notice.
LEMMA LinkPageList ==
  ASSUME PagesTypeOK, List, NEW t \in Thread, LinkPage(t)
  PROVE  List'
  <1> USE DEF LinkPage, Goto, PagesTypeOK, List, EnqueuePc
  <1>1. page[t] \in Page /\ ~OnList(page[t])
    BY DEF EnqueueLocals, PageInOnePlace, Pushing
  <1>2. \A p \in Page : p # page[t] => next_shm_'[p] = next_shm_[p]
    OBVIOUS
  <1>3. \A u \in Thread : Pushing(u)' <=> Pushing(u)
    BY DEF Pushing
  <1>4. ListIsStack'
    <2>1. TopIsFirst'  BY DEF ListIsStack, TopIsFirst
    <2>2. ASSUME NEW i \in 1 .. Len(stack)
          PROVE  next_shm_'[stack[i]] = IF i = Len(stack) THEN Null ELSE stack[i + 1]
      <3>1. stack[i] \in Page /\ stack[i] # page[t]
        BY <1>1 DEF OnList
      <3>2. QED  BY <1>2, <3>1 DEF ListIsStack, Linked
    <2>3. QED  BY <2>1, <2>2 DEF ListIsStack, Linked
  <1>5. PageInOnePlace'
    BY <1>3 DEF PageInOnePlace, OnList
  <1>6. EnqueueLocals'
    <2>1. ASSUME NEW u \in Thread, u # t, pc[u] = "push"
          PROVE  next_shm_'[page[u]] = tail[u]
      <3>1. Pushing(u) /\ Pushing(t)
        BY <2>1 DEF Pushing
      <3>2. page[u] \in Page /\ page[u] # page[t]
        BY <2>1, <3>1 DEF EnqueueLocals, PageInOnePlace
      <3>3. QED  BY <1>2, <2>1, <3>2 DEF EnqueueLocals
    <2>2. QED  BY <1>1, <1>3, <2>1 DEF EnqueueLocals, Pushing
  <1>7. DequeueLocals'
    <2>1. ASSUME NEW u \in Thread, pc[u] \in {"next", "pop"}
          PROVE  page[u] # page[t]
      BY <1>1, <2>1 DEF DequeueLocals
    <2>2. QED  BY <1>2, <2>1 DEF DequeueLocals, OnList
  <1>8. QED  BY <1>4, <1>5, <1>6, <1>7

LEMMA PushList ==
  ASSUME PagesTypeOK, List, NEW t \in Thread, Push(t)
  PROVE  List'
  <1> USE DEF Push, Goto, PagesTypeOK, List, EnqueuePc
  <1>1. CASE tail_shm_ # tail[t]
    <2>1. \A u \in Thread : (Pushing(u)' <=> Pushing(u)) /\ page'[u] = page[u]
      BY <1>1 DEF Pushing
    <2>2. EnqueueLocals'
      BY <1>1 DEF EnqueueLocals, Pushing
    <2>3. DequeueLocals'
      BY <1>1 DEF DequeueLocals, OnList
    <2>4. QED  BY <1>1, <2>1, <2>2, <2>3, SameList
  <1> SUFFICES ASSUME tail_shm_ = tail[t]  PROVE List'
    BY <1>1
  <1> DEFINE p == page[t]
  <1>2. p \in Page /\ ~OnList(p) /\ p \notin out /\ next_shm_[p] = tail_shm_
    BY DEF EnqueueLocals, PageInOnePlace, Pushing
  <1>3. /\ stack' \in Seq(Page) /\ Len(stack') = Len(stack) + 1
        /\ stack'[1] = p
        /\ \A i \in 1 .. Len(stack) : stack'[i + 1] = stack[i]
    BY <1>2, Pushed
  <1>4. Len(stack) \in Nat
    OBVIOUS
  <1>5. \A i \in 1 .. Len(stack') :
          i # 1 => i - 1 \in 1 .. Len(stack) /\ stack'[i] = stack[i - 1]
    <2>1. ASSUME NEW i \in 1 .. Len(stack'), i # 1
          PROVE  i - 1 \in 1 .. Len(stack) /\ stack'[(i - 1) + 1] = stack[i - 1]
      BY <1>3, <1>4, <2>1
    <2>2. \A i \in 1 .. Len(stack') : (i - 1) + 1 = i
      BY <1>3, <1>4
    <2>3. QED  BY <2>1, <2>2
  <1>6. \A q \in Page : OnList(q)' <=> q = p \/ OnList(q)
    <2>1. ASSUME NEW q \in Page, OnList(q)'  PROVE q = p \/ OnList(q)
      BY <1>3, <1>5, <2>1 DEF OnList
    <2>2. OnList(p)'
      BY <1>3, <1>4 DEF OnList
    <2>3. ASSUME NEW q \in Page, OnList(q)  PROVE OnList(q)'
      <3>1. PICK i \in 1 .. Len(stack) : stack[i] = q
        BY <2>3 DEF OnList
      <3>2. i + 1 \in 1 .. Len(stack') /\ stack'[i + 1] = q
        BY <1>3, <1>4, <3>1
      <3>3. QED  BY <3>2 DEF OnList
    <2>4. QED  BY <2>1, <2>2, <2>3
  <1>7. ListIsStack'
    <2>1. TopIsFirst'
      BY <1>3, <1>4 DEF TopIsFirst
    <2>2. ASSUME NEW i \in 1 .. Len(stack')
          PROVE  next_shm_'[stack'[i]] =
                   IF i = Len(stack') THEN Null ELSE stack'[i + 1]
      <3>1. CASE i = 1
        <4>1. CASE stack = <<>>
          BY <1>2, <1>3, <3>1, <4>1 DEF ListIsStack, TopIsFirst
        <4>2. CASE stack # <<>>
          <5>1. 1 \in 1 .. Len(stack) /\ i # Len(stack')
            BY <1>3, <1>4, <3>1, <4>2
          <5>2. stack'[i + 1] = stack[1]
            BY <1>3, <3>1, <5>1
          <5>3. QED
            BY <1>2, <1>3, <3>1, <4>2, <5>1, <5>2 DEF ListIsStack, TopIsFirst
        <4>3. QED  BY <4>1, <4>2
      <3>2. CASE i # 1
        <4>1. i - 1 \in 1 .. Len(stack) /\ stack'[i] = stack[i - 1]
          BY <1>5, <3>2
        <4>2. next_shm_[stack[i - 1]] =
                IF i - 1 = Len(stack) THEN Null ELSE stack[(i - 1) + 1]
          BY <4>1 DEF ListIsStack, Linked
        <4>3. CASE i = Len(stack')
          BY <1>3, <1>4, <4>1, <4>2, <4>3
        <4>4. CASE i # Len(stack')
          <5>1. i \in 1 .. Len(stack) /\ i - 1 # Len(stack) /\ (i - 1) + 1 = i
            BY <1>3, <1>4, <4>4
          <5>2. stack'[i + 1] = stack[i]
            BY <1>3, <5>1
          <5>3. QED  BY <4>1, <4>2, <4>4, <5>1, <5>2
        <4>5. QED  BY <4>3, <4>4
      <3>3. QED  BY <3>1, <3>2
    <2>3. QED  BY <2>1, <2>2 DEF ListIsStack, Linked
  <1>8. PageInOnePlace'
    <2>1. \A u \in Thread : Pushing(u)' <=> Pushing(u) /\ u # t
      BY DEF Pushing
    <2>2. ASSUME NEW q \in Page
          PROVE  \/ q \in out' \/ OnList(q)'
                 \/ \E u \in Thread : Pushing(u)' /\ page'[u] = q
      BY <1>6, <2>1 DEF PageInOnePlace
    <2>3. \A q \in out' : ~OnList(q)'
      BY <1>2, <1>6 DEF PageInOnePlace
    <2>4. ASSUME NEW i \in 1 .. Len(stack'), NEW j \in 1 .. Len(stack'),
                 stack'[i] = stack'[j]
          PROVE  i = j
      <3>1. CASE i = 1 /\ j # 1
        BY <1>2, <1>3, <1>5, <2>4, <3>1 DEF OnList
      <3>2. CASE i # 1 /\ j = 1
        BY <1>2, <1>3, <1>5, <2>4, <3>2 DEF OnList
      <3>3. CASE i # 1 /\ j # 1
        <4>1. /\ i - 1 \in 1 .. Len(stack) /\ stack'[i] = stack[i - 1]
              /\ j - 1 \in 1 .. Len(stack) /\ stack'[j] = stack[j - 1]
          BY <1>5, <3>3
        <4>2. \A m, n \in 1 .. Len(stack) : stack[m] = stack[n] => m = n
          BY DEF PageInOnePlace
        <4>3. i - 1 = j - 1
          BY <2>4, <4>1, <4>2
        <4>4. QED  BY <1>3, <1>4, <4>3
      <3>4. QED  BY <3>1, <3>2, <3>3
    <2>5. ASSUME NEW u \in Thread, Pushing(u)'
          PROVE  /\ page'[u] \notin out' /\ ~OnList(page[u])'
                 /\ \A v \in Thread : Pushing(v)' /\ page'[v] = page'[u] => v = u
      <3>1. Pushing(u) /\ u # t /\ Pushing(t)
        BY <2>1, <2>5 DEF Pushing
      <3>2. page[u] # p /\ page[u] \in Page
        BY <3>1 DEF PageInOnePlace, EnqueueLocals
      <3>3. QED
        BY <1>6, <2>1, <3>1, <3>2 DEF PageInOnePlace
    <2>6. QED  BY <2>2, <2>3, <2>4, <2>5 DEF PageInOnePlace
  <1>9. EnqueueLocals'
    BY DEF EnqueueLocals, Pushing
  <1>10. DequeueLocals'
    BY <1>6 DEF DequeueLocals
  <1>11. QED  BY <1>7, <1>8, <1>9, <1>10

LEMMA PopList ==
  ASSUME Control, List, NEW t \in Thread, Pop(t)
  PROVE  List'
  <1> USE DEF Pop, Goto, PagesTypeOK, Control, List, EnqueuePc
  <1>1. CASE tail_shm_ # tail[t]
    <2>1. \A u \in Thread : (Pushing(u)' <=> Pushing(u)) /\ page'[u] = page[u]
      BY <1>1 DEF Pushing
    <2>2. EnqueueLocals'
      BY <1>1 DEF EnqueueLocals, Pushing
    <2>3. DequeueLocals'
      BY <1>1 DEF DequeueLocals, OnList
    <2>4. QED  BY <1>1, <2>1, <2>2, <2>3, SameList
  <1> SUFFICES ASSUME tail_shm_ = tail[t]  PROVE List'
    BY <1>1
  <1> DEFINE p == page[t]
  <1>2. /\ p \in Page /\ OnList(p) /\ p = tail_shm_ /\ next[t] = next_shm_[p]
    BY DEF DequeueLocals
  <1>3. stack # <<>> /\ Len(stack) \in Nat /\ 1 \in 1 .. Len(stack) /\ stack[1] = p
    <2>1. stack # <<>>
      BY <1>2 DEF OnList
    <2>2. QED  BY <1>2, <2>1 DEF ListIsStack, TopIsFirst
  <1>4. /\ stack' \in Seq(Page) /\ Len(stack') = Len(stack) - 1
        /\ \A i \in 1 .. Len(stack') : stack'[i] = stack[i + 1]
    <2>1. stack' = Tail(stack)
      OBVIOUS
    <2>2. /\ Tail(stack) \in Seq(Page) /\ Len(Tail(stack)) = Len(stack) - 1
          /\ \A i \in 1 .. Len(Tail(stack)) : Tail(stack)[i] = stack[i + 1]
      BY <1>3, HeadTailProperties
    <2>3. QED  BY <2>1, <2>2
  <1>5. \A i \in 1 .. Len(stack') : i + 1 \in 1 .. Len(stack)
    BY <1>3, <1>4
  <1>6. \A i, j \in 1 .. Len(stack) : stack[i] = stack[j] => i = j
    BY DEF PageInOnePlace
  <1>7. \A q \in Page : OnList(q)' <=> OnList(q) /\ q # p
    <2>1. ASSUME NEW q \in Page, OnList(q)'  PROVE OnList(q) /\ q # p
      <3>1. PICK i \in 1 .. Len(stack') : stack'[i] = q
        BY <2>1 DEF OnList
      <3>2. i + 1 \in 1 .. Len(stack) /\ stack[i + 1] = q /\ i + 1 # 1
        BY <1>3, <1>4, <1>5, <3>1
      <3>3. QED  BY <1>3, <1>6, <3>2 DEF OnList
    <2>2. ASSUME NEW q \in Page, OnList(q), q # p  PROVE OnList(q)'
      <3>1. PICK i \in 1 .. Len(stack) : stack[i] = q
        BY <2>2 DEF OnList
      <3>2. i # 1
        BY <1>3, <2>2, <3>1
      <3>3. i - 1 \in 1 .. Len(stack') /\ (i - 1) + 1 = i
        BY <1>3, <1>4, <3>2
      <3>4. stack'[i - 1] = q
        BY <1>4, <3>1, <3>3
      <3>5. QED  BY <3>3, <3>4 DEF OnList
    <2>3. QED  BY <2>1, <2>2
  <1>8. ListIsStack'
    <2>1. TopIsFirst'
      <3>1. next_shm_[stack[1]] = IF 1 = Len(stack) THEN Null ELSE stack[2]
        <4>1. \A i \in 1 .. Len(stack) :
                next_shm_[stack[i]] = IF i = Len(stack) THEN Null ELSE stack[i + 1]
          BY DEF ListIsStack, Linked
        <4>2. 1 + 1 = 2  OBVIOUS
        <4>3. QED  BY <1>3, <4>1, <4>2
      <3>2. CASE Len(stack) = 1
        BY <1>2, <1>3, <1>4, <3>1, <3>2 DEF TopIsFirst
      <3>3. CASE Len(stack) # 1
        <4>1. 1 \in 1 .. Len(stack') /\ stack' # <<>>
          BY <1>3, <1>4, <3>3
        <4>2. stack'[1] = stack[2]
          BY <1>4, <4>1
        <4>3. QED  BY <1>2, <1>3, <3>1, <3>3, <4>1, <4>2 DEF TopIsFirst
      <3>4. QED  BY <3>2, <3>3
    <2>2. ASSUME NEW i \in 1 .. Len(stack')
          PROVE  next_shm_'[stack'[i]] =
                   IF i = Len(stack') THEN Null ELSE stack'[i + 1]
      <3>1. next_shm_[stack[i + 1]] =
              IF i + 1 = Len(stack) THEN Null ELSE stack[(i + 1) + 1]
        BY <1>5 DEF ListIsStack, Linked
      <3>2. CASE i = Len(stack')
        BY <1>3, <1>4, <3>1, <3>2
      <3>3. CASE i # Len(stack')
        <4>1. i + 1 \in 1 .. Len(stack') /\ i + 1 # Len(stack)
          BY <1>3, <1>4, <3>3
        <4>2. stack'[i + 1] = stack[(i + 1) + 1]
          BY <1>4, <4>1
        <4>3. QED  BY <1>4, <3>1, <3>3, <4>1, <4>2
      <3>4. QED  BY <3>2, <3>3
    <2>3. QED  BY <2>1, <2>2 DEF ListIsStack, Linked
  <1>9. \A u \in Thread : Pushing(u)' <=> Pushing(u)
    BY DEF Pushing
  <1>10. PageInOnePlace'
    <2>1. \A q \in Page :
            q \in out' \/ OnList(q)' \/ \E u \in Thread : Pushing(u)' /\ page'[u] = q
      BY <1>2, <1>7, <1>9 DEF PageInOnePlace
    <2>2. \A q \in out' : ~OnList(q)'
      BY <1>2, <1>7 DEF PageInOnePlace
    <2>3. ASSUME NEW i \in 1 .. Len(stack'), NEW j \in 1 .. Len(stack'),
                 stack'[i] = stack'[j]
          PROVE  i = j
      <3>1. i + 1 = j + 1
        BY <1>4, <1>5, <1>6, <2>3
      <3>2. QED  BY <1>3, <1>4, <3>1
    <2>4. ASSUME NEW u \in Thread, Pushing(u)'
          PROVE  /\ page'[u] \notin out' /\ ~OnList(page[u])'
                 /\ \A v \in Thread : Pushing(v)' /\ page'[v] = page'[u] => v = u
      <3>1. Pushing(u) /\ page[u] \in Page /\ ~OnList(page[u]) /\ page[u] # p
        BY <1>2, <1>9, <2>4 DEF PageInOnePlace, EnqueueLocals
      <3>2. QED  BY <1>2, <1>7, <1>9, <3>1 DEF PageInOnePlace
    <2>5. QED  BY <2>1, <2>2, <2>3, <2>4 DEF PageInOnePlace
  <1>11. EnqueueLocals'
    BY <1>9 DEF EnqueueLocals, Pushing
  <1>12. DequeueLocals'
    <2>1. ASSUME NEW u \in Thread, u # t  PROVE pc[u] \notin {"next", "pop"}
      BY <2>1, Alone DEF Critical, DequeuePc
    <2>2. QED  BY <2>1 DEF DequeueLocals
  <1>13. QED  BY <1>8, <1>10, <1>11, <1>12

LEMMA NextList ==
  ASSUME Control, List, [PagesNext]_pageVars
  PROVE  List'
  <1> USE DEF Control, PagesTypeOK, Link, EnqueuePc, Goto, Forget,
              Return, shared, locals
  <1>1. CASE UNCHANGED pageVars
    <2>1. \A u \in Thread : (Pushing(u)' <=> Pushing(u)) /\ page'[u] = page[u]
      BY <1>1 DEF pageVars, Pushing
    <2>2. EnqueueLocals' /\ DequeueLocals'
      BY <1>1 DEF pageVars, EnqueueLocals, DequeueLocals, Pushing, OnList, List
    <2>3. QED  BY <1>1, <2>1, <2>2, SameList DEF pageVars
  <1> SUFFICES ASSUME NEW t \in Thread,
                      \/ \E p \in Page : Enqueue(t, p)
                      \/ Dequeue(t) \/ AcquireLock(t)
                      \/ PagesStep(t) \/ CasTailFails(t)
               PROVE  List'
    BY <1>1 DEF PagesNext
  <1>2. ASSUME NEW p \in Page, Enqueue(t, p)  PROVE List'
    <2>1. p \in out /\ out' = out \ {p} /\ page'[t] = p /\ ~OnList(p)
      BY <1>2 DEF Enqueue, List, PageInOnePlace
    <2>2. \A u \in Thread : Pushing(u)' <=> Pushing(u) \/ u = t
      BY <1>2 DEF Enqueue, Pushing
    <2>3. \A u \in Thread : u # t => page'[u] = page[u]
      BY <1>2 DEF Enqueue
    <2>4. \A u \in Thread : Pushing(u) => page[u] # p
      BY <2>1 DEF List, PageInOnePlace
    <2>5. ListIsStack'
      BY <1>2 DEF Enqueue, List, ListIsStack, TopIsFirst, Linked
    <2>6. \A q \in Page : OnList(q)' <=> OnList(q)
      BY <1>2 DEF Enqueue, OnList
    <2>7. PageInOnePlace'
      <3>1. \A q \in Page :
              q \in out' \/ OnList(q)' \/ \E u \in Thread : Pushing(u)' /\ page'[u] = q
        <4>1. ASSUME NEW q \in Page, NEW u \in Thread, Pushing(u), page[u] = q
              PROVE  \E v \in Thread : Pushing(v)' /\ page'[v] = q
          <5>1. u # t  BY <1>2, <4>1 DEF Enqueue, Pushing
          <5>2. QED    BY <2>2, <2>3, <4>1, <5>1
        <4>2. QED  BY <2>1, <2>2, <2>6, <4>1 DEF List, PageInOnePlace
      <3>2. \A q \in out' : ~OnList(q)'
        BY <2>1, <2>6 DEF List, PageInOnePlace
      <3>3. \A i, j \in 1 .. Len(stack') : stack'[i] = stack'[j] => i = j
        BY <1>2 DEF Enqueue, List, PageInOnePlace
      <3>4. ASSUME NEW u \in Thread, Pushing(u)'
            PROVE  /\ page'[u] \notin out' /\ ~OnList(page[u])'
                   /\ \A v \in Thread : Pushing(v)' /\ page'[v] = page'[u] => v = u
        <4>1. CASE u = t
          BY <2>1, <2>2, <2>3, <2>4, <2>6, <4>1
        <4>2. CASE u # t
          <5>1. Pushing(u) /\ page[u] \in Page /\ page[u] # p /\ page'[u] = page[u]
            BY <2>2, <2>3, <2>4, <3>4, <4>2 DEF List, EnqueueLocals
          <5>2. QED
            BY <2>1, <2>2, <2>3, <2>6, <5>1 DEF List, PageInOnePlace
        <4>3. QED  BY <4>1, <4>2
      <3>5. QED  BY <3>1, <3>2, <3>3, <3>4 DEF PageInOnePlace
    <2>8. EnqueueLocals'
      BY <1>2, <2>1, <2>2, <2>3 DEF Enqueue, List, EnqueueLocals
    <2>9. DequeueLocals'
      BY <1>2, <2>6 DEF Enqueue, List, DequeueLocals
    <2>10. QED  BY <2>5, <2>7, <2>8, <2>9 DEF List
  <1> DEFINE Quiet == /\ UNCHANGED <<tail_shm_, next_shm_, stack, out>>
                      /\ \A u \in Thread : /\ Pushing(u)' <=> Pushing(u)
                                           /\ Pushing(u) => page'[u] = page[u]
  <1>3. ASSUME Quiet, EnqueueLocals', DequeueLocals'  PROVE List'
    BY <1>3, SameList
  <1>4. CASE Dequeue(t)
    <2>1. Quiet  BY <1>4 DEF Dequeue, Pushing
    <2>2. EnqueueLocals' /\ DequeueLocals'
      BY <1>4 DEF Dequeue, EnqueueLocals, DequeueLocals, Pushing, OnList, List
    <2>3. QED  BY <1>3, <2>1, <2>2
  <1>5. CASE AcquireLock(t)
    <2>1. Quiet  BY <1>5 DEF AcquireLock, Pushing
    <2>2. EnqueueLocals' /\ DequeueLocals'
      BY <1>5 DEF AcquireLock, EnqueueLocals, DequeueLocals, Pushing, OnList, List
    <2>3. QED  BY <1>3, <2>1, <2>2
  <1>6. CASE LoadTail(t)
    <2>1. Quiet  BY <1>6 DEF LoadTail, Pushing
    <2>2. EnqueueLocals' /\ DequeueLocals'
      BY <1>6 DEF LoadTail, EnqueueLocals, DequeueLocals, Pushing, OnList, List
    <2>3. QED  BY <1>3, <2>1, <2>2
  <1>7. CASE LinkPage(t)
    BY <1>7, LinkPageList
  <1>8. CASE Push(t)
    BY <1>8, PushList
  <1>9. CASE Count(t)
    <2>1. Quiet  BY <1>9 DEF Count, Pushing
    <2>2. EnqueueLocals' /\ DequeueLocals'
      BY <1>9 DEF Count, EnqueueLocals, DequeueLocals, Pushing, OnList, List
    <2>3. QED  BY <1>3, <2>1, <2>2
  <1>10. CASE CheckSize(t)
    <2>1. Quiet  BY <1>10 DEF CheckSize, Pushing
    <2>2. EnqueueLocals' /\ DequeueLocals'
      BY <1>10 DEF CheckSize, EnqueueLocals, DequeueLocals, Pushing, OnList, List
    <2>3. QED  BY <1>3, <2>1, <2>2
  <1>11. CASE LoadTop(t)
    <2>1. Quiet  BY <1>11 DEF LoadTop, Pushing
    <2>2. EnqueueLocals'
      BY <1>11 DEF LoadTop, EnqueueLocals, Pushing, List
    <2>3. DequeueLocals'
      <3>1. CASE tail_shm_ = Null
        BY <1>11, <3>1 DEF LoadTop, DequeueLocals, OnList, List
      <3>2. CASE tail_shm_ # Null
        <4>1. tail_shm_ \in Page /\ stack # <<>> /\ stack[1] = tail_shm_
          BY <3>2 DEF List, ListIsStack, TopIsFirst
        <4>2. OnList(tail_shm_)
          BY <4>1 DEF OnList
        <4>3. \A q : OnList(q)' <=> OnList(q)
          BY <1>11 DEF LoadTop, OnList
        <4>4. QED
          BY <1>11, <3>2, <4>1, <4>2, <4>3 DEF LoadTop, DequeueLocals, List
      <3>3. QED  BY <3>1, <3>2
    <2>4. QED  BY <1>3, <2>1, <2>2, <2>3
  <1>12. CASE LoadNext(t)
    <2>1. Quiet  BY <1>12 DEF LoadNext, Pushing
    <2>2. EnqueueLocals' /\ DequeueLocals'
      BY <1>12 DEF LoadNext, EnqueueLocals, DequeueLocals, Pushing, OnList, List
    <2>3. QED  BY <1>3, <2>1, <2>2
  <1>13. CASE Pop(t)
    BY <1>13, PopList
  <1>14. CASE Uncount(t)
    <2>1. Quiet  BY <1>14 DEF Uncount, Pushing
    <2>2. EnqueueLocals' /\ DequeueLocals'
      BY <1>14 DEF Uncount, EnqueueLocals, DequeueLocals, Pushing, OnList, List
    <2>3. QED  BY <1>3, <2>1, <2>2
  <1>15. CASE Release(t)
    <2>1. Quiet  BY <1>15 DEF Release, Pushing
    <2>2. EnqueueLocals' /\ DequeueLocals'
      BY <1>15 DEF Release, EnqueueLocals, DequeueLocals, Pushing, OnList, List
    <2>3. QED  BY <1>3, <2>1, <2>2
  <1>16. CASE CasTailFails(t)
    <2>1. Quiet  BY <1>16 DEF CasTailFails, Pushing
    <2>2. EnqueueLocals' /\ DequeueLocals'
      BY <1>16
      DEF CasTailFails, EnqueueLocals, DequeueLocals, Pushing, OnList, List
    <2>3. QED  BY <1>3, <2>1, <2>2
  <1>17. QED
    BY <1>2, <1>4, <1>5, <1>6, <1>7, <1>8, <1>9, <1>10, <1>11, <1>12, <1>13,
       <1>14, <1>15, <1>16 DEF PagesStep, CasTail

-----------------------------------------------------------------------------
LEMMA PagesInitInv == PagesInit => PagesIInv
  <1> SUFFICES ASSUME PagesInit PROVE PagesIInv  OBVIOUS
  <1> USE DEF PagesInit
  <1>1. Control
    BY
    DEF Control, PagesTypeOK, Link, ConsumersExclude, Critical, CountPositive,
         DequeuePc
  <1>2. ListIsStack
    BY DEF ListIsStack, TopIsFirst, Linked
  <1>3. PageInOnePlace
    BY DEF PageInOnePlace, OnList, Pushing, EnqueuePc
  <1>4. EnqueueLocals /\ DequeueLocals
    BY DEF EnqueueLocals, DequeueLocals, Pushing, EnqueuePc
  <1>5. QED  BY <1>1, <1>2, <1>3, <1>4 DEF PagesIInv, List

(***************************************************************************)
(* The inductive invariant of the free list: one dequeue at a time, and    *)
(* the page it is about stays on the list with the link it loaded.         *)
(***************************************************************************)
THEOREM PagesInvariant == PagesSafe => []PagesIInv
  <1>1. PagesIInv /\ [PagesNext]_pageVars => PagesIInv'
    BY NextControl, NextList DEF PagesIInv
  <1>2. QED  BY PagesInitInv, <1>1, PTL DEF PagesSafe

(***************************************************************************)
(* The words of the free list keep their types: count_ never falls below   *)
(* zero and a popped page is a page (mpsc_lifo_list_queue.h:215-232).      *)
(***************************************************************************)
THEOREM PagesTypeCorrect == PagesSafe => []PagesTypeOK
  <1>1. PagesIInv => PagesTypeOK  BY DEF PagesIInv, Control
  <1>2. QED  BY PagesInvariant, <1>1, PTL

(***************************************************************************)
(* The links run through exactly the pages on the list, whoever reuses     *)
(* them: the CAS of dequeue never meets the ABA problem with one consumer  *)
(* at a time (mpsc_lifo_list_queue.h:221-231).                             *)
(***************************************************************************)
THEOREM ListIntact == PagesSafe => []ListIsStack
  <1>1. PagesIInv => ListIsStack  BY DEF PagesIInv, List
  <1>2. QED  BY PagesInvariant, <1>1, PTL

(***************************************************************************)
(* No page is handed out twice and none is lost                            *)
(* (scalable_page_allocator.h:120, 189).                                   *)
(***************************************************************************)
THEOREM PagesConserved == PagesSafe => []PageInOnePlace
  <1>1. PagesIInv => PageInOnePlace  BY DEF PagesIInv, List
  <1>2. QED  BY PagesInvariant, <1>1, PTL
-----------------------------------------------------------------------------
(* The count *)

\* The calls between their CAS and their count.
Counting   == {t \in Thread : pc[t] = "count"}
Uncounting == {t \in Thread : pc[t] = "uncount"}

CountLags ==
  /\ IsFiniteSet(Counting) /\ IsFiniteSet(Uncounting)
  /\ count_ + Cardinality(Counting) = Len(stack) + Cardinality(Uncounting)

LEMMA PagesOneMore ==
  ASSUME NEW S, IsFiniteSet(S), NEW t
  PROVE  /\ Cardinality(S) \in Nat
         /\ t \notin S => /\ IsFiniteSet(S \union {t})
                         /\ Cardinality(S \union {t}) = Cardinality(S) + 1
         /\ t \in S => /\ IsFiniteSet(S \ {t})
                      /\ Cardinality(S \ {t}) = Cardinality(S) - 1
  BY FS_CardinalityType, FS_AddElement, FS_RemoveElement

LEMMA NextCount ==
  ASSUME Control, List, CountLags, [PagesNext]_pageVars
  PROVE  CountLags'
  <1> USE DEF Control, PagesTypeOK, Goto, shared, locals
  <1>1. /\ Cardinality(Counting) \in Nat /\ Cardinality(Uncounting) \in Nat
        /\ Len(stack) \in Nat /\ count_ \in Nat
    BY FS_CardinalityType DEF CountLags
  <1>2. ASSUME Counting' = Counting, Uncounting' = Uncounting, UNCHANGED <<count_, stack>>
        PROVE  CountLags'
    BY <1>2 DEF CountLags
  <1>3. CASE UNCHANGED pageVars
    BY <1>2, <1>3 DEF pageVars, Counting, Uncounting
  <1> SUFFICES ASSUME NEW t \in Thread,
                      \/ \E p \in Page : Enqueue(t, p)
                      \/ Dequeue(t) \/ AcquireLock(t)
                      \/ PagesStep(t) \/ CasTailFails(t)
               PROVE  CountLags'
    BY <1>3 DEF PagesNext
  <1>4. ASSUME pc[t] \notin {"count", "uncount"}, UNCHANGED <<count_, stack>>,
               NEW label, label \notin {"count", "uncount"}, Goto(t, label)
        PROVE  CountLags'
    <2>1. Counting' = Counting /\ Uncounting' = Uncounting
      BY <1>4 DEF Counting, Uncounting
    <2>2. QED  BY <1>2, <1>4, <2>1
  <1>5. CASE Push(t) /\ tail_shm_ = tail[t]
    <2>1. stack' = <<page[t]>> \o stack /\ page[t] \in Page
      BY <1>5 DEF Push, List, EnqueueLocals, Pushing, EnqueuePc
    <2>2. Len(stack') = Len(stack) + 1
      BY <2>1, Pushed
    <2>3. t \notin Counting /\ Counting' = Counting \union {t} /\ Uncounting' = Uncounting
      BY <1>5 DEF Push, Counting, Uncounting
    <2>4. /\ IsFiniteSet(Counting \union {t})
          /\ Cardinality(Counting \union {t}) = Cardinality(Counting) + 1
      BY <2>3, PagesOneMore DEF CountLags
    <2>5. count_' = count_  BY <1>5 DEF Push
    <2>6. QED  BY <1>1, <2>2, <2>3, <2>4, <2>5 DEF CountLags
  <1>6. CASE Count(t)
    <2>1. t \in Counting /\ Counting' = Counting \ {t} /\ Uncounting' = Uncounting
      BY <1>6 DEF Count, Counting, Uncounting
    <2>2. /\ IsFiniteSet(Counting \ {t})
          /\ Cardinality(Counting \ {t}) = Cardinality(Counting) - 1
      BY <2>1, PagesOneMore DEF CountLags
    <2>3. count_' = count_ + 1 /\ stack' = stack  BY <1>6 DEF Count
    <2>4. QED  BY <1>1, <2>1, <2>2, <2>3 DEF CountLags
  <1>7. CASE Pop(t) /\ tail_shm_ = tail[t]
    <2>1. stack # <<>> /\ stack' = Tail(stack)
      BY <1>7 DEF Pop, List, DequeueLocals, OnList
    <2>2. Len(stack') = Len(stack) - 1
      BY <2>1, HeadTailProperties
    <2>3. /\ t \notin Uncounting /\ Uncounting' = Uncounting \union {t}
          /\ Counting' = Counting
      BY <1>7 DEF Pop, Counting, Uncounting
    <2>4. /\ IsFiniteSet(Uncounting \union {t})
          /\ Cardinality(Uncounting \union {t}) = Cardinality(Uncounting) + 1
      BY <2>3, PagesOneMore DEF CountLags
    <2>5. count_' = count_  BY <1>7 DEF Pop
    <2>6. QED  BY <1>1, <2>2, <2>3, <2>4, <2>5 DEF CountLags
  <1>8. CASE Uncount(t)
    <2>1. t \in Uncounting /\ Uncounting' = Uncounting \ {t} /\ Counting' = Counting
      BY <1>8 DEF Uncount, Return, Counting, Uncounting
    <2>2. /\ IsFiniteSet(Uncounting \ {t})
          /\ Cardinality(Uncounting \ {t}) = Cardinality(Uncounting) - 1
      BY <2>1, PagesOneMore DEF CountLags
    <2>3. count_' = count_ - 1 /\ stack' = stack  BY <1>8 DEF Uncount
    <2>4. QED  BY <1>1, <2>1, <2>2, <2>3 DEF CountLags
  <1>9. CASE Push(t) /\ tail_shm_ # tail[t]
    BY <1>4, <1>9 DEF Push
  <1>10. CASE Pop(t) /\ tail_shm_ # tail[t]
    BY <1>4, <1>10 DEF Pop
  <1>11. CASE \E p \in Page : Enqueue(t, p)
    BY <1>4, <1>11 DEF Enqueue
  <1>12. CASE Dequeue(t)
    BY <1>4, <1>12 DEF Dequeue
  <1>13. CASE AcquireLock(t)
    BY <1>4, <1>13 DEF AcquireLock
  <1>14. CASE LoadTail(t)
    BY <1>4, <1>14 DEF LoadTail
  <1>15. CASE LinkPage(t)
    BY <1>4, <1>15 DEF LinkPage
  <1>16. CASE CheckSize(t)
    BY <1>4, <1>16 DEF CheckSize, Return
  <1>17. CASE LoadTop(t)
    BY <1>4, <1>17 DEF LoadTop, Return
  <1>18. CASE LoadNext(t)
    BY <1>4, <1>18 DEF LoadNext
  <1>19. CASE Release(t)
    BY <1>4, <1>19 DEF Release
  <1>20. CASE CasTailFails(t)
    BY <1>4, <1>20 DEF CasTailFails
  <1>21. QED
    BY <1>5, <1>6, <1>7, <1>8, <1>9, <1>10, <1>11, <1>12, <1>13, <1>14, <1>15,
       <1>16, <1>17, <1>18, <1>19, <1>20 DEF PagesStep, CasTail

LEMMA InitCount == PagesInit => CountLags
  <1> SUFFICES ASSUME PagesInit PROVE CountLags  OBVIOUS
  <1>1. Counting = {} /\ Uncounting = {}
    BY DEF PagesInit, Counting, Uncounting
  <1>2. QED  BY <1>1, FS_EmptySet DEF PagesInit, CountLags

(***************************************************************************)
(* count_ is the length of the list but for the calls that have done their *)
(* CAS and not their count, and a dequeue past its look at the size always *)
(* leaves it positive: the unsigned counter never wraps                    *)
(* (mpsc_lifo_list_queue.h:185, 215, 232).                                 *)
(***************************************************************************)
THEOREM CountRight == PagesSafe => []CountExact
  <1>1. PagesIInv /\ CountLags /\ [PagesNext]_pageVars => CountLags'
    BY NextCount DEF PagesIInv
  <1>2. PagesIInv /\ CountLags => CountExact
    BY DEF PagesIInv, Control, CountPositive, CountLags, Counting, Uncounting, CountExact
  <1>3. QED  BY PagesInvariant, InitCount, <1>1, <1>2, PTL DEF PagesSafe
=============================================================================
