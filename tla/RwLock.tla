------------------------------- MODULE RwLock -------------------------------
(***************************************************************************)
(* hshm::RwLock (thread/lock/rwlock.h), one action per access to a shared  *)
(* atomic.  The mode says who may enter: readers while it is kRead, the    *)
(* writer whose ticket is cur_writer_ while it is kWrite, and whoever      *)
(* finds it kNone may set it.  UpdateMode is the only way back to kNone:   *)
(* it loads the mode, then a counter, and resets the mode with a CAS if    *)
(* the counter was 0, however long ago that was.                           *)
(*                                                                         *)
(* The scoped guards add nothing here: each thread's calls are paired.     *)
(* readers_ and writers_ count threads and never wrap.  cur_writer_ is     *)
(* 32-bit while ticket_ and the local ticket are 64-bit: RegWidth stands   *)
(* for 2^32.  MaxWrites bounds the number of calls of WriteLock.           *)
(***************************************************************************)
EXTENDS Naturals, Threads

CONSTANTS MaxWrites, RegWidth

ASSUME RwAssumption == MaxWrites \in Nat /\ RegWidth \in Nat \ {0}

VARIABLES
  mode_, readers_, writers_, cur_writer_, ticket_,
  role,    \* role[t]: which of the two locks t calls or holds
  mode,    \* mode[t]: the local `mode` of ReadLock and WriteLock
  ticket   \* ticket[t]: the local tkt of WriteLock

lockVars == <<mode_, readers_, writers_, cur_writer_, ticket_>>
vars     == <<lockVars, pc, role, mode, ticket>>

Mode == {"kNone", "kRead", "kWrite"}

TypeOK ==
  /\ mode_ \in Mode
  /\ readers_ \in 0 .. Cardinality(Thread)
  /\ writers_ \in 0 .. Cardinality(Thread)
  /\ cur_writer_ \in 0 .. RegWidth - 1
  /\ ticket_ \in 0 .. MaxWrites
  /\ pc \in [Thread -> {"idle", "ticket", "load", "count", "reset", "cas",
                        "reload", "turn", "in", "next"}]
  /\ role \in [Thread -> {"reader", "writer"}]
  /\ mode \in [Thread -> Mode]
  /\ ticket \in [Thread -> 0 .. MaxWrites]

Init ==
  /\ mode_ = "kNone"
  /\ readers_ = 0 /\ writers_ = 0 /\ cur_writer_ = 0 /\ ticket_ = 0
  /\ pc = [t \in Thread |-> "idle"]
  /\ role = [t \in Thread |-> "reader"]
  /\ mode = [t \in Thread |-> "kNone"]
  /\ ticket = [t \in Thread |-> 0]

SetLocal(t, m) == mode' = [mode EXCEPT ![t] = m]

\* Where ReadLock and WriteLock go on when UpdateMode returns with mode m.
AfterUpdate(t, m) ==
  CASE m = "kNone"                         -> "cas"
    [] m = "kRead" /\ role[t] = "reader"   -> "in"
    [] m = "kWrite" /\ role[t] = "writer"  -> "turn"
    [] OTHER                               -> "load"

-----------------------------------------------------------------------------
(* The calls *)

ReadLock(t) ==
  /\ pc[t] = "idle"
  /\ readers_' = readers_ + 1
  /\ role' = [role EXCEPT ![t] = "reader"]
  /\ Goto(t, "load")
  /\ UNCHANGED <<mode_, writers_, cur_writer_, ticket_, mode, ticket>>

ReadUnlockTwice(t) ==          \* readers_.fetch_sub(1) executed twice
  /\ pc[t] = "in" /\ role[t] = "reader"
  /\ readers_' = readers_ - 2
  /\ Goto(t, "idle")
  /\ UNCHANGED <<mode_, writers_, cur_writer_, ticket_, role, mode, ticket>>

ReadUnlock(t) ==
  /\ pc[t] = "in" /\ role[t] = "reader"
  /\ readers_' = readers_ - 1
  /\ Goto(t, "idle")
  /\ UNCHANGED <<mode_, writers_, cur_writer_, ticket_, role, mode, ticket>>

\* A thread between the two fetch_adds is counted and has no ticket yet;
\* MaxWrites bounds the calls, those included.
WriteLock(t) ==
  /\ pc[t] = "idle"
  /\ ticket_ + Cardinality({u \in Thread : pc[u] = "ticket"}) < MaxWrites
  /\ writers_' = writers_ + 1
  /\ role' = [role EXCEPT ![t] = "writer"]
  /\ Goto(t, "ticket")
  /\ UNCHANGED <<mode_, readers_, cur_writer_, ticket_, mode, ticket>>

DrawStaleTicket(t) ==          \* tkt = ticket_.load() and a separate add
  /\ pc[t] = "ticket"
  /\ ticket' = [ticket EXCEPT ![t] = IF ticket_ > 0 THEN ticket_ - 1 ELSE 0]
  /\ ticket_' = ticket_ + 1
  /\ Goto(t, "load")
  /\ UNCHANGED <<mode_, readers_, writers_, cur_writer_, role, mode>>

DrawTicket(t) ==
  /\ pc[t] = "ticket"
  /\ ticket' = [ticket EXCEPT ![t] = ticket_]
  /\ ticket_' = ticket_ + 1
  /\ Goto(t, "load")
  /\ UNCHANGED <<mode_, readers_, writers_, cur_writer_, role, mode>>

\* WriteUnlock is two atomics: the count falls before the next writer's turn.
WriteUnlock(t) ==
  /\ pc[t] = "in" /\ role[t] = "writer"
  /\ writers_' = writers_ - 1
  /\ Goto(t, "next")
  /\ UNCHANGED <<mode_, readers_, cur_writer_, ticket_, role, mode, ticket>>

NoNextWriter(t) ==             \* WriteUnlock without cur_writer_.fetch_add
  /\ pc[t] = "next"
  /\ Goto(t, "idle")
  /\ UNCHANGED <<lockVars, role, mode, ticket>>

NextWriter(t) ==
  /\ pc[t] = "next"
  /\ cur_writer_' = (cur_writer_ + 1) % RegWidth
  /\ Goto(t, "idle")
  /\ UNCHANGED <<mode_, readers_, writers_, ticket_, role, mode, ticket>>

-----------------------------------------------------------------------------
(* UpdateMode *)

LoadMode(t) ==
  /\ pc[t] = "load"
  /\ SetLocal(t, mode_)
  /\ Goto(t, IF mode_ = "kNone" THEN AfterUpdate(t, mode_) ELSE "count")
  /\ UNCHANGED <<lockVars, role, ticket>>

\* The other counter is loaded too where the condition needs it; it decides nothing.
LoadCount(t) ==
  /\ pc[t] = "count"
  /\ LET count == IF mode[t] = "kRead" THEN readers_ ELSE writers_
     IN  Goto(t, IF count = 0 THEN "reset" ELSE AfterUpdate(t, mode[t]))
  /\ UNCHANGED <<lockVars, role, mode, ticket>>

\* CAS(mode, kNone): a success leaves the local at the old mode.
ResetMode(t) ==
  /\ pc[t] = "reset"
  /\ IF mode_ = mode[t]
       THEN /\ mode_' = "kNone"
            /\ Goto(t, AfterUpdate(t, mode[t]))
            /\ UNCHANGED mode
       ELSE /\ SetLocal(t, mode_)
            /\ Goto(t, AfterUpdate(t, mode_))
            /\ UNCHANGED mode_
  /\ UNCHANGED <<readers_, writers_, cur_writer_, ticket_, role, ticket>>

-----------------------------------------------------------------------------
(* The rest of the loop of ReadLock and WriteLock *)

\* CAS(kNone, own mode): a reader that succeeds is inside, a writer reloads.
SetMode(t) ==
  /\ pc[t] = "cas"
  /\ mode_' = IF mode_ # "kNone" THEN mode_
              ELSE IF role[t] = "reader" THEN "kRead" ELSE "kWrite"
  /\ Goto(t, IF role[t] = "writer" THEN "reload"
             ELSE IF mode_ = "kNone" THEN "in" ELSE "load")
  /\ UNCHANGED <<readers_, writers_, cur_writer_, ticket_, role, mode, ticket>>

\* compare_exchange_weak may fail although the mode is the expected one.
SpuriousFailure(t) ==
  /\ \/ /\ pc[t] = "reset" /\ mode_ = mode[t]
        /\ Goto(t, AfterUpdate(t, mode[t]))
     \/ /\ pc[t] = "cas" /\ mode_ = "kNone"
        /\ Goto(t, IF role[t] = "writer" THEN "reload" ELSE "load")
  /\ UNCHANGED <<lockVars, role, mode, ticket>>

ReloadMode(t) ==
  /\ pc[t] = "reload"
  /\ SetLocal(t, mode_)
  /\ Goto(t, IF mode_ = "kWrite" THEN "turn" ELSE "load")
  /\ UNCHANGED <<lockVars, role, ticket>>

EnterUnchecked(t) ==           \* WriteLock without the comparison of tickets
  /\ pc[t] = "turn"
  /\ Goto(t, "in")
  /\ UNCHANGED <<lockVars, role, mode, ticket>>

CheckTurn(t) ==
  /\ pc[t] = "turn"
  /\ Goto(t, IF cur_writer_ = ticket[t] THEN "in" ELSE "load")
  /\ UNCHANGED <<lockVars, role, mode, ticket>>

-----------------------------------------------------------------------------
Cas(t)  == ResetMode(t) \/ SetMode(t)
Step(t) == DrawTicket(t) \/ LoadMode(t) \/ LoadCount(t) \/ Cas(t)
             \/ ReloadMode(t) \/ CheckTurn(t) \/ NextWriter(t)
AnyUnlock(t) == ReadUnlock(t) \/ WriteUnlock(t)

Next == \E t \in Thread :
          ReadLock(t) \/ WriteLock(t) \/ Step(t) \/ SpuriousFailure(t) \/ AnyUnlock(t)

Safe == Init /\ [][Next]_vars

(***************************************************************************)
(* A thread inside a call is scheduled and critical sections end.  A weak  *)
(* CAS may fail spuriously, but not for ever, hence the strong fairness.   *)
(***************************************************************************)
Fairness == \A t \in Thread :
              WF_vars(Step(t)) /\ SF_vars(Cas(t)) /\ WF_vars(AnyUnlock(t))

Spec == Safe /\ Fairness

-----------------------------------------------------------------------------
(* Properties *)

In(t, r)   == pc[t] = "in" /\ role[t] = r
Wants(t)   == pc[t] \notin {"idle", "in", "next"}
Writing(t) == In(t, "writer") \/ pc[t] = "next"
Ticketed(t) == role[t] = "writer" /\ pc[t] \notin {"idle", "ticket"}

(***************************************************************************)
(* Two writers are never inside at once, although the mode may be reset    *)
(* under them: the ticket alone keeps them apart (rwlock.h:128, 138-145).  *)
(***************************************************************************)
WriterExclusion ==
  \A t, u \in Thread : In(t, "writer") /\ In(u, "writer") => t = u

(***************************************************************************)
(* readers_ and writers_ are exactly the threads between their fetch_add   *)
(* and their fetch_sub, whatever UpdateMode does meanwhile: a counter that *)
(* drifts would block the mode for good (rwlock.h:94, 118, 127, 154).      *)
(***************************************************************************)
CountsExact ==
  /\ readers_ = Cardinality({t \in Thread : role[t] = "reader" /\ pc[t] # "idle"})
  /\ writers_ = Cardinality({t \in Thread : role[t] = "writer"
                                            /\ pc[t] \notin {"idle", "next"}})

(***************************************************************************)
(* A writer inside always finds itself served when it leaves: cur_writer_  *)
(* is its ticket and nobody else moves it, so no turn is skipped           *)
(* (rwlock.h:139, 155).                                                    *)
(***************************************************************************)
WriterHasTurn == \A t \in Thread : Writing(t) => cur_writer_ = ticket[t]

(***************************************************************************)
(* As long as somebody wants in, somebody gets in: no mix of stale loads,  *)
(* resets and failed CASes locks everybody out (rwlock.h:97-113, 131-148). *)
(* Who gets in is not promised: readers may starve writers and the other   *)
(* way round.  It needs tickets below 2^32: see RegWidth.  Every thread of *)
(* the test counts on it (test_lock.cc:54-67).                             *)
(***************************************************************************)
SomebodyGetsIn ==
  (\E t \in Thread : Wants(t)) ~> (\E t \in Thread : pc[t] = "in")

(***************************************************************************)
(* Among themselves the writers are served in the order of their tickets,  *)
(* as by the abstract first-come-first-served lock.                        *)
(***************************************************************************)
stageBar ==
  [t \in Thread |-> IF ~Ticketed(t) THEN "out"
                    ELSE IF Writing(t) THEN "holding" ELSE "waiting"]
aheadBar ==
  [t \in Thread |-> {u \in Thread : /\ Ticketed(t) /\ Ticketed(u)
                                    /\ ticket[u] < ticket[t]}]

Fcfs == INSTANCE FcfsLock WITH Client <- Thread, stage <- stageBar, ahead <- aheadBar

WritersInOrder == Fcfs!Safe

(***************************************************************************)
(* "A reader-writer lock implementation" (rwlock.h:32): a reader and a     *)
(* writer are never inside together.                                       *)
(***************************************************************************)
ReadersExcludeWriters ==
  \A t, u \in Thread : ~(In(t, "reader") /\ In(u, "writer"))
=============================================================================
