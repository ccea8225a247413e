-------------------------- MODULE SplitTicketQueue --------------------------
(***************************************************************************)
(* split_ticket_queue (data_structures/ipc/split_ticket_queue.h): tickets  *)
(* spread over NumSplits ticket_queues (ticket_queue.h), each of them a    *)
(* fixed ring of Depth slots under a mutex.  A call begins at the split its*)
(* counter names and tries one after the other; a ticket_queue is          *)
(* NumSplits = 1.                                                          *)
(*                                                                         *)
(* One action is one call of a ticket_queue, from Lock to Unlock: TicketLock*)
(* has the mutex, and RingQueue, whose kind "locked" it is, the ring.      *)
(* Between two of them anything may happen to the splits.                  *)
(*                                                                         *)
(* rr_tail_ and rr_head_ are taken as uint16_t: RrWidth is 2^16 there.     *)
(***************************************************************************)
EXTENDS Integers, Sequences, FiniteSets

CONSTANTS Thread, Ticket, NumSplits, Depth, RrWidth

ASSUME SplitAssumption ==
  /\ NumSplits \in Nat \ {0}
  /\ Depth \in Nat
  /\ RrWidth \in Nat \ {0}

Split == 0 .. NumSplits - 1

VARIABLES
  queue,       \* queue[q]: the tickets in split q, the oldest first
  rr_tail_, rr_head_,
  call,        \* call[t]: the call that thread t is in
  start,       \* start[t], tried[t]: its locals qid_start and i
  tried,
  tkt,         \* tkt[t]: the ticket that its emplace is to insert
  loose,       \* the tickets that belong to callers
  stayed,      \* history: the tickets in the queue since the pop of t began
  roomy        \* history: the splits with room since the emplace of t began

vars == <<queue, rr_tail_, rr_head_, call, start, tried, tkt, loose, stayed, roomy>>

Elements(s) == {s[i] : i \in 1 .. Len(s)}
Inside(q)  == Elements(queue[q])
Tickets    == UNION {Inside(q) : q \in Split}
HasRoom(q) == Len(queue[q]) < Depth

\* qid = (qid_start + i) % num_splits, both below num_splits.
QidSkips(t, i) ==                      \* a split tried twice, another never
  IF start[t] + i < NumSplits THEN start[t] + i ELSE NumSplits - 1
Qid(t, i) ==
  IF start[t] + i < NumSplits THEN start[t] + i ELSE start[t] + i - NumSplits

Init ==
  /\ queue = [q \in Split |-> <<>>]
  /\ rr_tail_ = 0 /\ rr_head_ = 0
  /\ call = [t \in Thread |-> "none"]
  /\ start = [t \in Thread |-> 0] /\ tried = [t \in Thread |-> 0]
  /\ tkt \in [Thread -> Ticket]
  /\ loose = Ticket
  /\ stayed = [t \in Thread |-> {}] /\ roomy = [t \in Thread |-> {}]

Begin(t, op, rr) ==
  /\ call[t] = "none"
  /\ call' = [call EXCEPT ![t] = op]
  /\ start' = [start EXCEPT ![t] = rr % NumSplits]
  /\ tried' = [tried EXCEPT ![t] = 0]

\* rr_tail_.fetch_add(1), with a ticket of the caller.
Emplace(t) ==
  /\ \E k \in loose : tkt' = [tkt EXCEPT ![t] = k] /\ loose' = loose \ {k}
  /\ Begin(t, "emplace", rr_tail_)
  /\ rr_tail_' = (rr_tail_ + 1) % RrWidth
  /\ roomy' = [roomy EXCEPT ![t] = {q \in Split : HasRoom(q)}]
  /\ UNCHANGED <<queue, rr_head_, stayed>>

\* rr_head_.fetch_add(1)
Pop(t) ==
  /\ Begin(t, "pop", rr_head_)
  /\ rr_head_' = (rr_head_ + 1) % RrWidth
  /\ stayed' = [stayed EXCEPT ![t] = Tickets]
  /\ UNCHANGED <<queue, rr_tail_, tkt, loose, roomy>>

Return(t) == call' = [call EXCEPT ![t] = "none"] /\ UNCHANGED tried

\* The split refused: the next one, or the null token.
TryNext(t) ==
  IF tried[t] + 1 < NumSplits
    THEN tried' = [tried EXCEPT ![t] = @ + 1] /\ UNCHANGED call
    ELSE Return(t)

\* queue.emplace(tkt) of one split: full, or the ticket goes in.
EmplaceAt(t) ==
  LET q == Qid(t, tried[t])
  IN  /\ call[t] = "emplace"
      /\ IF HasRoom(q)
           THEN /\ queue' = [queue EXCEPT ![q] = Append(@, tkt[t])]
                /\ Return(t)
                /\ roomy' = IF Len(queue[q]) + 1 < Depth THEN roomy
                            ELSE [u \in Thread |-> roomy[u] \ {q}]
                /\ UNCHANGED loose
           ELSE /\ TryNext(t)
                /\ loose' = IF tried[t] + 1 < NumSplits THEN loose
                            ELSE loose \union {tkt[t]}
                /\ UNCHANGED <<queue, roomy>>
      /\ UNCHANGED <<rr_tail_, rr_head_, start, tkt, stayed>>

PopShared(t) ==                        \* the ticket read but not taken: no lock
  LET q == Qid(t, tried[t])
  IN  /\ call[t] = "pop" /\ queue[q] # <<>>
      /\ loose' = loose \union {Head(queue[q])}
      /\ stayed' = [u \in Thread |-> stayed[u] \ {Head(queue[q])}]
      /\ Return(t)
      /\ UNCHANGED <<queue, rr_tail_, rr_head_, start, tkt, roomy>>

\* queue.pop(tkt) of one split: empty, or its oldest ticket comes out.
PopAt(t) ==
  LET q == Qid(t, tried[t])
  IN  /\ call[t] = "pop"
      /\ IF queue[q] # <<>>
           THEN /\ queue' = [queue EXCEPT ![q] = Tail(@)]
                /\ loose' = loose \union {Head(queue[q])}
                /\ stayed' = [u \in Thread |-> stayed[u] \ {Head(queue[q])}]
                /\ Return(t)
           ELSE /\ TryNext(t)
                /\ UNCHANGED <<queue, loose, stayed>>
      /\ UNCHANGED <<rr_tail_, rr_head_, start, tkt, roomy>>

Next == \E t \in Thread : Emplace(t) \/ Pop(t) \/ EmplaceAt(t) \/ PopAt(t)

Spec == Init /\ [][Next]_vars

-----------------------------------------------------------------------------
(* Properties *)

TypeOK ==
  /\ queue \in [Split -> Seq(Ticket)]
  /\ rr_tail_ \in Nat /\ rr_head_ \in Nat
  /\ call \in [Thread -> {"none", "emplace", "pop"}]
  /\ start \in [Thread -> Split] /\ tried \in [Thread -> Split]
  /\ tkt \in [Thread -> Ticket]
  /\ loose \subseteq Ticket
  /\ stayed \in [Thread -> SUBSET Ticket] /\ roomy \in [Thread -> SUBSET Split]

Held(k, t) == call[t] = "emplace" /\ tkt[t] = k

(***************************************************************************)
(* A ticket is with a caller, in one call of emplace, or at one place in   *)
(* one split, and nowhere else: none is handed out twice or lost, however  *)
(* many calls run at once (split_ticket_queue.h:179-214).                  *)
(***************************************************************************)
TicketInOnePlace ==
  \A k \in Ticket :
    /\ k \in loose \/ k \in Tickets \/ \E t \in Thread : Held(k, t)
    /\ k \in loose => k \notin Tickets /\ \A t \in Thread : ~Held(k, t)
    /\ \A t \in Thread : Held(k, t) =>
         k \notin Tickets /\ \A u \in Thread : Held(k, u) => u = t
    /\ \A q, r \in Split : \A i \in 1 .. Len(queue[q]), j \in 1 .. Len(queue[r]) :
         queue[q][i] = k /\ queue[r][j] = k => q = r /\ i = j

(***************************************************************************)
(* A pop that returns the null token missed nothing: no ticket was in the  *)
(* queue for the whole call, whatever split the others moved tickets from  *)
(* and to behind its back (split_ticket_queue.h:198-214).                  *)
(***************************************************************************)
PopMissesNothing ==
  [][\A t \in Thread :
       call[t] = "pop" /\ call'[t] = "none" /\ UNCHANGED loose => stayed[t] = {}]_vars

(***************************************************************************)
(* An emplace that returns the null token found the queue full: no split   *)
(* had room for the whole call (split_ticket_queue.h:179-195).             *)
(***************************************************************************)
RefusedWhenFull ==
  [][\A t \in Thread :
       call[t] = "emplace" /\ call'[t] = "none" /\ tkt[t] \in loose' => roomy[t] = {}]_vars
=============================================================================
