------------------------------ MODULE FcfsLock ------------------------------
(***************************************************************************)
(* What a first-come-first-served lock promises, with no word of how.      *)
(* A client is out, waiting or holding; while it waits it knows the set of *)
(* clients that asked before it and have not left yet, and it enters only  *)
(* when that set is empty.  Mutual exclusion and order both follow: of two *)
(* clients inside, the later one still has the other one ahead of it.      *)
(*                                                                         *)
(* hshm::Mutex and hshm::SpinLock implement this for all their callers     *)
(* (TicketLock), hshm::RwLock for its writers only (RwLock).               *)
(***************************************************************************)
CONSTANT Client

VARIABLES stage,   \* stage[c]: "out", "waiting" or "holding"
          ahead    \* ahead[c]: the clients that must leave before c enters

vars == <<stage, ahead>>

Inside == {c \in Client : stage[c] # "out"}

Init == /\ stage = [c \in Client |-> "out"]
        /\ ahead = [c \in Client |-> {}]

Request(c) ==
  /\ stage[c] = "out"
  /\ stage' = [stage EXCEPT ![c] = "waiting"]
  /\ ahead' = [ahead EXCEPT ![c] = Inside]

Enter(c) ==
  /\ stage[c] = "waiting"
  /\ ahead[c] = {}
  /\ stage' = [stage EXCEPT ![c] = "holding"]
  /\ UNCHANGED ahead

Leave(c) ==
  /\ stage[c] = "holding"
  /\ stage' = [stage EXCEPT ![c] = "out"]
  /\ ahead' = [d \in Client |-> ahead[d] \ {c}]

Next == \E c \in Client : Request(c) \/ Enter(c) \/ Leave(c)

Safe == Init /\ [][Next]_vars

Fairness == \A c \in Client : WF_vars(Enter(c)) /\ WF_vars(Leave(c))

Spec == Safe /\ Fairness
=============================================================================
