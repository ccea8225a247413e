-------------------------- MODULE ReservationQueue --------------------------
(***************************************************************************)
(* What a ring queue promises: a bounded queue filled in two phases.  A    *)
(* producer first reserves the next place and publishes its value there    *)
(* later; the consumer takes the values in the order of the places, each   *)
(* one once, and only after it was published.  A producer that gives up    *)
(* cancels the last place.  Only the first capacity places can be full.    *)
(* Where the consumer may pop from the back, backs is TRUE.                *)
(***************************************************************************)
EXTENDS Naturals, Sequences

CONSTANT Value

VARIABLES capacity, backs,   \* fixed from the start
          places,            \* the places not yet taken, each full or not
          delivered          \* what the consumer took, in order

vars == <<capacity, backs, places, delivered>>

Init == /\ capacity \in Nat \ {0} /\ backs \in BOOLEAN
        /\ places = <<>> /\ delivered = <<>>

Last == Len(places)

Reserve(v) ==
  /\ places' = Append(places, [val |-> v, full |-> FALSE])
  /\ UNCHANGED delivered

Cancel ==
  /\ places # <<>> /\ ~places[Last].full
  /\ places' = SubSeq(places, 1, Last - 1)
  /\ UNCHANGED delivered

Publish(i) ==
  /\ i <= capacity /\ ~places[i].full
  /\ places' = [places EXCEPT ![i].full = TRUE]
  /\ UNCHANGED delivered

Take ==
  /\ places # <<>> /\ places[1].full
  /\ delivered' = Append(delivered, places[1].val)
  /\ places' = Tail(places)

TakeBack ==
  /\ backs /\ places # <<>> /\ places[Last].full
  /\ delivered' = Append(delivered, places[Last].val)
  /\ places' = SubSeq(places, 1, Last - 1)

Next == /\ \/ \E v \in Value : Reserve(v)
           \/ Cancel
           \/ \E i \in 1 .. Last : Publish(i)
           \/ Take
           \/ TakeBack
        /\ UNCHANGED <<capacity, backs>>

Safe == Init /\ [][Next]_vars
=============================================================================
