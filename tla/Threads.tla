------------------------------- MODULE Threads ------------------------------
(***************************************************************************)
(* What the concurrent modules share: threads, each at one place of the    *)
(* call that it is in. Thread is finite where threads are counted.         *)
(***************************************************************************)
EXTENDS FiniteSets

CONSTANT Thread

ASSUME ThreadAssumption == IsFiniteSet(Thread)

VARIABLE pc      \* pc[t]: where t is inside its call, "idle" between two calls

Goto(t, label) == pc' = [pc EXCEPT ![t] = label]
=============================================================================
