---------------------------- MODULE MCRingQueue -----------------------------
(* RingQueue for TLC: the queue types whose contract the code keeps.  The  *)
(* fixed queue of several producers and the circular queues have runs of   *)
(* their own or none.                                                      *)
EXTENDS RingQueue

SoundKinds == {"mpsc_queue", "fixed_spsc_queue", "locked", "deque",
                "mpsc_ptr_queue"}
=============================================================================
