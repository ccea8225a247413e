---------------------------- MODULE MCTicketLock ----------------------------
(* TicketLock for TLC: three threads. *)
EXTENDS TicketLock, TLC

=============================================================================
