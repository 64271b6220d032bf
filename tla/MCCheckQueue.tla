---------------------------- MODULE MCCheckQueue ----------------------------
(* Two workers and a master; four checks, one of which fails, so that a share  *)
(* of two occurs; two blocks, so that a failure could be carried over; two     *)
(* starts of the pool.                                                         *)
EXTENDS CheckQueue
=============================================================================
