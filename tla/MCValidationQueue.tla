------------------------- MODULE MCValidationQueue --------------------------
(* Two scheduler threads, an RPC thread, the loading thread, and three events,
   one of which is Shutdown's own. *)
EXTENDS ValidationQueue
=============================================================================
