---------------------------- MODULE MCBaseIndex -----------------------------
(* Two branches from genesis, of one block and of two: a reorganisation to the
   longer one, or to the other block of the same height once InvalidateBlock
   took the tip back. *)
EXTENDS BaseIndex
CONSTANTS g, a1, b1, b2
MCParent == [b \in {a1, b1, b2} |-> IF b = b2 THEN b1 ELSE g]
=============================================================================
