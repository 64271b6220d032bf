----------------------------- MODULE MCCoinsCache -----------------------------
(***************************************************************************)
(* CoinsCache for TLC: two outpoints, two coins of different size, two     *)
(* block hashes.  The layers interact per outpoint; the second outpoint is *)
(* there for the memory accounting of a flush.                             *)
(***************************************************************************)
EXTENDS CoinsCache, TLC

CONSTANTS c1, c2

MCUsage == c1 :> 1 @@ c2 :> 3

Symmetry == Permutations(Outpoint) \cup Permutations(Hash)
===============================================================================
