--------------------------- MODULE MCChainstateDB ---------------------------
(***************************************************************************)
(* A fork of two branches over a common block.                             *)
(*                                                                         *)
(*   g <- a1 <- a2 <- a3     a2: spends a1's coin and chains a second      *)
(*           <- b2 <- x3         transaction on it; a zero-valued marker   *)
(*                           a3: spends what a2 left, the marker included  *)
(*                           b2: holds the first transaction of a2 too, at *)
(*                               another place in the block                *)
(*                           x3: spends an output of the other branch      *)
(***************************************************************************)
EXTENDS ChainstateDB, TLC

CONSTANTS g, a1, a2, a3, b2, x3,   \* blocks
          cb1, t, u, v, z          \* outpoints

MCParent == (a1 :> g) @@ (a2 :> a1) @@ (a3 :> a2) @@ (b2 :> a1) @@ (x3 :> b2)

Tx(ins, outs) == [ins |-> ins, outs |-> outs]

MCValue == (cb1 :> 3) @@ (t :> 2) @@ (u :> 1) @@ (v :> 4) @@ (z :> 0)

MCTxs ==
  (g  :> <<>>) @@
  (a1 :> << Tx({}, {cb1}) >>) @@
  (a2 :> << Tx({}, {}), Tx({cb1}, {t, z}), Tx({t}, {u}) >>) @@
  (a3 :> << Tx({}, {}), Tx({u, z}, {}) >>) @@
  (b2 :> << Tx({}, {v}), Tx({cb1}, {t, z}) >>) @@
  (x3 :> << Tx({}, {}), Tx({v, u}, {}) >>)
=============================================================================
