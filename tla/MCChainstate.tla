---------------------------- MODULE MCChainstate ----------------------------
(***************************************************************************)
(* A tree with two branches:                                               *)
(*                                                                         *)
(*     g <- c <- a1 <- a2 <- a3     a2 is bad when it is connected, a3     *)
(*            <- b1                 already when it is stored              *)
(***************************************************************************)
EXTENDS Chainstate, TLC

CONSTANTS g, c, a1, a2, a3, b1

MCParent == (c :> g) @@ (a1 :> c) @@ (a2 :> a1) @@ (a3 :> a2) @@ (b1 :> c)
MCTrust == (g :> 1) @@ (c :> 2) @@ (a1 :> 3) @@ (a2 :> 4) @@ (a3 :> 5) @@ (b1 :> 3)
MCAddress == (g :> 1) @@ (c :> 6) @@ (a1 :> 2) @@ (a2 :> 3) @@ (a3 :> 4) @@ (b1 :> 5)
=============================================================================
