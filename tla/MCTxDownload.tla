---------------------------- MODULE MCTxDownload ----------------------------
EXTENDS TxDownload, TLC

CONSTANTS a, b, t1, t2, t3

\* t2 and t3 spend t1, and share an outpoint.
MCInputs == (t1 :> {<<Base, 0>>}) @@ (t2 :> {<<t1, 0>>, <<t1, 1>>}) @@ (t3 :> {<<t1, 1>>})

MCRank == [t \in Tx |-> (a :> 2) @@ (b :> 1)]
=============================================================================
