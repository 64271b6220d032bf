----------------------------- MODULE MCMempool ------------------------------
(* A chain of four transactions; one that conflicts with the first; a coinbase
   or coinstake, and a second child of the first that spends it too; one that
   is alone and pays nothing. *)
EXTENDS Mempool
CONSTANTS t1, t2, t3, t4, x1, s1, u1, v1
MCInputs == [t \in {t1, t2, t3, t4, x1, s1, u1, v1} |->
               CASE t = t1 -> {<<"base", 0>>}
                 [] t = t2 -> {<<t1, 0>>}
                 [] t = t3 -> {<<t2, 0>>}
                 [] t = t4 -> {<<t3, 0>>}
                 [] t = x1 -> {<<"base", 0>>}
                 [] t = s1 -> {<<"base", 1>>}
                 [] t = u1 -> {<<t1, 1>>, <<s1, 0>>}
                 [] t = v1 -> {<<"base", 2>>}]
MCFee == [t \in {t1, t2, t3, t4, x1, s1, u1, v1} |->
            IF t = v1 THEN 0 ELSE IF t = t2 THEN 2 ELSE 1]
MCBaseCoin == {"base"} \X (0..2)
=============================================================================
