---------------------------- MODULE TxOrphanage ----------------------------
(***************************************************************************)
(* TxOrphanage (txorphanage.cpp): transactions whose inputs are not known  *)
(* yet.  An orphanage is a record o: o.from maps an orphan to the peer it  *)
(* came from (m_orphans), o.pos to its list_pos, o.list is m_orphan_list   *)
(* and o.prev maps an outpoint to the orphans spending it                  *)
(* (m_outpoint_to_orphan_it).  Positions count from 1.                     *)
(***************************************************************************)
EXTENDS Naturals, Sequences, FiniteSets, FiniteSetsExt, Functions

CONSTANTS
    Inputs    \* Inputs[t]: the outpoints <<transaction, index>> t spends

NoOrphanage == [from |-> << >>, pos |-> << >>, list |-> << >>, prev |-> << >>]

HaveTx(o, t) == t \in DOMAIN o.from

\* Overwriting or new entry k |-> v of the map f.
Put(f, k, v) == [x \in DOMAIN f \cup {k} |-> IF x = k THEN v ELSE f[x]]

\* MAX_STANDARD_TX_WEIGHT is left out: every transaction is small.
AddTx(o, t, p) ==
    IF HaveTx(o, t)
      THEN o
      ELSE [from |-> Put(o.from, t, p),
            pos  |-> Put(o.pos, t, Len(o.list) + 1),
            list |-> Append(o.list, t),
            prev |-> [i \in DOMAIN o.prev \cup Inputs[t] |->
                        (IF i \in DOMAIN o.prev THEN o.prev[i] ELSE {})
                        \cup (IF i \in Inputs[t] THEN {t} ELSE {})]]

\* Mutant: the moved entry keeps its old list_pos.
FaultEraseTx(o, t) ==
    IF ~HaveTx(o, t)
      THEN o
      ELSE LET rest == [i \in DOMAIN o.prev |-> o.prev[i] \ {t}]
               last == o.list[Len(o.list)]
           IN  [from |-> Restrict(o.from, DOMAIN o.from \ {t}),
                pos  |-> Restrict(o.pos, DOMAIN o.pos \ {t}),
                list |-> [n \in 1 .. Len(o.list) - 1 |-> IF n = o.pos[t] THEN last ELSE o.list[n]],
                prev |-> Restrict(rest, {i \in DOMAIN rest : rest[i] # {}})]

\* The last entry of the list takes the place of the erased one.
EraseTx(o, t) ==
    IF ~HaveTx(o, t)
      THEN o
      ELSE LET rest == [i \in DOMAIN o.prev |-> o.prev[i] \ {t}]
               last == o.list[Len(o.list)]
           IN  [from |-> Restrict(o.from, DOMAIN o.from \ {t}),
                pos  |-> Restrict(Put(o.pos, last, o.pos[t]), DOMAIN o.pos \ {t}),
                list |-> [n \in 1 .. Len(o.list) - 1 |-> IF n = o.pos[t] THEN last ELSE o.list[n]],
                prev |-> Restrict(rest, {i \in DOMAIN rest : rest[i] # {}})]

EraseAll(o, S) == FoldSet(LAMBDA t, acc : EraseTx(acc, t), o, S)

EraseForPeer(o, p) == EraseAll(o, {t \in DOMAIN o.from : o.from[t] = p})

\* The sweep erases `expired'; then orphans at random positions go until at
\* most max are left.  The set of orphanages that may result.
LimitOrphans(o, expired, max) ==
    LET swept == EraseAll(o, expired)
        n == Len(swept.list)
    IN  IF n <= max
          THEN {swept}
          ELSE {EraseAll(swept, S) : S \in kSubset(n - max, DOMAIN swept.from)}

\* Mutant: only the first output is looked up.
FaultAddChildrenToWorkSet(o, t) ==
    UNION {o.prev[i] : i \in {j \in DOMAIN o.prev : j = <<t, 0>>}}

\* The orphans spending an output of t.
AddChildrenToWorkSet(o, t) == UNION {o.prev[i] : i \in {j \in DOMAIN o.prev : j[1] = t}}

\* Orphans that are in the block, or spend what it spends.
EraseForBlock(o, block) ==
    EraseAll(o, UNION {o.prev[i] : i \in DOMAIN o.prev \cap UNION {Inputs[t] : t \in block}})
=============================================================================
