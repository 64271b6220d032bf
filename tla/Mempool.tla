------------------------------ MODULE Mempool -------------------------------
(***************************************************************************)
(* CTxMemPool (txmempool.cpp): the unconfirmed transactions, the links     *)
(* between them and the totals each entry caches over its ancestors and    *)
(* over its descendants, as transactions arrive, are prioritised, expire   *)
(* and are evicted, and as blocks are connected and disconnected           *)
(* (validation.cpp: MemPoolAccept, MaybeUpdateMempoolForReorg).            *)
(*                                                                         *)
(* Every operation runs under cs_main and the pool's lock, so each is one  *)
(* action; the operators below are its parts, from one value of the pool   *)
(* to the next.  Sizes are left out: every transaction has size 1, so the  *)
(* size totals are the counts.  No transaction has a lock time.            *)
(***************************************************************************)
EXTENDS Integers, Sequences, SequencesExt, FiniteSets, FiniteSetsExt

CONSTANTS
  Tx, NoTx,
  Inputs,          \* the outpoints a transaction spends: pairs <<transaction, n>>
  Fee,
  BaseCoin,        \* outpoints confirmed and mature from the start
  Coinbase,        \* transactions that only a block can carry
  Coinstake,
  Maturity,        \* consensus.nCoinbaseMaturity
  ReorgMaturity,   \* COINBASE_MATURITY
  AncestorLimit, DescendantLimit,
  MaxPool,         \* -maxmempool, in entries
  MaxDisconnected, \* MAX_DISCONNECTED_TX_POOL_SIZE, in transactions
  MaxHeight,       \* bound on the chain
  MaxBlockTxs,     \* bound on the transactions of a block
  MaxDelta,        \* bound on the sum of the fee deltas
  FeeFloor         \* bound on how far below zero m_total_fee is followed

VARIABLES
  m,               \* the pool, a record
  chain            \* the blocks above the base, each a sequence of transactions

vars == <<m, chain>>

Generated == Coinbase \cup Coinstake
Outpoint == UNION {Inputs[t] : t \in Tx} \cup BaseCoin

ASSUME MempoolAssumption ==
  /\ NoTx \notin Tx
  /\ Fee \in [Tx -> Nat]
  /\ Coinbase \subseteq Tx /\ Coinstake \subseteq Tx
  /\ \A o \in Outpoint \ BaseCoin : o[1] \in Tx
  /\ {AncestorLimit, DescendantLimit, Maturity, ReorgMaturity, MaxHeight, MaxBlockTxs, MaxDelta, FeeFloor} \subseteq Nat

\* A total over a set of entries: nCountWith... and nModFeesWith...
Total(n, f) == [count |-> n, fees |-> f]
Plus(a, b) == Total(a.count + b.count, a.fees + b.fees)
Minus(a, b) == Total(a.count - b.count, a.fees - b.fees)

Init ==
  /\ m = [pool |-> {},                            \* mapTx
          next |-> [o \in Outpoint |-> NoTx],     \* mapNextTx
          parents |-> [t \in Tx |-> {}],          \* m_parents
          children |-> [t \in Tx |-> {}],         \* m_children
          anc |-> [t \in Tx |-> Total(0, 0)],     \* ...WithAncestors
          desc |-> [t \in Tx |-> Total(0, 0)],    \* ...WithDescendants
          delta |-> [t \in Tx |-> 0],             \* the entry's feeDelta
          deltas |-> [t \in Tx |-> 0],            \* mapDeltas
          totalFee |-> 0]                         \* m_total_fee
  /\ chain = <<>>
-----------------------------------------------------------------------------
(* The chain as the pool sees it through CCoinsViewCache. *)

Confirmed(c) == UNION {ToSet(c[i]) : i \in DOMAIN c}
HeightOf(c, t) == CHOOSE i \in DOMAIN c : t \in ToSet(c[i])
Coins(c) ==
  {o \in Outpoint : o \in BaseCoin \/ o[1] \in Confirmed(c)}
    \ UNION {Inputs[t] : t \in Confirmed(c)}

\* CheckTxInputs: no input of t, on top of c, is a coinbase or a coinstake with
\* too few confirmations.
Mature(c, t) ==
  \A o \in Inputs[t] :
    o[1] \in Generated \cap Confirmed(c) => Len(c) + 1 - HeightOf(c, o[1]) >= Maturity

\* A block that ConnectBlock accepts on top of c.
ValidBlock(c, b) ==
  \A i \in DOMAIN b :
    /\ b[i] \notin Confirmed(c) \cup ToSet(SubSeq(b, 1, i - 1))
    /\ b[i] \in Generated => i = 1
    /\ Inputs[b[i]] \subseteq Coins(Append(c, SubSeq(b, 1, i - 1)))
    /\ \A o \in Inputs[b[i]] : o[1] \in ToSet(b) => o[1] \notin Generated
    /\ Mature(c, b[i])
-----------------------------------------------------------------------------
(* The traversals. *)

\* What the links lead to from S, S included.
Closure(links, S) ==
  LET reach[i \in 0..Cardinality(Tx)] ==
        IF i = 0 THEN S
        ELSE LET near == reach[i - 1] IN near \cup UNION {links[t] : t \in near}
  IN  reach[Cardinality(Tx)]

ModifiedFee(p, t) == Fee[t] + p.delta[t]
Over(p, S) == Total(Cardinality(S), MapThenSumSet(LAMBDA t : ModifiedFee(p, t), S))

InPoolParents(p, t) == {o[1] : o \in Inputs[t]} \cap p.pool

\* CalculateMemPoolAncestors, searching for the parents and with the cached ones.
Ancestors(p, t) == Closure(p.parents, InPoolParents(p, t))
CachedAncestors(p, t) == Closure(p.parents, p.parents[t])

CalculateDescendants(p, S) == Closure(p.children, S)

\* CalculateAncestorsAndCheckLimits for one new transaction.
WithinLimits(p, t, ancestors, descendants) ==
  /\ Cardinality(Ancestors(p, t)) + 1 <= ancestors
  /\ \A a \in Ancestors(p, t) : p.desc[a].count + 1 <= descendants
-----------------------------------------------------------------------------
(* Adding. *)

\* PreChecks: the last line is the carve-out for a second small child.
PreChecks(p, c, t) ==
  /\ t \notin Generated
  /\ t \notin p.pool
  /\ \A o \in Inputs[t] : p.next[o] = NoTx
  /\ \A o \in Inputs[t] : o \in Coins(c) \/ o[1] \in p.pool
  /\ Mature(c, t)
  /\ \/ WithinLimits(p, t, AncestorLimit, DescendantLimit)
     \/ WithinLimits(p, t, 2, DescendantLimit + 1)

\* addUnchecked with the ancestors that PreChecks computed.  It supposes that
\* no child of t is in the pool.
AddUnchecked(p, t) ==
  LET new == [p EXCEPT !.pool = @ \cup {t}, !.delta[t] = p.deltas[t], !.parents[t] = InPoolParents(p, t)]
      mine == Over(new, {t})
      ancestors == Ancestors(p, t)
  IN  [new EXCEPT
        !.next = [o \in Outpoint |-> IF o \in Inputs[t] THEN t ELSE @[o]],
        !.children = [x \in Tx |-> IF x \in new.parents[t] THEN @[x] \cup {t} ELSE @[x]],
        !.desc = [x \in Tx |-> IF x \in ancestors THEN Plus(@[x], mine) ELSE IF x = t THEN mine ELSE @[x]],
        !.anc[t] = Plus(mine, Over(p, ancestors))]
-----------------------------------------------------------------------------
(* Removing. *)

\* UpdateForRemoveFromMempool: the totals first, through links that are still
\* whole; then the links that lead into the set, and those that lead out of it.
UpdateForRemoveFromMempool(p, S, updateDescendants) ==
  LET above(x) == {r \in S \ {x} : updateDescendants /\ x \in CalculateDescendants(p, {r})}
      below(x) == {r \in S : x \in CachedAncestors(p, r)}
      children == [x \in Tx |-> p.children[x] \ {r \in S : x \in p.parents[r]}]
  IN  [p EXCEPT
        !.anc = [x \in Tx |-> Minus(@[x], Over(p, above(x)))],
        !.desc = [x \in Tx |-> Minus(@[x], Over(p, below(x)))],
        !.children = children,
        !.parents = [x \in Tx |-> @[x] \ {r \in S : x \in children[r]}]]

\* removeUnchecked, for every entry of S.  No operation adds to m_total_fee.
RemoveUnchecked(p, S) ==
  [p EXCEPT
    !.pool = @ \ S,
    !.next = [o \in Outpoint |-> IF \E t \in S : o \in Inputs[t] THEN NoTx ELSE @[o]],
    !.parents = [t \in Tx |-> IF t \in S THEN {} ELSE @[t]],
    !.children = [t \in Tx |-> IF t \in S THEN {} ELSE @[t]],
    !.anc = [t \in Tx |-> IF t \in S THEN Total(0, 0) ELSE @[t]],
    !.desc = [t \in Tx |-> IF t \in S THEN Total(0, 0) ELSE @[t]],
    !.delta = [t \in Tx |-> IF t \in S THEN 0 ELSE @[t]],
    !.totalFee = Max({@ - MapThenSumSet(LAMBDA t : Fee[t], S), -FeeFloor})]

RemoveStaged(p, S, updateDescendants) ==
  RemoveUnchecked(UpdateForRemoveFromMempool(p, S, updateDescendants), S)

\* Mutant: only the transaction itself is looked for, not its children.
FaultRemoveRecursive(p, t) ==
  RemoveStaged(p, CalculateDescendants(p, {t} \cap p.pool), FALSE)

\* removeRecursive: t and its descendants, or the descendants of its children
\* when t itself is not in the pool.
RemoveRecursive(p, t) ==
  LET first == IF t \in p.pool THEN {t}
               ELSE {p.next[o] : o \in {q \in Outpoint : q[1] = t}} \ {NoTx}
  IN  RemoveStaged(p, CalculateDescendants(p, first), FALSE)

ClearPrioritisation(p, t) == [p EXCEPT !.deltas[t] = 0]

\* removeConflicts: whatever else spends an input of t.
RemoveConflicts(p, t) ==
  FoldLeft(LAMBDA q, o : IF q.next[o] \in {NoTx, t} THEN q
                         ELSE RemoveRecursive(ClearPrioritisation(q, q.next[o]), q.next[o]),
           p, SetToSeq(Inputs[t]))

RemoveForBlock(p, block) ==
  FoldLeft(LAMBDA q, t :
             ClearPrioritisation(RemoveConflicts(RemoveStaged(q, {t} \cap q.pool, TRUE), t), t),
           p, block)

\* TrimToSize: while there are too many, the entry with the lowest score and
\* its descendants go.  A score is the better of an entry's own fee rate and
\* that of it with its descendants.
Score(p, t) ==
  LET own == Total(1, ModifiedFee(p, t)) all == p.desc[t]
  IN  IF all.fees * own.count > own.fees * all.count THEN all ELSE own
Worst(p) ==
  {t \in p.pool : \A x \in p.pool :
     Score(p, t).fees * Score(p, x).count <= Score(p, x).fees * Score(p, t).count}
TrimToSize(p) ==
  LET trimmed[i \in 0..Cardinality(Tx)] ==
        IF i = 0 THEN {p}
        ELSE UNION {IF Cardinality(q.pool) <= MaxPool THEN {q}
                    ELSE {RemoveStaged(q, CalculateDescendants(q, {t}), FALSE) : t \in Worst(q)}
                    : q \in trimmed[i - 1]}
  IN  trimmed[Cardinality(Tx)]

\* LimitMempoolSize: what Expire and TrimToSize can leave.  At most one entry
\* comes of age between two calls.
LimitMempoolSize(p) ==
  UNION {TrimToSize(RemoveStaged(p, CalculateDescendants(p, old), FALSE))
         : old \in {{}} \cup {{t} : t \in p.pool}}
-----------------------------------------------------------------------------
(* Reorganisations. *)

\* Mutant: an entry may have as many ancestors as the limit, itself not counted.
FaultUpdateForDescendants(u, t, included) ==
  LET p == u.pool
      kids == {p.next[o] : o \in {q \in Outpoint : q[1] = t}} \ ({NoTx} \cup included)
      linked == [p EXCEPT !.children[t] = @ \cup kids,
                          !.parents = [x \in Tx |-> IF x \in kids THEN @[x] \cup {t} ELSE @[x]]]
      below == CalculateDescendants(linked, linked.children[t]) \ included
      counted == [linked EXCEPT
                   !.anc = [x \in Tx |-> IF x \in below THEN Plus(@[x], Over(p, {t})) ELSE @[x]],
                   !.desc[t] = Plus(@, Over(p, below))]
  IN  IF t \notin p.pool THEN u
      ELSE [pool |-> counted,
            remove |-> u.remove \cup {x \in below : counted.anc[x].count - 1 > AncestorLimit}]

\* UpdateForDescendants, with the new children of t from mapNextTx: the
\* transactions of the disconnected blocks are already accounted for.
UpdateForDescendants(u, t, included) ==
  LET p == u.pool
      kids == {p.next[o] : o \in {q \in Outpoint : q[1] = t}} \ ({NoTx} \cup included)
      linked == [p EXCEPT !.children[t] = @ \cup kids,
                          !.parents = [x \in Tx |-> IF x \in kids THEN @[x] \cup {t} ELSE @[x]]]
      below == CalculateDescendants(linked, linked.children[t]) \ included
      counted == [linked EXCEPT
                   !.anc = [x \in Tx |-> IF x \in below THEN Plus(@[x], Over(p, {t})) ELSE @[x]],
                   !.desc[t] = Plus(@, Over(p, below))]
  IN  IF t \notin p.pool THEN u
      ELSE [pool |-> counted,
            remove |-> u.remove \cup {x \in below : counted.anc[x].count > AncestorLimit}]

\* Mutant: the entries are updated in the order they were added.
FaultUpdateTransactionsFromBlock(p, added) ==
  LET done == FoldLeft(LAMBDA u, t : UpdateForDescendants(u, t, ToSet(added)),
                       [pool |-> p, remove |-> {}], added)
  IN  FoldLeft(LAMBDA q, t : IF t \in q.pool THEN RemoveRecursive(q, t) ELSE q,
               done.pool, SetToSeq(done.remove))

\* UpdateTransactionsFromBlock, last transaction first.  A transaction that is
\* gone already has no children left to remove.
UpdateTransactionsFromBlock(p, added) ==
  LET done == FoldLeft(LAMBDA u, t : UpdateForDescendants(u, t, ToSet(added)),
                       [pool |-> p, remove |-> {}], Reverse(added))
  IN  FoldLeft(LAMBDA q, t : IF t \in q.pool THEN RemoveRecursive(q, t) ELSE q,
               done.pool, SetToSeq(done.remove))

\* removeForReorg with filter_final_and_mature.
RemoveForReorg(p, c) ==
  LET immature(t) == \E o \in Inputs[t] :
        /\ o[1] \notin p.pool
        /\ o[1] \in Coinbase \cap Confirmed(c)
        /\ Len(c) + 1 - HeightOf(c, o[1]) < ReorgMaturity
  IN  RemoveStaged(p, CalculateDescendants(p, {t \in p.pool : immature(t)}), FALSE)

\* The part of MaybeUpdateMempoolForReorg that puts the transactions of the
\* disconnected blocks back, in the order of the chain.
Resurrect(p, c, txs, addToMempool) ==
  FoldLeft(LAMBDA u, t :
             IF addToMempool /\ PreChecks(u.pool, c, t)
             THEN [pool |-> AddUnchecked(u.pool, t), added |-> Append(u.added, t)]
             ELSE [u EXCEPT !.pool = RemoveRecursive(@, t)],
           [pool |-> p, added |-> <<>>], txs)

MaybeUpdateMempoolForReorg(p, c, txs, addToMempool) ==
  LET u == Resurrect(p, c, txs, addToMempool)
  IN  LimitMempoolSize(RemoveForReorg(UpdateTransactionsFromBlock(u.pool, u.added), c))

\* DisconnectTip for the blocks: their transactions in the order of the chain,
\* but for the last ones when there are too many, whose children leave the pool.
DisconnectTips(p, blocks) ==
  LET txs == FlattenSeq(blocks)
      kept == IF Len(txs) > MaxDisconnected THEN MaxDisconnected ELSE Len(txs)
  IN  [pool |-> FoldRight(LAMBDA t, q : RemoveRecursive(q, t), SubSeq(txs, kept + 1, Len(txs)), p),
       txs |-> SubSeq(txs, 1, kept)]
-----------------------------------------------------------------------------
(* The operations. *)

\* Entry deltas are the caller's; DynamicMemoryUsage is the number of entries.
AcceptSingleTransaction(t) ==
  /\ PreChecks(m, chain, t)
  /\ m' \in LimitMempoolSize(AddUnchecked(m, t))
  /\ UNCHANGED chain

PrioritiseTransaction(t, d) ==
  /\ m.deltas[t] + d >= 0
  /\ MapThenSumSet(LAMBDA x : m.deltas[x], Tx) + d <= MaxDelta
  /\ m' = IF t \notin m.pool THEN [m EXCEPT !.deltas[t] = @ + d]
          ELSE [m EXCEPT
                 !.deltas[t] = @ + d,
                 !.delta[t] = m.deltas[t] + d,
                 !.anc = [x \in Tx |-> IF x \in CalculateDescendants(m, {t}) THEN Plus(@[x], Total(0, d)) ELSE @[x]],
                 !.desc = [x \in Tx |-> IF x \in {t} \cup CachedAncestors(m, t) THEN Plus(@[x], Total(0, d)) ELSE @[x]]]
  /\ UNCHANGED chain

\* ActivateBestChainStep that disconnects nothing.
ConnectTip(b) ==
  /\ Len(chain) < MaxHeight
  /\ ValidBlock(chain, b)
  /\ chain' = Append(chain, b)
  /\ m' = RemoveForBlock(m, b)

\* A turn of InvalidateBlock's loop, or an ActivateBestChainStep whose first new
\* block is invalid.  addToMempool is FALSE past the tenth block.
DisconnectTip(addToMempool) ==
  /\ chain # <<>>
  /\ chain' = Front(chain)
  /\ LET d == DisconnectTips(m, <<Last(chain)>>)
     IN  m' \in MaybeUpdateMempoolForReorg(d.pool, chain', d.txs, addToMempool)

\* ActivateBestChainStep that moves to a block b of a branch with more trust,
\* n blocks back: what b confirms is not put back.
Reorganise(n, b) ==
  /\ n <= Len(chain)
  /\ LET fork == SubSeq(chain, 1, Len(chain) - n)
         d == DisconnectTips(m, SubSeq(chain, Len(chain) - n + 1, Len(chain)))
     IN  /\ ValidBlock(fork, b)
         /\ chain' = Append(fork, b)
         /\ m' \in MaybeUpdateMempoolForReorg(
                     RemoveForBlock(d.pool, b), chain',
                     SelectSeq(d.txs, LAMBDA t : t \notin ToSet(b)), TRUE)

BlockOf == SeqOf(Tx, MaxBlockTxs)

Next ==
  \/ \E t \in Tx : AcceptSingleTransaction(t)
  \/ \E t \in Tx, d \in {-1, 1} : PrioritiseTransaction(t, d)
  \/ \E b \in BlockOf : ConnectTip(b)
  \/ \E add \in BOOLEAN : DisconnectTip(add)
  \/ \E n \in 1..MaxHeight, b \in BlockOf : Reorganise(n, b)

Spec == Init /\ [][Next]_vars
-----------------------------------------------------------------------------
(* Properties. *)

TrueAncestors(t) ==
  LET up == [x \in Tx |-> InPoolParents(m, x)] IN Closure(up, up[t])

(* CTxMemPool::check: m_parents and m_children of every entry are exactly the
   entries it spends from and the entries that spend from it, and mapNextTx
   names exactly the inputs of the entries, after any reorganisation. *)
LinksExact ==
  /\ \A t \in m.pool : /\ m.parents[t] = InPoolParents(m, t)
                       /\ m.children[t] = {c \in m.pool : t \in InPoolParents(m, c)}
  /\ \A o \in Outpoint : m.next[o] # NoTx <=> \E t \in m.pool : o \in Inputs[t]
  /\ \A t \in m.pool : \A o \in Inputs[t] : m.next[o] = t

(* The totals every entry caches are those of its ancestors and its
   descendants, whatever was added, prioritised, confirmed, evicted and put
   back in between. *)
TotalsExact ==
  \A t \in m.pool :
    /\ m.anc[t] = Over(m, {t} \cup TrueAncestors(t))
    /\ m.desc[t] = Over(m, {t} \cup {d \in m.pool : t \in TrueAncestors(d)})

(* The pool can be mined on the tip: every input of an entry is an unspent
   coin or an output of an entry, and no two entries spend the same. *)
InputsAvailable ==
  /\ \A t \in m.pool : \A o \in Inputs[t] : o \in Coins(chain) \/ o[1] \in m.pool
  /\ \A t, x \in m.pool : t # x => Inputs[t] \cap Inputs[x] = {}

(* No entry has more than the limit of ancestors, not even once a
   reorganisation put transactions back under entries that were already there. *)
AncestorLimitHolds == \A t \in m.pool : Cardinality(TrueAncestors(t)) + 1 <= AncestorLimit

(* What check() asserts of m_total_fee: it is the sum of the entries' fees. *)
TotalFeeExact == m.totalFee = MapThenSumSet(LAMBDA t : Fee[t], m.pool)

(* What check() asserts with CheckTxInputs: every entry spends mature coins
   only, also after a reorganisation moved them up or the tip down. *)
SpendsMature == \A t \in m.pool : Mature(chain, t)
=============================================================================
