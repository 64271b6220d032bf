---------------------------- MODULE ChainstateDB ----------------------------
(***************************************************************************)
(* The UTXO set of the active chain, in memory and on disk.                *)
(*                                                                         *)
(* ConnectBlock and DisconnectBlock edit the coins held by CoinsTip;       *)
(* FlushStateToDisk writes block files, then the block index, then the     *)
(* coins, the last of these in several LevelDB batches; the process may    *)
(* die between any two of those writes, and ReplayBlocks repairs the coins *)
(* database at the next start.                                             *)
(*                                                                         *)
(* CoinsTip is a plain function here: CoinsCache shows that the stack of   *)
(* caches behaves as one.  A coin is the height that created it, which is  *)
(* what DisconnectBlock compares; NoCoin is "not in the set".  What an     *)
(* output pays is a constant.  Unspendable outputs are never in the set    *)
(* and are left out of the transactions' outs; they pay nothing here.      *)
(***************************************************************************)
EXTENDS BlockTree, Sequences, FiniteSets, Functions

CONSTANTS
  Outpoint,
  Value,        \* nValue of the output an outpoint names
  Txs,          \* block -> sequence of [ins, outs]; the first is the coinbase
  MaxCrashes    \* bound on the crashes of a behaviour

VARIABLES
  index,        \* m_block_index: [data, failed : sets of blocks,
                \*   undo : undo data of the blocks that have it,
                \*   supply : block -> nMoneySupply]
  diskIndex,    \* the same, as last written to the block tree database
  tip,          \* m_chain.Tip(), also the best block of CoinsTip
  coins,        \* CoinsTip, seen through its layers
  db,           \* the coins of CCoinsViewDB
  best,         \* DB_BEST_BLOCK, NoBlock when absent
  heads,        \* DB_HEAD_BLOCKS: <<>> or <<new tip, old tip>>
  mode,         \* "up": cs_main is free; "flush": inside BatchWrite; "down": no process
  crashes,
  unclean       \* blocks for which a DisconnectTip met something other than DISCONNECT_OK

vars == <<index, diskIndex, tip, coins, db, best, heads, mode, crashes, unclean>>
disk == <<diskIndex, db, best, heads>>

NoCoin == 0
NoCoins == [o \in Outpoint |-> NoCoin]

ZeroValued == {o \in Outpoint : Value[o] = 0}
Total(S) == SumFunction([o \in Outpoint |-> IF o \in S THEN Value[o] ELSE 0])

\* An outpoint names one output of one transaction, and no transaction is twice
\* on a branch (BIP30, BIP34).
ASSUME TxsAssumption ==
  /\ IsFiniteSet(Outpoint)
  /\ Value \in [Outpoint -> Nat]
  /\ \A b \in Block : Txs[b] \in Seq([ins : SUBSET Outpoint, outs : SUBSET Outpoint])
  /\ Txs[Genesis] = <<>>
  /\ \A b \in Block \ {Genesis} : Txs[b] # <<>> /\ Txs[b][1].ins = {}
  /\ \A b \in Block : \A a \in Ancestors[b] : \A i \in DOMAIN Txs[a], j \in DOMAIN Txs[b] :
       Txs[a][i].outs \cap Txs[b][j].outs # {} => a = b /\ i = j
  /\ MaxCrashes \in Nat

Coin == {NoCoin} \cup {Height[b] : b \in Block}
Coins == [Outpoint -> Coin]
Undo(b, undo) ==
  /\ DOMAIN undo = DOMAIN Txs[b]
  /\ \A i \in DOMAIN Txs[b] : undo[i] \in [Txs[b][i].ins -> Coin]
Index(i) ==
  /\ i = [data |-> i.data, failed |-> i.failed, undo |-> i.undo, supply |-> i.supply]
  /\ i.data \subseteq Block /\ i.failed \subseteq i.data
  /\ DOMAIN i.undo \subseteq i.data /\ \A b \in DOMAIN i.undo : Undo(b, i.undo[b])
  /\ i.supply \in [Block -> Int]

(* The index, the coins and the markers have the types of the C++ objects;
   an entry's undo data has one record per transaction. *)
TypeOK ==
  /\ Index(index) /\ Index(diskIndex)
  /\ tip \in Block
  /\ coins \in Coins /\ db \in Coins
  /\ best \in Block \cup {NoBlock}
  /\ heads = <<>> \/ heads \in Block \X (Block \cup {NoBlock})
  /\ mode \in {"up", "flush", "down"}
  /\ crashes \in 0..MaxCrashes
  /\ unclean \subseteq Block

\* A fresh data directory, once LoadGenesisBlock and the first ActivateBestChain
\* have run: genesis is connected (it adds no coins) and nothing is flushed.
FreshIndex ==
  [data |-> {Genesis}, failed |-> {},
   undo |-> <<>>, supply |-> [b \in Block |-> 0]]
Init ==
  /\ index = FreshIndex
  /\ diskIndex = [FreshIndex EXCEPT !.data = {}]
  /\ tip = Genesis
  /\ coins = NoCoins /\ db = NoCoins
  /\ best = NoBlock /\ heads = <<>>
  /\ mode = "up" /\ crashes = 0
  /\ unclean = {}
-----------------------------------------------------------------------------
(* Editing the coins, one transaction at a time. *)

\* AddCoins: what a transaction's outputs put in the set.
AddCoins(tx, skipZeroValue) ==
  IF skipZeroValue THEN tx.outs \ ZeroValued ELSE tx.outs

\* The inputs of a transaction leave the set and its outputs enter it.
UpdateCoins(c, tx, h, skipZeroValue) ==
  [o \in Outpoint |-> IF o \in AddCoins(tx, skipZeroValue) THEN h
                      ELSE IF o \in tx.ins THEN NoCoin ELSE c[o]]

\* The view after each of the transactions of b, from the view c before them;
\* skipped holds those for which the uninitialised local skipZeroValue of
\* ConnectBlock happens to read as true.
Views(c, b, skipped) ==
  LET view[i \in 0..Len(Txs[b])] ==
        IF i = 0 THEN c ELSE UpdateCoins(view[i - 1], Txs[b][i], Height[b], i \in skipped)
  IN  view

\* Mutant: the spending height recorded instead of the coin's own.
FaultBlockUndo(view, b) ==
  [i \in DOMAIN Txs[b] |-> [o \in Txs[b][i].ins |-> Height[b]]]

\* CBlockUndo: the coins that each transaction spends.
BlockUndo(view, b) ==
  [i \in DOMAIN Txs[b] |-> [o \in Txs[b][i].ins |-> view[i - 1][o]]]

\* nValueOut - nValueIn.
Minted(b) ==
  SumFunction([i \in DOMAIN Txs[b] |-> Total(Txs[b][i].outs) - Total(Txs[b][i].ins)])

\* ConnectBlock's loop over the transactions: ok when every input was there.
ConnectBlock(c, b, skipped) ==
  LET view == Views(c, b, skipped)
      undo == BlockUndo(view, b)
  IN  [coins |-> view[Len(Txs[b])],
       undo  |-> undo,
       ok    |-> \A i \in DOMAIN Txs[b] : \A o \in Txs[b][i].ins : undo[i][o] # NoCoin]

\* One transaction of DisconnectBlock: its outputs are removed, then its inputs
\* are put back (ApplyTxInUndo).
UndoTx(c, tx, undo) ==
  [o \in Outpoint |-> IF o \in tx.ins THEN undo[o]
                      ELSE IF o \in tx.outs \ ZeroValued THEN NoCoin ELSE c[o]]

\* Each output was the coin the block created and no input was there.
CleanTx(c, tx, h) ==
  /\ \A o \in tx.outs \ ZeroValued : c[o] = h
  /\ \A o \in tx.ins : c[o] = NoCoin \/ o \in tx.outs \ ZeroValued

\* Mutant: the transactions undone first to last.
FaultDisconnectBlock(c, b, undo) ==
  LET n == Len(Txs[b])
      view[k \in 0..n] == IF k = 0 THEN c ELSE UndoTx(view[k - 1], Txs[b][k], undo[k])
  IN  [coins |-> view[n],
       clean |-> \A k \in 1..n : CleanTx(view[k - 1], Txs[b][k], Height[b])]

\* The view when the last k transactions of b are undone.
Unwound(c, b, undo) ==
  LET n == Len(Txs[b])
      view[k \in 0..n] ==
        IF k = 0 THEN c ELSE UndoTx(view[k - 1], Txs[b][n + 1 - k], undo[n + 1 - k])
  IN  view

DisconnectBlock(c, b, undo) ==
  LET n == Len(Txs[b])
      view == Unwound(c, b, undo)
  IN  [coins |-> view[n],
       clean |-> \A k \in 1..n : CleanTx(view[k - 1], Txs[b][n + 1 - k], Height[b])]

\* Mutant: outputs already there are removed with the inputs.
FaultRollforwardBlock(c, b) ==
  LET view[i \in 0..Len(Txs[b])] ==
        IF i = 0 THEN c
        ELSE [o \in Outpoint |-> IF o \in Txs[b][i].outs /\ view[i - 1][o] = NoCoin
                                 THEN Height[b]
                                 ELSE IF o \in Txs[b][i].ins \cup Txs[b][i].outs THEN NoCoin
                                 ELSE view[i - 1][o]]
  IN  view[Len(Txs[b])]

\* The effects of a block, whether or not some are there already.
RollforwardBlock(c, b) == Views(c, b, {})[Len(Txs[b])]
-----------------------------------------------------------------------------
(* The running node.  Every action holds cs_main from start to end. *)

\* AcceptBlock and ReceivedBlockTransactions: block data is stored.
AcceptBlock(b) ==
  /\ mode = "up"
  /\ b \notin index.data
  /\ Parent[b] \in index.data \ index.failed
  /\ index' = [index EXCEPT !.data = @ \cup {b}]
  /\ UNCHANGED <<disk, tip, coins, mode, crashes, unclean>>

\* Undo data is written unless the entry already has some.
WriteUndoData(undo, b, new) ==
  [a \in DOMAIN undo \cup {b} |-> IF a \in DOMAIN undo THEN undo[a] ELSE new]

\* ConnectTip.  On a missing input the view is dropped and InvalidBlockFound
\* marks the block.
ConnectTip(b) ==
  /\ mode = "up"
  /\ b \in index.data \ index.failed
  /\ Parent[b] = tip
  /\ \E skipped \in SUBSET {i \in DOMAIN Txs[b] : Txs[b][i].outs \cap ZeroValued # {}} :
       LET r == ConnectBlock(coins, b, skipped)
       IN  \/ /\ r.ok
              /\ coins' = r.coins
              /\ tip' = b
              /\ index' = [index EXCEPT !.undo = WriteUndoData(@, b, r.undo),
                                        !.supply[b] = index.supply[tip] + Minted(b)]
           \/ /\ ~r.ok
              /\ index' = [index EXCEPT !.failed = @ \cup {b}]
              /\ UNCHANGED <<coins, tip>>
  /\ UNCHANGED <<disk, mode, crashes, unclean>>

DisconnectTip ==
  /\ mode = "up"
  /\ tip # Genesis
  /\ LET r == DisconnectBlock(coins, tip, index.undo[tip])
     IN  IF tip \in DOMAIN index.undo /\ r.clean
         THEN coins' = r.coins /\ tip' = Parent[tip] /\ UNCHANGED unclean
         ELSE unclean' = unclean \cup {tip} /\ UNCHANGED <<coins, tip>>
  /\ UNCHANGED <<index, disk, mode, crashes>>

\* FlushStateToDisk when only the write of the block index is due.
WriteBlockIndex ==
  /\ mode = "up"
  /\ diskIndex' = index
  /\ UNCHANGED <<index, tip, coins, db, best, heads, mode, crashes, unclean>>

\* FlushStateToDisk when a full flush is due: block files and block index
\* first, then CoinsTip().Flush().
FlushStateToDisk ==
  /\ mode = "up"
  /\ diskIndex' = index
  /\ mode' = "flush"
  /\ UNCHANGED <<index, tip, coins, db, best, heads, crashes, unclean>>
-----------------------------------------------------------------------------
(* CCoinsViewDB::BatchWrite, one LevelDB batch per step. *)

Written(S) == db' = [o \in Outpoint |-> IF o \in S THEN coins[o] ELSE db[o]]

\* Mutant: the marker of an interrupted flush is not consulted.
FaultOldTip == best

\* The tip the database is coming from, kept over interrupted replays.
OldTip == IF heads # <<>> THEN heads[2] ELSE best

\* A batch written because it is full.  The first one carries the marker.
PartialBatch ==
  /\ mode = "flush"
  /\ \E S \in SUBSET {o \in Outpoint : coins[o] # db[o]} : Written(S)
  /\ heads' = <<tip, OldTip>>
  /\ best' = NoBlock
  /\ UNCHANGED <<index, diskIndex, tip, coins, mode, crashes, unclean>>

\* Mutant: nothing is written when no coin is left to write.
FaultFinalBatch ==
  /\ mode = "flush"
  /\ coins # db
  /\ Written(Outpoint)
  /\ heads' = <<>>
  /\ best' = tip
  /\ mode' = "up"
  /\ UNCHANGED <<index, diskIndex, tip, coins, crashes, unclean>>

FinalBatch ==
  /\ mode = "flush"
  /\ Written(Outpoint)
  /\ heads' = <<>>
  /\ best' = tip
  /\ mode' = "up"
  /\ UNCHANGED <<index, diskIndex, tip, coins, crashes, unclean>>
-----------------------------------------------------------------------------
(* Crashes and restarts. *)

\* The process dies: what it held in memory is gone.
Crash ==
  /\ mode # "down"
  /\ crashes < MaxCrashes
  /\ crashes' = crashes + 1
  /\ mode' = "down"
  /\ index' = FreshIndex /\ tip' = Genesis /\ coins' = NoCoins
  /\ UNCHANGED <<disk, unclean>>

\* Mutant: nMoneySupply is not read back.
FaultLoadBlockIndex ==
  index' = [diskIndex EXCEPT !.data = @ \cup {Genesis}, !.supply = FreshIndex.supply]

\* LoadGenesisBlock adds the genesis block to an index that lacks it.
LoadBlockIndex == index' = [diskIndex EXCEPT !.data = @ \cup {Genesis}]

\* The database is consistent: LoadChainTip takes its best block; with none,
\* the chain starts again from genesis.
LoadChainTip ==
  /\ mode = "down"
  /\ heads = <<>>
  /\ best \in diskIndex.data \cup {NoBlock}
  /\ LoadBlockIndex
  /\ tip' = IF best = NoBlock THEN Genesis ELSE best
  /\ coins' = db
  /\ mode' = "up"
  /\ UNCHANGED <<disk, crashes, unclean>>

LastCommonAncestor(a, b) ==
  CHOOSE c \in Ancestors[a] \cap Ancestors[b] :
    \A d \in Ancestors[a] \cap Ancestors[b] : Height[d] <= Height[c]

\* The block that both tips descend from; the old tip may be null.
Fork(new, old) == IF old = NoBlock THEN Genesis ELSE LastCommonAncestor(old, new)

\* What ReplayBlocks finds in the block index it needs.
Replayable(idx, new, old) ==
  /\ {new, old} \subseteq idx.data \cup {NoBlock}
  /\ Ancestors[new] \ Ancestors[Fork(new, old)] \subseteq idx.data
  /\ old # NoBlock => Ancestors[old] \ Ancestors[Fork(new, old)] \subseteq DOMAIN idx.undo

\* The old branch rolled back to the fork, whether or not each block's effects
\* had all reached the database.
RolledBack(c, undo, old, fork) ==
  LET view[k \in 0..(Height[old] - Height[fork])] ==
        IF k = 0 THEN c
        ELSE LET b == GetAncestor(old, Height[old] + 1 - k)
             IN  DisconnectBlock(view[k - 1], b, undo[b]).coins
  IN  view[Height[old] - Height[fork]]

\* The new branch rolled forward from the fork.
RolledForward(c, new, fork) ==
  LET view[k \in 0..(Height[new] - Height[fork])] ==
        IF k = 0 THEN c ELSE RollforwardBlock(view[k - 1], GetAncestor(new, Height[fork] + k))
  IN  view[Height[new] - Height[fork]]

Replayed(c, undo, new, old) ==
  LET fork == Fork(new, old)
      back == IF old = NoBlock THEN c ELSE RolledBack(c, undo, old, fork)
  IN  RolledForward(back, new, fork)

\* ReplayBlocks: the repaired coins are flushed through BatchWrite again.
ReplayBlocks ==
  /\ mode = "down"
  /\ heads # <<>>
  /\ Replayable(diskIndex, heads[1], heads[2])
  /\ LoadBlockIndex
  /\ tip' = heads[1]
  /\ coins' = Replayed(db, diskIndex.undo, heads[1], heads[2])
  /\ mode' = "flush"
  /\ UNCHANGED <<disk, crashes, unclean>>

Next ==
  \/ \E b \in Block \ {Genesis} : AcceptBlock(b) \/ ConnectTip(b)
  \/ DisconnectTip
  \/ WriteBlockIndex
  \/ FlushStateToDisk
  \/ PartialBatch
  \/ FinalBatch
  \/ Crash
  \/ LoadChainTip
  \/ ReplayBlocks

\* BatchWrite runs to its end unless the process dies, and a node that died is
\* started again.  Nothing is assumed of the arrival of blocks.
Fairness == WF_vars(FinalBatch) /\ WF_vars(LoadChainTip) /\ WF_vars(ReplayBlocks)

Spec == Init /\ [][Next]_vars /\ Fairness
-----------------------------------------------------------------------------
(* Properties. *)

\* The reference: an output is unspent on the chain of b when an ancestor
\* creates it and none spends it.
Creators(o, b) == {a \in Ancestors[b] : \E i \in DOMAIN Txs[a] : o \in Txs[a][i].outs}
Spenders(o, b) == {a \in Ancestors[b] : \E i \in DOMAIN Txs[a] : o \in Txs[a][i].ins}
Utxo == [b \in Block |->
  [o \in Outpoint |-> IF Creators(o, b) = {} \/ Spenders(o, b) # {} THEN NoCoin
                      ELSE Height[CHOOSE a \in Creators(o, b) : TRUE]]]

\* Zero-valued outputs are compared by nothing below except where said.
Paying == Outpoint \ ZeroValued
SamePaying(c, d) == \A o \in Paying : c[o] = d[o]

(* However many blocks were connected and disconnected, on whatever branches,
   and however often the node crashed, the coins in memory are the unspent
   outputs of the tip's chain (ConnectBlock, DisconnectBlock, ApplyTxInUndo). *)
TipCoinsExact == mode # "down" => SamePaying(coins, Utxo[tip])

(* At every instant the disk holds enough to start again: either the coins
   database is the set of its best block, or replaying from the two blocks of
   the marker gives the set of the new one, whichever part of the batches was
   written and however many replays were themselves interrupted (BatchWrite,
   ReplayBlocks). *)
DiskRecoverable ==
  IF heads = <<>>
  THEN IF best = NoBlock THEN SamePaying(db, NoCoins) ELSE SamePaying(db, Utxo[best])
  ELSE /\ Replayable(diskIndex, heads[1], heads[2])
       /\ SamePaying(Replayed(db, diskIndex.undo, heads[1], heads[2]), Utxo[heads[1]])

(* The money supply the block index states for the tip is what the unspent
   outputs of the UTXO set pay together, on every branch, after disconnections
   and reconnections and after a crash: ConnectBlock adds to its parent's
   figure, which may have come from disk, and the coins may have been replayed
   (nMoneySupply). *)
SupplyExact == mode # "down" => index.supply[tip] = Total({o \in Outpoint : coins[o] # NoCoin})

\* A zero-valued output may outlive its block, or never have been stored.
SpendsZeroValued(b) == \E i \in DOMAIN Txs[b] : Txs[b][i].ins \cap ZeroValued # {}

(* DisconnectTip never meets missing undo data, an output that is not the one
   its block created, or an input that is already there, except in a block that
   spends a zero-valued output. *)
DisconnectClean == \A b \in unclean : SpendsZeroValued(b)

\* The inputs of b's transactions are there when they are needed.
InputsThere(b) ==
  \A i \in DOMAIN Txs[b] : \A o \in Txs[b][i].ins :
     /\ Spenders(o, Parent[b]) = {}
     /\ \/ Creators(o, Parent[b]) # {}
        \/ \E j \in 1..(i - 1) : o \in Txs[b][j].outs
     /\ \A j \in 1..(i - 1) : o \notin Txs[b][j].ins

(* A block is marked failed only when its own branch lacks an input, whatever
   happened on other branches and at restarts, or when it spends a zero-valued
   output. *)
OnlyInvalidFails ==
  \A b \in index.failed \cup diskIndex.failed : SpendsZeroValued(b) \/ ~InputsThere(b)

(* A node that went down comes up again, whatever was being written. *)
Recovers == mode = "down" ~> mode = "up"

(* What the comment on DisconnectBlock says: the effects of a disconnected
   block are undone, so no coin of a block outside the active chain is left. *)
CoinsFromActiveChain ==
  mode = "up" => \A o \in Outpoint : coins[o] # NoCoin => Creators(o, tip) # {}
=============================================================================
