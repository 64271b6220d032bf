----------------------------- MODULE Chainstate -----------------------------
(***************************************************************************)
(* The block tree and the choice of the active chain: block index entries  *)
(* and their status bits, setBlockIndexCandidates, m_failed_blocks, and    *)
(* the operations that work on them from several threads.                  *)
(*                                                                         *)
(* cs_main protects all of this state.  ActivateBestChain and              *)
(* InvalidateBlock exclude each other by m_chainstate_mutex but let go of  *)
(* cs_main between steps, and headers, blocks and RPC calls of other       *)
(* threads come in there.  An action is a stretch of code under cs_main,   *)
(* except that the work of ActivateBestChain under one hold of the lock is *)
(* cut into steps (pc = "choose" or "step") no other thread gets between.  *)
(*                                                                         *)
(* What the checks on a block decide is a constant: BadContext holds the   *)
(* blocks AcceptBlock refuses, BadConnect those ConnectBlock refuses.  The *)
(* UTXO set is ChainstateDB's business.                                    *)
(***************************************************************************)
EXTENDS BlockTree, FiniteSets

CONSTANTS
  ChainTrust,         \* nChainTrust: work of the chain that ends in the block
  Address,            \* the order of the CBlockIndex pointers, as numbers
  BadContext, BadConnect,
  MaxCalls            \* bound on the operator's calls, each made at most once

VARIABLES
  header,             \* m_block_index
  data,               \* entries with BLOCK_HAVE_DATA and BLOCK_VALID_TRANSACTIONS
  scripts,            \* entries at BLOCK_VALID_SCRIPTS
  failed,             \* BLOCK_FAILED_VALID and BLOCK_FAILED_CHILD of each entry
  seq,                \* nSequenceId
  failedBlocks,       \* m_failed_blocks
  cand,               \* setBlockIndexCandidates
  tip,                \* m_chain.Tip()
  bestHeader,         \* pindexBestHeader
  nextSeq, revSeq, lastPrecious,
  pending,            \* some thread has yet to call ActivateBestChain
  pc,                 \* where the holder of m_chainstate_mutex is
  mostWork, starting, oldTip,              \* locals of ActivateBestChain and its step
  target, mark, byWork,                    \* locals of InvalidateBlock
  banned,             \* history: blocks at or above one that InvalidateBlock was
                      \* asked for, unless reset since
  calls               \* the operator's calls so far

tree == <<header, data, scripts, failed, seq, failedBlocks, cand, tip, bestHeader>>
counters == <<nextSeq, revSeq, lastPrecious>>
abc == <<mostWork, starting, oldTip>>
inv == <<target, mark, byWork>>
vars == <<tree, counters, pending, pc, abc, inv, banned, calls>>

\* GetBlockTrust is positive for the targets ContextualCheckBlockHeader lets
\* pass; no two entries share an address.
ASSUME TrustAssumption ==
  /\ ChainTrust \in [Block -> Nat] /\ Address \in [Block -> Nat]
  /\ \A b \in Block \ {Genesis} : ChainTrust[b] > ChainTrust[Parent[b]]
  /\ \A a, b \in Block : Address[a] = Address[b] => a = b
  /\ BadContext \cup BadConnect \subseteq Block \ {Genesis}

Calls == {"invalidate", "reset", "precious", "restart"}
May(k) == k \notin calls /\ Cardinality(calls) < MaxCalls
Count(k) == calls' = calls \cup {k}

(* The status bits, sets and locals have the types of the C++ objects. *)
TypeOK ==
  /\ header \subseteq Block /\ data \subseteq header /\ scripts \subseteq data
  /\ failed \in [Block -> SUBSET {"VALID", "CHILD"}]
  /\ seq \in [Block -> Int]
  /\ failedBlocks \subseteq header /\ cand \subseteq data
  /\ tip \in data /\ bestHeader \in header
  /\ nextSeq \in Nat /\ revSeq \in Int /\ lastPrecious \in Nat
  /\ pending \in BOOLEAN
  /\ pc \in {"idle", "abc", "choose", "step", "inv"}
  /\ {mostWork, starting, oldTip, target, mark} \subseteq header \cup {NoBlock}
  /\ byWork \subseteq data
  /\ banned \subseteq Block /\ calls \subseteq Calls

\* Genesis is connected.
Init ==
  /\ header = {Genesis} /\ data = {Genesis} /\ scripts = {Genesis}
  /\ failed = [b \in Block |-> {}]
  /\ seq = [b \in Block |-> 0]
  /\ failedBlocks = {} /\ cand = {Genesis}
  /\ tip = Genesis /\ bestHeader = Genesis
  /\ nextSeq = 1 /\ revSeq = -1 /\ lastPrecious = 0
  /\ pending = FALSE /\ pc = "idle"
  /\ mostWork = NoBlock /\ starting = NoBlock /\ oldTip = NoBlock
  /\ target = NoBlock /\ mark = NoBlock /\ byWork = {}
  /\ banned = {} /\ calls = {}

Unlocked == pc \notin {"choose", "step"}
Chain == Ancestors[tip]
-----------------------------------------------------------------------------
(* Ordering and pruning the candidates. *)

\* CBlockIndexWorkComparator, with the sequence numbers s: a sorts before b.
WorseBy(s, a, b) ==
  \/ ChainTrust[a] < ChainTrust[b]
  \/ /\ ChainTrust[a] = ChainTrust[b]
     /\ \/ s[a] > s[b]
        \/ s[a] = s[b] /\ Address[a] > Address[b]
Worse(a, b) == WorseBy(seq, a, b)

\* Mutant: ties with the tip are kept.
FaultPrune(c, s, t) == {b \in c : ChainTrust[b] >= ChainTrust[t]}

\* PruneBlockIndexCandidates: entries worse than the tip t go.
Prune(c, s, t) == {b \in c : ~WorseBy(s, b, t)}

Linked(b) == b \in data /\ failed[b] = {}
-----------------------------------------------------------------------------
(* Headers and blocks from other nodes. *)

\* AddToBlockIndex.
NewBestHeader(b) == IF b \notin header /\ ChainTrust[bestHeader] < ChainTrust[b] THEN b ELSE bestHeader

\* Mutant: any block found invalid, related or not.
FaultCulprits(b) == failedBlocks

\* AcceptBlockHeader: ancestors of b's parent that were found invalid.  The
\* list is only searched when the parent is not known to be script-valid.
Culprits(b) == IF Parent[b] \in scripts THEN {} ELSE failedBlocks \cap Ancestors[Parent[b]]

NewHeader(b) == b \notin header /\ Parent[b] \in header /\ failed[Parent[b]] = {}
HeaderAccepted(b) == \/ b \in header /\ failed[b] = {}
                     \/ NewHeader(b) /\ Culprits(b) = {}

\* A new header; also a block AcceptBlock refuses after its header, its parent
\* not being BLOCK_VALID_TRANSACTIONS.
AcceptBlockHeader(b) ==
  /\ Unlocked
  /\ NewHeader(b) /\ Culprits(b) = {}
  /\ header' = header \cup {b}
  /\ bestHeader' = NewBestHeader(b)
  /\ UNCHANGED <<data, scripts, failed, seq, failedBlocks, cand, tip, counters, pending,
                 pc, abc, inv, banned, calls>>

\* A header over a failed block: the blocks in between are marked on the way.
RejectBlockHeader(b) ==
  /\ Unlocked
  /\ NewHeader(b)
  /\ \E f \in Culprits(b) :
       failed' = [x \in Block |-> IF x \in Ancestors[Parent[b]] \ Ancestors[f]
                                  THEN failed[x] \cup {"CHILD"} ELSE failed[x]]
  /\ UNCHANGED <<header, data, scripts, seq, failedBlocks, cand, tip, bestHeader, counters,
                 pending, pc, abc, inv, banned, calls>>

\* A block AcceptBlock does not store, known or unrequested and behind the tip:
\* ProcessNewBlock still goes on to ActivateBestChain.
KnownOrUnwanted(b) ==
  /\ Unlocked
  /\ HeaderAccepted(b) /\ Linked(Parent[b])
  /\ header' = header \cup {b}
  /\ bestHeader' = NewBestHeader(b)
  /\ pending' = TRUE
  /\ UNCHANGED <<data, scripts, failed, seq, failedBlocks, cand, tip, counters, pc, abc, inv,
                 banned, calls>>

\* AcceptBlock on new data: AcceptBlockHeader, the guard on the parent, then
\* either a failed contextual or proof-of-stake check, or
\* ReceivedBlockTransactions.  Only the second goes on to ActivateBestChain.
\* A requested block is taken whatever its work.
AcceptBlock(b) ==
  /\ Unlocked
  /\ b \notin data
  /\ HeaderAccepted(b)
  /\ Linked(Parent[b])
  /\ header' = header \cup {b}
  /\ bestHeader' = NewBestHeader(b)
  /\ \/ /\ b \in BadContext
        /\ failed' = [failed EXCEPT ![b] = @ \cup {"VALID"}]
        /\ UNCHANGED <<data, seq, cand, nextSeq, pending>>
     \/ /\ b \notin BadContext
        /\ data' = data \cup {b}
        /\ seq' = [seq EXCEPT ![b] = nextSeq]
        /\ nextSeq' = nextSeq + 1
        /\ cand' = IF WorseBy(seq', b, tip) THEN cand ELSE cand \cup {b}
        /\ pending' = TRUE
        /\ UNCHANGED failed
  /\ UNCHANGED <<scripts, failedBlocks, tip, revSeq, lastPrecious, pc, abc, inv, banned, calls>>
-----------------------------------------------------------------------------
(* ActivateBestChain. *)

ABCStart ==
  /\ pc = "idle" /\ pending
  /\ pc' = "abc" /\ pending' = FALSE
  /\ UNCHANGED <<tree, counters, abc, inv, banned, calls>>

ABCLock ==
  /\ pc = "abc"
  /\ pc' = "choose"
  /\ starting' = tip
  /\ UNCHANGED <<tree, counters, pending, mostWork, oldTip, inv, banned, calls>>

\* With no candidate at all FindMostWorkChain gives up, which ends the call as
\* choosing the tip does.
Best == IF cand = {} THEN tip ELSE CHOOSE b \in cand : \A c \in cand : ~Worse(b, c)

\* Mutant: only the candidate itself is looked at.
FaultFailedOnPath(b) == {x \in {b} \ Chain : failed[x] # {}}

\* FindMostWorkChain walks from the candidate down to the active chain.
FailedOnPath(b) == {x \in Ancestors[b] \ Chain : failed[x] # {}}

\* FindMostWorkChain meets a failed block on the way to the best candidate:
\* what lies above it is marked, all of it leaves the candidates.
DropFailedCandidate ==
  /\ pc = "choose" /\ mostWork = NoBlock
  /\ FailedOnPath(Best) # {}
  /\ LET test  == CHOOSE x \in FailedOnPath(Best) : \A y \in FailedOnPath(Best) : Descends(x, y)
         above == Ancestors[Best] \ Ancestors[test]
     IN  /\ failed' = [x \in Block |-> IF x \in above THEN failed[x] \cup {"CHILD"} ELSE failed[x]]
         /\ cand' = cand \ (above \cup {test})
  /\ UNCHANGED <<header, data, scripts, seq, failedBlocks, tip, bestHeader, counters, pending,
                 pc, abc, inv, banned, calls>>

Return == pc' = "idle" /\ mostWork' = NoBlock /\ starting' = NoBlock /\ oldTip' = NoBlock

\* The chain to work towards: a step begins, or there is nothing to do.
Choose ==
  /\ pc = "choose"
  /\ mostWork = NoBlock => FailedOnPath(Best) = {}
  /\ LET m == IF mostWork = NoBlock THEN Best ELSE mostWork
     IN  IF m = tip
         THEN Return
         ELSE pc' = "step" /\ mostWork' = m /\ oldTip' = tip /\ UNCHANGED starting
  /\ UNCHANGED <<tree, counters, pending, inv, banned, calls>>

\* Mutant: the block that is left is no candidate any more.
FaultDisconnectTip ==
  /\ pc = "step"
  /\ tip \notin Ancestors[mostWork]
  /\ tip' = Parent[tip]
  /\ cand' = cand \ {tip}
  /\ UNCHANGED <<header, data, scripts, failed, seq, failedBlocks, bestHeader, counters,
                 pending, pc, abc, inv, banned, calls>>

\* ActivateBestChainStep: disconnect down to the fork.
DisconnectTip ==
  /\ pc = "step"
  /\ tip \notin Ancestors[mostWork]
  /\ tip' = Parent[tip]
  /\ UNCHANGED <<header, data, scripts, failed, seq, failedBlocks, cand, bestHeader, counters,
                 pending, pc, abc, inv, banned, calls>>

\* Mutant: one step and no more.
FaultStepOnce(t, m) ==
  IF ~Worse(t, starting) THEN Return
  ELSE pc' = "choose" /\ mostWork' = m /\ UNCHANGED <<starting, oldTip>>

\* Mutant: the lock is let go after every step.
FaultStepUnlocks(t, m) ==
  IF t = m THEN Return
  ELSE pc' = "abc" /\ mostWork' = m /\ UNCHANGED <<starting, oldTip>>

\* The step is over with tip t, aiming at m: go round under the lock while the
\* tip is worse than it was, else let the lock go, else finish.
StepOver(t, m) ==
  IF ~Worse(t, starting) /\ t = m THEN Return
  ELSE /\ pc' = IF Worse(t, starting) THEN "choose" ELSE "abc"
       /\ mostWork' = m /\ UNCHANGED <<starting, oldTip>>

NextBlock == CHOOSE c \in Children(tip) : Descends(mostWork, c)

\* InvalidChainFound: a best header over the bad block falls back to the tip.
HeaderAfterInvalid(b, t) == IF Descends(bestHeader, b) THEN t ELSE bestHeader

\* Mutant: the block stays unmarked and a candidate.
FaultConnectTipFails ==
  /\ pc = "step"
  /\ tip \in Ancestors[mostWork] \ {mostWork}
  /\ NextBlock \in BadConnect
  /\ StepOver(tip, NoBlock)
  /\ UNCHANGED <<tree, counters, pending, inv, banned, calls>>

\* ConnectTip refused by ConnectBlock: InvalidBlockFound, and the target is
\* forgotten.
ConnectTipFails ==
  /\ pc = "step"
  /\ tip \in Ancestors[mostWork] \ {mostWork}
  /\ NextBlock \in BadConnect
  /\ failed' = [failed EXCEPT ![NextBlock] = @ \cup {"VALID"}]
  /\ failedBlocks' = failedBlocks \cup {NextBlock}
  /\ cand' = cand \ {NextBlock}
  /\ bestHeader' = HeaderAfterInvalid(NextBlock, tip)
  /\ StepOver(tip, NoBlock)
  /\ UNCHANGED <<header, data, scripts, seq, tip, counters, pending, inv, banned, calls>>

\* ConnectTip and PruneBlockIndexCandidates; the step ends as soon as the new
\* tip has more work than the one it started from.
ConnectTip ==
  /\ pc = "step"
  /\ tip \in Ancestors[mostWork] \ {mostWork}
  /\ NextBlock \notin BadConnect
  /\ tip' = NextBlock
  /\ scripts' = scripts \cup {NextBlock}
  /\ cand' = Prune(cand, seq, NextBlock)
  /\ IF ChainTrust[NextBlock] > ChainTrust[oldTip] \/ NextBlock = mostWork
     THEN StepOver(NextBlock, mostWork)
     ELSE UNCHANGED <<pc, abc>>
  /\ UNCHANGED <<header, data, failed, seq, failedBlocks, bestHeader, counters, pending, inv,
                 banned, calls>>
-----------------------------------------------------------------------------
(* InvalidateBlock, one disconnected block per hold of cs_main. *)

InvalidateStart(b) ==
  /\ pc = "idle" /\ May("invalidate")
  /\ pc' = "inv"
  /\ target' = b /\ mark' = b
  /\ byWork' = {c \in data \ Chain : Linked(c) /\ ~Worse(c, Parent[b])}
  /\ banned' = banned \cup {x \in Block : Descends(x, b)}
  /\ Count("invalidate")
  /\ UNCHANGED <<tree, counters, pending, abc>>

InvalidateDisconnect ==
  /\ pc = "inv"
  /\ target \in Chain
  /\ LET below == Parent[tip]
         more  == {c \in byWork : ~Worse(c, below)}
     IN  /\ tip' = below
         /\ failed' = [x \in Block |->
              IF x = tip THEN failed[x] \cup {"VALID"}
              ELSE IF x = mark /\ x = below /\ "VALID" \in failed[x]
                   THEN (failed[x] \ {"VALID"}) \cup {"CHILD"}
                   ELSE failed[x]]
         /\ cand' = (cand \ {tip}) \cup {below} \cup more
         /\ byWork' = byWork \ more
         /\ mark' = tip
  /\ UNCHANGED <<header, data, scripts, seq, failedBlocks, bestHeader, counters, pending, pc,
                 abc, target, banned, calls>>

\* Mutant: the block gets the flag of a descendant.
FaultInvalidateFinish ==
  /\ pc = "inv"
  /\ target \notin Chain
  /\ failed' = [failed EXCEPT ![mark] = @ \cup {"CHILD"}]
  /\ cand' = (cand \ {mark}) \cup {x \in data : failed'[x] = {} /\ ~Worse(x, tip)}
  /\ failedBlocks' = failedBlocks \cup {mark}
  /\ bestHeader' = HeaderAfterInvalid(mark, tip)
  /\ pc' = "idle" /\ pending' = TRUE
  /\ target' = NoBlock /\ mark' = NoBlock /\ byWork' = {}
  /\ UNCHANGED <<header, data, scripts, seq, tip, counters, abc, banned, calls>>

\* The last part: mark the block, look over the whole index for candidates that
\* arrived meanwhile.  The RPC then calls ActivateBestChain.
InvalidateFinish ==
  /\ pc = "inv"
  /\ target \notin Chain
  /\ failed' = [failed EXCEPT ![mark] = @ \cup {"VALID"}]
  /\ cand' = (cand \ {mark}) \cup {x \in data : failed'[x] = {} /\ ~Worse(x, tip)}
  /\ failedBlocks' = failedBlocks \cup {mark}
  /\ bestHeader' = HeaderAfterInvalid(mark, tip)
  /\ pc' = "idle" /\ pending' = TRUE
  /\ target' = NoBlock /\ mark' = NoBlock /\ byWork' = {}
  /\ UNCHANGED <<header, data, scripts, seq, tip, counters, abc, banned, calls>>
-----------------------------------------------------------------------------
(* The other calls of the operator, and a clean restart. *)

\* Mutant: m_failed_blocks keeps the ancestors.
FaultForgiven(b, below) == below

\* What leaves m_failed_blocks: whatever loses a flag.
Forgiven(b, below) == below \cup {x \in Ancestors[b] : failed[x] # {}}

\* ResetBlockFailureFlags: the block and its descendants, which may become
\* candidates again, then its ancestors.
ResetBlockFailureFlags(b) ==
  LET below == {x \in header : Descends(x, b) /\ ~Linked(x)}
  IN  /\ Unlocked /\ May("reset")
      /\ failed' = [x \in Block |-> IF x \in below \cup Ancestors[b] THEN {} ELSE failed[x]]
      /\ cand' = cand \cup {x \in below \cap data : Worse(tip, x)}
      /\ failedBlocks' = failedBlocks \ Forgiven(b, below)
      /\ pending' = TRUE
      /\ banned' = {x \in banned : \/ target # NoBlock /\ Descends(x, target)
                                   \/ ~Descends(x, b) /\ ~Descends(b, x)}
      /\ Count("reset")
      /\ UNCHANGED <<header, data, scripts, seq, tip, bestHeader, counters, pc, abc, inv>>

PreciousBlock(b) ==
  LET rev == IF ChainTrust[tip] > lastPrecious THEN -1 ELSE revSeq
  IN  /\ Unlocked /\ May("precious")
      /\ ChainTrust[b] >= ChainTrust[tip]
      /\ seq' = [seq EXCEPT ![b] = rev]
      /\ revSeq' = rev - 1
      /\ lastPrecious' = ChainTrust[tip]
      /\ cand' = IF Linked(b) THEN Prune(cand \cup {b}, seq', tip) ELSE cand \ {b}
      /\ pending' = TRUE
      /\ Count("precious")
      /\ UNCHANGED <<header, data, scripts, failed, failedBlocks, tip, bestHeader, nextSeq, pc,
                     abc, inv, banned>>

\* A clean stop and start: LoadBlockIndex, LoadChainTip, ActivateBestChain.
\* Sequence numbers and m_failed_blocks are not kept.
Restart ==
  LET marked == [x \in Block |-> IF failed[x] = {} /\ \E a \in Ancestors[x] : failed[a] # {}
                                 THEN {"CHILD"} ELSE failed[x]]
      zero   == [x \in Block |-> 0]
      valid  == {x \in header : marked[x] = {}}
  IN  /\ pc = "idle" /\ May("restart")
      /\ failed' = [x \in Block |-> IF x \in header THEN marked[x] ELSE failed[x]]
      /\ seq' = zero /\ nextSeq' = 1 /\ revSeq' = -1 /\ lastPrecious' = 0
      /\ failedBlocks' = {}
      /\ cand' = Prune(data \cap valid, zero, tip)
      /\ bestHeader' = CHOOSE x \in valid : \A y \in valid : ~WorseBy(zero, x, y)
      /\ pending' = TRUE
      /\ Count("restart")
      /\ UNCHANGED <<header, data, scripts, tip, pc, abc, inv, banned>>

Next ==
  \/ \E b \in Block \ {Genesis} : \/ AcceptBlockHeader(b) \/ RejectBlockHeader(b)
                                 \/ KnownOrUnwanted(b) \/ AcceptBlock(b)
  \/ ABCStart \/ ABCLock \/ DropFailedCandidate \/ Choose
  \/ DisconnectTip \/ ConnectTipFails \/ ConnectTip
  \/ \E b \in header \ {Genesis} : InvalidateStart(b)
  \/ InvalidateDisconnect \/ InvalidateFinish
  \/ \E b \in header : ResetBlockFailureFlags(b) \/ PreciousBlock(b)
  \/ Restart

\* A thread that is to call ActivateBestChain calls it, and the two functions
\* under m_chainstate_mutex run on.  Nothing is assumed of other inputs.
ChainstateStep ==
  \/ ABCStart \/ ABCLock \/ DropFailedCandidate \/ Choose
  \/ DisconnectTip \/ ConnectTipFails \/ ConnectTip
  \/ InvalidateDisconnect \/ InvalidateFinish

\* Weak fairness of ChainstateStep, which is enabled until the chain is at rest.
AtRest == pc = "idle" /\ ~pending
Fairness == []<>AtRest \/ []<><<ChainstateStep>>_vars

Spec == Init /\ [][Next]_vars /\ Fairness
-----------------------------------------------------------------------------
(* Properties. *)

(* Every entry of the active chain is free of failure flags and script-valid,
   whenever another thread can look. *)
ChainNotFailed == Unlocked => \A b \in Chain : failed[b] = {} /\ b \in scripts

\* b and all below it have data, and none is BLOCK_FAILED_VALID.
Usable(b) == b \in data /\ \A a \in Ancestors[b] : a \in data /\ "VALID" \notin failed[a]

(* CheckBlockIndex's assertions on setBlockIndexCandidates, outside
   InvalidateBlock and until the first reconsiderblock: a usable block as good
   as the tip is a candidate, the tip is one, and nothing worse than the tip is. *)
CandidatesExact ==
  pc \in {"idle", "abc"} /\ "reset" \notin calls =>
    /\ \A b \in header : Usable(b) /\ ~Worse(b, tip) => b \in cand
    /\ \A b \in cand : ~Worse(b, tip)

(* What PruneBlockIndexCandidates keeps the tip for: at every moment before the
   first reconsiderblock, the middle of a reorganisation included, some
   candidate is fully validated, and no worse than the tip ActivateBestChain
   took the lock with. *)
CanGoBack ==
  "reset" \notin calls =>
    \E c \in cand : /\ \A a \in Ancestors[c] : a \in scripts /\ failed[a] = {}
                   /\ ~Unlocked => ~Worse(c, starting)

(* The assertion in AcceptBlockHeader: what m_failed_blocks holds is marked
   BLOCK_FAILED_VALID, whatever InvalidateBlock and ResetBlockFailureFlags do
   to flags in between. *)
FailedBlocksMarked == \A b \in failedBlocks : "VALID" \in failed[b]

(* CheckBlockIndex, until the first reconsiderblock: a failure flag is always
   due to a BLOCK_FAILED_VALID entry at or below the block. *)
FailureHasCause ==
  Unlocked /\ "reset" \notin calls =>
    \A b \in header : failed[b] # {} => \E a \in Ancestors[b] : "VALID" \in failed[a]

(* No innocent block is held against: a flagged block descends from one that a
   check refused, or from one that the operator invalidated and was not reset
   with it. *)
OnlyGuiltyFail ==
  \A b \in header : failed[b] # {} =>
    b \in banned \/ Ancestors[b] \cap (BadContext \cup BadConnect) # {}

(* Once every thread has returned, and until the first reconsiderblock, no
   chain the node has in full and holds nothing against beats the active one. *)
BestChainWhenQuiet ==
  pc = "idle" /\ ~pending /\ "reset" \notin calls =>
    \A b \in data : (\A a \in Ancestors[b] : failed[a] = {}) => ~Worse(tip, b)

(* Until the first reconsiderblock, ActivateBestChain never lets go of cs_main
   with a worse tip than it took it with, even when the chain it tried turned
   out invalid half way. *)
NeverWorse == [][~Unlocked /\ Unlocked' /\ "reset" \notin calls => ~Worse(tip', starting)]_vars

(* ActivateBestChain and InvalidateBlock always return, whatever arrives while
   they let go of cs_main: the retries over invalid candidates come to an end. *)
Settles == []<>(pc = "idle")

=============================================================================
