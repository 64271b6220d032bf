-------------------------- MODULE ChainstateProofs --------------------------
(***************************************************************************)
(* For every tree of blocks, every order of work, arrival and address and  *)
(* every set of blocks that checks refuse: the safety properties of        *)
(* Chainstate.  The inductive invariant comes in layers, each proved with  *)
(* those below it:                                                         *)
(*   Core   the types, what the sets of blocks are closed under, what the  *)
(*          locals of the running call say at each program counter, and    *)
(*          where failure flags can be;                                    *)
(*   Guilt  whom a failure flag can be blamed on, a pending one included;  *)
(*   Cause  every flag has a BLOCK_FAILED_VALID entry at or below it;      *)
(*   Cands, Aim and the bounds on sequence ids: which blocks are in        *)
(*          setBlockIndexCandidates at every program counter, and that the *)
(*          chain worked towards is at least as good as the one left;      *)
(*   Quiet  what is left to do when no call runs.                          *)
(***************************************************************************)
EXTENDS Chainstate, CommonProofs

-----------------------------------------------------------------------------
(* CBlockIndexWorkComparator is a strict total order in which a block comes
   after its ancestors. *)

LEMMA WorseOrder ==
  ASSUME NEW s \in [Block -> Int]
  PROVE  \A a, b \in Block :
           /\ WorseBy(s, a, b) => ~WorseBy(s, b, a)
           /\ a # b => WorseBy(s, a, b) \/ WorseBy(s, b, a)
           /\ \A c \in Block : WorseBy(s, a, b) => WorseBy(s, a, c) \/ WorseBy(s, c, b)
<1> SUFFICES ASSUME NEW a \in Block, NEW b \in Block, NEW c \in Block
             PROVE  /\ WorseBy(s, a, b) => ~WorseBy(s, b, a)
                    /\ a # b => WorseBy(s, a, b) \/ WorseBy(s, b, a)
                    /\ WorseBy(s, a, b) => WorseBy(s, a, c) \/ WorseBy(s, c, b)
  OBVIOUS
<1>1. \A x \in Block : ChainTrust[x] \in Int /\ s[x] \in Int /\ Address[x] \in Int
  BY TrustAssumption DEF TrustAssumption
<1>2. a # b => Address[a] # Address[b]
  BY TrustAssumption DEF TrustAssumption
<1>3. WorseBy(s, a, b) => ~WorseBy(s, b, a)
  BY <1>1 DEF WorseBy
<1>4. a # b => WorseBy(s, a, b) \/ WorseBy(s, b, a)
  BY <1>1, <1>2 DEF WorseBy
<1>5. WorseBy(s, a, b) => WorseBy(s, a, c) \/ WorseBy(s, c, b)
  BY <1>1 DEF WorseBy
<1> QED
  BY <1>3, <1>4, <1>5

LEMMA WorseSame ==
  ASSUME NEW s, NEW t, NEW a \in Block, NEW b \in Block, s[a] = t[a], s[b] = t[b]
  PROVE  WorseBy(s, a, b) <=> WorseBy(t, a, b)
BY DEF WorseBy

LEMMA TrustGrows ==
  \A b \in Block : \A a \in Ancestors[b] : a # b => ChainTrust[a] < ChainTrust[b]
<1> DEFINE T == {b \in Block : \A a \in Ancestors[b] : a # b => ChainTrust[a] < ChainTrust[b]}
<1>1. Genesis \in T
  BY AncestorsStep, ParentInBlock
<1>2. ASSUME NEW b \in Block \ {Genesis}, Parent[b] \in T PROVE b \in T
  <2>1. /\ Ancestors[b] = {b} \cup Ancestors[Parent[b]]
        /\ ChainTrust[Parent[b]] < ChainTrust[b]
        /\ \A a \in Ancestors[Parent[b]] : a \in Block
        /\ Parent[b] \in Block /\ \A a \in Block : ChainTrust[a] \in Nat
    BY AncestorsStep, AncestorsType, ParentInBlock, TrustAssumption DEF TrustAssumption
  <2> QED
    BY <1>2, <2>1
<1>3. T = Block
  <2> HIDE DEF T
  <2> QED
    BY Zenon, <1>1, <1>2, BlockInduction, T \in SUBSET Block DEF T
<1> QED
  BY <1>3

LEMMA AncestorWorse ==
  ASSUME NEW s \in [Block -> Int], NEW b \in Block, NEW a \in Ancestors[b]
  PROVE  ~WorseBy(s, b, a)
<1>1. a \in Block
  BY AncestorsType
<1>2. CASE a = b
  BY <1>2, WorseOrder
<1>3. CASE a # b
  <2>1. ChainTrust[a] < ChainTrust[b] /\ ChainTrust[a] \in Int /\ ChainTrust[b] \in Int
    BY <1>1, <1>3, TrustGrows, TrustAssumption DEF TrustAssumption
  <2> QED
    BY <2>1 DEF WorseBy
<1> QED
  BY <1>2, <1>3
-----------------------------------------------------------------------------
(* The inductive invariant, in layers. *)

\* Nothing is held against b or what it builds on.
Clean(b) == \A a \in Ancestors[b] : failed[a] = {}

\* The index has the parents of its entries; what is connected was never
\* refused; only entries of the index carry flags.
Structure ==
  /\ IsFiniteSet(header)
  /\ Genesis \in scripts /\ tip \in scripts
  /\ scripts \cap BadConnect = {}
  /\ \A b \in header \ {Genesis} : Parent[b] \in header
  /\ \A b \in data \ {Genesis} : Parent[b] \in data
  /\ \A b \in scripts \ {Genesis} : Parent[b] \in scripts
  /\ \A b \in Block : failed[b] # {} => b \in header

\* Where the locals of ActivateBestChain and InvalidateBlock point.
Locals ==
  /\ pc \in {"idle", "inv"} => mostWork = NoBlock
  /\ mostWork # NoBlock => mostWork \in data
  /\ pc = "step" => mostWork # NoBlock /\ oldTip \in data
  /\ pc \in {"choose", "step"} => starting \in scripts
  /\ pc = "inv" <=> target # NoBlock
  /\ pc = "inv" => /\ target \in header \ {Genesis} /\ mark \in header \ {Genesis}
                   /\ Descends(mark, target)
                   /\ mark = target \/ Parent[mark] = tip

\* The active chain, the one worked towards and the one left are clean.
Flags ==
  /\ Clean(tip)
  /\ mostWork # NoBlock => Clean(mostWork)
  /\ pc \in {"choose", "step"} => Clean(starting)
  /\ FailedBlocksMarked

Core == TypeOK /\ Structure /\ Locals /\ Flags

-----------------------------------------------------------------------------
(* What Core gives every action. *)

LEMMA Closed ==
  ASSUME Core
  PROVE  /\ \A b \in header : Ancestors[b] \subseteq header
         /\ \A b \in data : Ancestors[b] \subseteq data
         /\ \A b \in scripts : Ancestors[b] \subseteq scripts
         /\ header \subseteq Block /\ data \subseteq header /\ scripts \subseteq data
<1>1. header \in SUBSET Block /\ data \in SUBSET Block /\ scripts \in SUBSET Block
  BY DEF Core, TypeOK
<1>2. /\ \A b \in header \ {Genesis} : Parent[b] \in header
      /\ \A b \in data \ {Genesis} : Parent[b] \in data
      /\ \A b \in scripts \ {Genesis} : Parent[b] \in scripts
  BY DEF Core, Structure
<1>3. \A b \in header : Ancestors[b] \subseteq header
  BY <1>1, <1>2, AncestorsWithin
<1>4. \A b \in data : Ancestors[b] \subseteq data
  BY <1>1, <1>2, AncestorsWithin
<1>5. \A b \in scripts : Ancestors[b] \subseteq scripts
  BY <1>1, <1>2, AncestorsWithin
<1> QED
  BY <1>3, <1>4, <1>5 DEF Core, TypeOK

\* The best of a set of entries exists.
LEMMA BestExists ==
  ASSUME NEW S \in SUBSET Block, IsFiniteSet(S), S # {}, NEW s \in [Block -> Int]
  PROVE  \E m \in S : \A x \in S : ~WorseBy(s, m, x)
<1> DEFINE R == {p \in S \X S : ~WorseBy(s, p[2], p[1])}
<1>1. \A a, b \in S : <<a, b>> \in R <=> ~WorseBy(s, b, a)
  OBVIOUS
<1> HIDE DEF R
<1>2. \A a, b \in S : <<a, b>> \in R \/ <<b, a>> \in R
  BY Zenon, <1>1, WorseOrder
<1>3. \A a, b, c \in S : <<a, b>> \in R /\ <<b, c>> \in R => <<a, c>> \in R
  BY <1>1, WorseOrder
<1>4. PICK m \in S : \A x \in S : <<x, m>> \in R
  BY <1>2, <1>3, LargestExists, Zenon
<1> QED
  BY Zenon, <1>1, <1>4

\* FindMostWorkChain's candidate.
LEMMA BestIs ==
  ASSUME Core
  PROVE  /\ Best \in data
         /\ \A c \in cand : Best \in cand /\ ~Worse(Best, c)
         /\ cand = {} => Best = tip
<1>1. CASE cand = {}
  BY <1>1 DEF Best, Core, TypeOK
<1>2. CASE cand # {}
  <2>1. cand \in SUBSET Block /\ IsFiniteSet(cand) /\ cand \subseteq data
    BY FS_Subset, cand \in SUBSET header DEF Core, TypeOK, Structure
  <2>2. seq \in [Block -> Int]
    BY DEF Core, TypeOK
  <2>3. \E m \in cand : \A x \in cand : ~Worse(m, x)
    BY <1>2, <2>1, <2>2, BestExists DEF Worse
  <2> QED
    BY <1>2, <2>1, <2>3 DEF Best
<1> QED
  BY <1>1, <1>2

\* The failed block nearest to b on the way down to the chain.
LEMMA NearestFailed ==
  ASSUME NEW b \in Block, FailedOnPath(b) # {}
  PROVE  LET test == CHOOSE x \in FailedOnPath(b) : \A y \in FailedOnPath(b) : Descends(x, y)
         IN  test \in FailedOnPath(b)
<1> DEFINE S == FailedOnPath(b)
           R == {p \in S \X S : p[1] \in Ancestors[p[2]]}
<1>1. S \in SUBSET Ancestors[b] /\ S \subseteq Block
  BY AncestorsType DEF FailedOnPath
<1>2. IsFiniteSet(S)
  BY <1>1, AncestorsFinite, FS_Subset
<1>3. \A x, y \in S : <<x, y>> \in R <=> x \in Ancestors[y]
  OBVIOUS
<1> HIDE DEF S, R
<1>4. \A x, y \in S : <<x, y>> \in R \/ <<y, x>> \in R
  BY Zenon, <1>1, <1>3, AncestorsLinear
<1>5. \A x, y, z \in S : <<x, y>> \in R /\ <<y, z>> \in R => <<x, z>> \in R
  BY <1>1, <1>3, AncestorsTransitive
<1>6. S # {}
  BY DEF S
<1>7. \E x \in S : \A y \in S : <<y, x>> \in R
  BY <1>2, <1>4, <1>5, <1>6, LargestExists, Zenon
<1>8. \E x \in S : \A y \in S : Descends(x, y)
  BY Zenon, <1>3, <1>7 DEF Descends
<1> QED
  BY <1>8 DEF S

\* ActivateBestChainStep's next block.
LEMMA NextBlockIs ==
  ASSUME NEW b \in Block, mostWork = b, tip \in Ancestors[b] \ {b}
  PROVE  NextBlock \in Block \ {Genesis} /\ Parent[NextBlock] = tip /\ NextBlock \in Ancestors[b]
<1>1. \E c \in Children(tip) : Descends(mostWork, c)
  BY ChildTowards DEF Children, Descends
<1> QED
  BY <1>1 DEF NextBlock, Children, Descends

\* A block with a failed one below it is on no clean chain.
LEMMA AboveFailed ==
  ASSUME NEW b \in Block, NEW f \in Ancestors[b], NEW x \in Ancestors[b] \ Ancestors[f]
  PROVE  /\ f \in Ancestors[x]
         /\ \A c \in Block : x \in Ancestors[c] => f \in Ancestors[c]
<1>1. x \in Block /\ f \in Ancestors[x]
  BY AncestorsType, AncestorsLinear
<1> QED
  BY <1>1, AncestorsTransitive
-----------------------------------------------------------------------------
(* Core is inductive. *)

LEMMA CoreInit == Init => Core
<1> SUFFICES ASSUME Init PROVE Core
  OBVIOUS
<1>0. Genesis \in Block /\ NoBlock # Genesis /\ Genesis \notin BadConnect
  BY TreeAssumption, TrustAssumption DEF TreeAssumption, TrustAssumption
<1>1. TypeOK
  <2>1. failed \in [Block -> SUBSET {"VALID", "CHILD"}] /\ seq \in [Block -> Int]
    BY DEF Init
  <2>2. nextSeq \in Nat /\ revSeq \in Int /\ lastPrecious \in Nat
    BY DEF Init
  <2>3. /\ {mostWork, starting, oldTip, target, mark} \subseteq header \cup {NoBlock}
        /\ header \subseteq Block /\ data \subseteq header /\ scripts \subseteq data
        /\ tip \in data /\ bestHeader \in header /\ failedBlocks \subseteq header /\ cand \subseteq data
        /\ byWork \subseteq data /\ banned \subseteq Block /\ calls \subseteq Calls
    BY <1>0 DEF Init
  <2> QED
    BY Zenon, <2>1, <2>2, <2>3 DEF Init, TypeOK
<1>2. Structure
  BY Zenon, <1>0, FS_Singleton DEF Init, Structure
<1>3. Locals
  BY DEF Init, Locals
<1>4. Flags
  BY <1>0, AncestorsStep DEF Init, Flags, Clean, FailedBlocksMarked
<1> QED
  BY <1>1, <1>2, <1>3, <1>4 DEF Core

\* Marking what is above a failed block leaves clean chains clean.
LEMMA StaysClean ==
  ASSUME NEW b \in Block, NEW f \in Ancestors[b], failed[f] # {},
         failed' = [x \in Block |-> IF x \in Ancestors[b] \ Ancestors[f]
                                    THEN failed[x] \cup {"CHILD"} ELSE failed[x]]
  PROVE  \A c \in Block : (\A a \in Ancestors[c] : failed[a] = {})
                            => \A a \in Ancestors[c] : failed'[a] = {}
<1> SUFFICES ASSUME NEW c \in Block, \A a \in Ancestors[c] : failed[a] = {},
                    NEW a \in Ancestors[c]
             PROVE  failed'[a] = {}
  OBVIOUS
<1>1. a \in Block /\ f \notin Ancestors[c]
  BY AncestorsType
<1>2. a \notin Ancestors[b] \ Ancestors[f]
  BY <1>1, AboveFailed
<1> QED
  BY <1>1, <1>2

\* The headers and blocks of other nodes.
LEMMA CoreArrivals ==
  ASSUME Core, NEW b \in Block \ {Genesis},
         AcceptBlockHeader(b) \/ RejectBlockHeader(b) \/ KnownOrUnwanted(b) \/ AcceptBlock(b)
  PROVE  Core'
<1> USE DEF counters, abc, inv
<1>0. TypeOK /\ Structure /\ Locals /\ Flags /\ Parent[b] \in Block
  BY ParentInBlock DEF Core
<1>1. CASE AcceptBlockHeader(b)
  <2> USE <1>0, <1>1 DEF AcceptBlockHeader
  <2>1. TypeOK'
    BY DEF TypeOK, NewBestHeader
  <2>2. Structure'
    BY FS_AddElement DEF Structure, NewHeader
  <2>3. Locals'
    BY DEF Locals
  <2>4. Flags'
    BY DEF Flags, Clean, FailedBlocksMarked
  <2> QED
    BY <2>1, <2>2, <2>3, <2>4 DEF Core
<1>2. CASE RejectBlockHeader(b)
  <2> USE <1>0, <1>2 DEF RejectBlockHeader
  <2>1. TypeOK'
    BY DEF TypeOK
  <2>2. Structure'
    BY Closed DEF Structure, NewHeader
  <2>3. Locals'
    BY DEF Locals
  <2>4. Flags'
    <3>1. PICK f \in Culprits(b) :
            failed' = [x \in Block |-> IF x \in Ancestors[Parent[b]] \ Ancestors[f]
                                       THEN failed[x] \cup {"CHILD"} ELSE failed[x]]
      OBVIOUS
    <3>2. f \in Ancestors[Parent[b]] /\ failed[f] # {}
      BY <3>1 DEF Culprits, Flags, FailedBlocksMarked
    <3>3. \A c \in Block : (\A a \in Ancestors[c] : failed[a] = {})
                             => \A a \in Ancestors[c] : failed'[a] = {}
      BY Zenon, <3>1, <3>2, StaysClean
    <3>4. \A x \in Block : failed[x] \subseteq failed'[x]
      BY <3>1
    <3>5. tip \in Block /\ (mostWork # NoBlock => mostWork \in Block) /\ failedBlocks \subseteq Block
      BY DEF TypeOK
    <3> QED
      BY <3>3, <3>4, <3>5 DEF Flags, Clean, FailedBlocksMarked, Unlocked
  <2> QED
    BY <2>1, <2>2, <2>3, <2>4 DEF Core
<1>3. CASE KnownOrUnwanted(b)
  <2> USE <1>0, <1>3 DEF KnownOrUnwanted
  <2>1. TypeOK'
    BY DEF TypeOK, NewBestHeader
  <2>2. Structure'
    BY FS_AddElement DEF Structure, HeaderAccepted, NewHeader
  <2>3. Locals'
    BY DEF Locals
  <2>4. Flags'
    BY DEF Flags, Clean, FailedBlocksMarked
  <2> QED
    BY <2>1, <2>2, <2>3, <2>4 DEF Core
<1>4. CASE AcceptBlock(b)
  <2> USE <1>0, <1>4
  <2>0. /\ Parent[b] \in data /\ b \notin data /\ header' = header \cup {b}
        /\ data' \subseteq data \cup {b} /\ data \subseteq data'
        /\ \A x \in Block : x # b => failed'[x] = failed[x]
        /\ \A x \in Block : failed[x] \subseteq failed'[x]
        /\ failed' \in [Block -> SUBSET {"VALID", "CHILD"}]
    <3>1. /\ Parent[b] \in data /\ b \notin data /\ header' = header \cup {b}
          /\ data' \subseteq data \cup {b} /\ data \subseteq data'
      BY DEF AcceptBlock, Linked
    <3>2. failed' = failed \/ failed' = [failed EXCEPT ![b] = @ \cup {"VALID"}]
      BY Zenon DEF AcceptBlock
    <3>3. failed \in [Block -> SUBSET {"VALID", "CHILD"}]
      BY Zenon DEF TypeOK
    <3> HIDE <1>0, <1>4
    <3> QED
      BY <3>1, <3>2, <3>3
  <2>1. TypeOK'
    <3>0. \/ seq' = seq /\ nextSeq' = nextSeq
          \/ seq' = [seq EXCEPT ![b] = nextSeq] /\ nextSeq' = nextSeq + 1
      BY Zenon DEF AcceptBlock
    <3>1. seq' \in [Block -> Int] /\ nextSeq' \in Nat
      BY <3>0 DEF TypeOK
    <3>2. cand' \subseteq data'
      BY DEF AcceptBlock, TypeOK
    <3>3. pending' \in BOOLEAN
      BY Zenon DEF AcceptBlock, TypeOK
    <3>4. bestHeader' \in header \cup {b} /\ b \in Block
      BY DEF AcceptBlock, TypeOK, NewBestHeader
    <3>5. UNCHANGED <<scripts, failedBlocks, tip, revSeq, lastPrecious, pc, abc, inv, banned, calls>>
      BY Zenon DEF AcceptBlock
    <3> HIDE <1>4
    <3> QED
      BY <2>0, <3>1, <3>2, <3>3, <3>4, <3>5 DEF TypeOK
  <2>2. Structure'
    <3>1. IsFiniteSet(header')
      BY <2>0, FS_AddElement DEF Structure
    <3>2. UNCHANGED <<scripts, tip>> /\ (b \in header \/ Parent[b] \in header)
      BY Zenon DEF AcceptBlock, HeaderAccepted, NewHeader
    <3> HIDE <1>4
    <3> QED
      BY <2>0, <3>1, <3>2 DEF Structure
  <2>3. Locals'
    BY <2>0 DEF Locals, AcceptBlock
  <2>4. Flags'
    <3>1. \A x \in data : \A a \in Ancestors[x] : a \in Block /\ a # b
      BY <2>0, Closed
    <3>2. tip \in data /\ (mostWork # NoBlock => mostWork \in data) /\ failedBlocks \subseteq Block
      BY DEF TypeOK, Locals
    <3> QED
      BY <2>0, <3>1, <3>2 DEF Flags, Clean, FailedBlocksMarked, AcceptBlock, Unlocked
  <2> QED
    BY <2>1, <2>2, <2>3, <2>4 DEF Core
<1> QED
  BY <1>1, <1>2, <1>3, <1>4

\* ActivateBestChain.
LEMMA CoreActivate ==
  ASSUME Core,
         \/ ABCStart \/ ABCLock \/ DropFailedCandidate \/ Choose
         \/ DisconnectTip \/ ConnectTipFails \/ ConnectTip
  PROVE  Core'
<1> USE DEF counters, abc, inv, tree
<1>0. /\ TypeOK /\ Structure /\ Locals /\ Flags
      /\ tip \in data /\ data \subseteq header /\ header \subseteq Block /\ NoBlock \notin Block
  BY TreeAssumption DEF Core, TypeOK, TreeAssumption
<1>1. CASE ABCStart
  BY Zenon, <1>0, <1>1 DEF ABCStart, Core, TypeOK, Structure, Locals, Flags, Clean, FailedBlocksMarked
<1>2. CASE ABCLock
  BY <1>0, <1>2 DEF ABCLock, Core, TypeOK, Structure, Locals, Flags, Clean, FailedBlocksMarked
<1>3. CASE DropFailedCandidate
  <2> DEFINE test  == CHOOSE x \in FailedOnPath(Best) : \A y \in FailedOnPath(Best) : Descends(x, y)
             above == Ancestors[Best] \ Ancestors[test]
  <2>1. Best \in Block /\ Ancestors[Best] \subseteq header
    BY <1>0, BestIs, Closed
  <2>2. test \in Ancestors[Best] /\ failed[test] # {}
    <3>1. test \in FailedOnPath(Best)
      BY Zenon, <1>3, <2>1, NearestFailed DEF DropFailedCandidate
    <3> QED
      BY Zenon, <3>1 DEF FailedOnPath
  <2>3. /\ failed' = [x \in Block |-> IF x \in above THEN failed[x] \cup {"CHILD"} ELSE failed[x]]
        /\ cand' = cand \ (above \cup {test})
    BY <1>3 DEF DropFailedCandidate
  <2> HIDE DEF test
  <2>4. /\ failed' \in [Block -> SUBSET {"VALID", "CHILD"}] /\ cand' \subseteq cand
        /\ \A x \in Block : failed[x] \subseteq failed'[x]
        /\ \A x \in Block : failed'[x] # {} => x \in header
    BY <1>0, <2>1, <2>3 DEF TypeOK, Structure
  <2>5. \A c \in Block : (\A a \in Ancestors[c] : failed[a] = {})
                           => \A a \in Ancestors[c] : failed'[a] = {}
    BY <2>1, <2>2, <2>3, StaysClean
  <2>6. TypeOK'
    BY <1>0, <1>3, <2>4 DEF DropFailedCandidate, TypeOK
  <2>7. Structure' /\ Locals'
    BY <1>0, <1>3, <2>4 DEF DropFailedCandidate, Structure, Locals
  <2>8. Flags'
    <3>1. starting \in scripts /\ scripts \subseteq Block /\ failedBlocks \subseteq Block
      BY <1>0, <1>3 DEF DropFailedCandidate, Locals, TypeOK
    <3> QED
      BY Zenon, <1>0, <1>3, <2>4, <2>5, <3>1 DEF DropFailedCandidate, Flags, Clean, FailedBlocksMarked
  <2> QED
    BY <2>6, <2>7, <2>8 DEF Core
<1>4. CASE Choose
  <2> DEFINE m == IF mostWork = NoBlock THEN Best ELSE mostWork
  <2>1. m \in data /\ Clean(m)
    <3>1. Best \in data
      BY BestIs
    <3>2. CASE mostWork # NoBlock
      BY <1>0, <3>2 DEF Locals, Flags
    <3>3. CASE mostWork = NoBlock
      BY Zenon, <1>0, <1>4, <3>1, <3>3 DEF Choose, FailedOnPath, Flags, Clean, Chain
    <3> QED
      BY <3>2, <3>3
  <2>2. \/ pc' = "idle" /\ mostWork' = NoBlock /\ starting' = NoBlock /\ oldTip' = NoBlock
        \/ pc' = "step" /\ mostWork' = m /\ oldTip' = tip /\ starting' = starting
    BY <1>4 DEF Choose, Return
  <2>3. UNCHANGED <<tree, counters, pending, inv, banned, calls>> /\ pc = "choose"
    BY <1>4 DEF Choose
  <2> HIDE DEF m
  <2>4. TypeOK'
    BY <1>0, <2>1, <2>2, <2>3 DEF TypeOK
  <2>5. Structure'
    BY Zenon, <1>0, <2>3 DEF Structure
  <2>6. Locals'
    BY <1>0, <2>1, <2>2, <2>3 DEF Locals
  <2>7. Flags'
    BY <1>0, <2>1, <2>2, <2>3 DEF Flags, Clean, FailedBlocksMarked
  <2> QED
    BY <2>4, <2>5, <2>6, <2>7 DEF Core
<1>5. CASE DisconnectTip
  <2>1. mostWork \in Block /\ pc = "step" /\ tip \notin Ancestors[mostWork]
    BY Zenon, <1>0, <1>5 DEF DisconnectTip, Locals
  <2>2. tip # Genesis
    BY <2>1, AncestorsType
  <2>3. /\ Parent[tip] \in scripts /\ Parent[tip] \in data
        /\ Ancestors[Parent[tip]] \subseteq Ancestors[tip]
    BY <1>0, <2>2, AncestorsStep DEF Structure, TypeOK
  <2> QED
    BY Zenon, <1>0, <1>5, <2>3
    DEF DisconnectTip, Core, TypeOK, Structure, Locals, Flags, Clean, FailedBlocksMarked
<1>6. CASE ConnectTipFails
  <2>1. mostWork \in data /\ pc = "step" /\ tip \in Ancestors[mostWork] \ {mostWork}
    BY <1>0, <1>6 DEF ConnectTipFails, Locals
  <2>2. NextBlock \in Ancestors[mostWork] /\ NextBlock \in header /\ NextBlock \in Block
    BY <1>0, <2>1, NextBlockIs, Closed
  <2> DEFINE n == NextBlock
  <2>3. /\ failed' = [failed EXCEPT ![n] = @ \cup {"VALID"}]
        /\ failedBlocks' = failedBlocks \cup {n}
        /\ cand' = cand \ {n}
        /\ bestHeader' \in {tip, bestHeader}
        /\ n \in BadConnect
        /\ UNCHANGED <<header, data, scripts, seq, tip, counters, pending, inv, banned, calls>>
    BY <1>6 DEF ConnectTipFails, HeaderAfterInvalid
  <2>4. /\ pc' \in {"choose", "abc"}
        /\ mostWork' = NoBlock /\ UNCHANGED <<starting, oldTip>>
    BY <1>0, <1>6 DEF ConnectTipFails, StepOver
  <2>5. n \in Ancestors[mostWork] /\ n \in header /\ n \in Block
    BY <2>2
  <2> HIDE DEF n
  <2>6. /\ failed' \in [Block -> SUBSET {"VALID", "CHILD"}]
        /\ \A x \in Block : x # n => failed'[x] = failed[x]
        /\ "VALID" \in failed'[n]
    BY <1>0, <2>3, <2>5 DEF TypeOK
  <2>7. TypeOK'
    BY <1>0, <2>3, <2>4, <2>5, <2>6 DEF TypeOK
  <2>8. Structure' /\ Locals'
    BY <1>0, <2>1, <2>3, <2>4, <2>5, <2>6 DEF Structure, Locals
  <2>9. Flags'
    <3>1. \A c \in scripts : \A a \in Ancestors[c] : a \in Block /\ a # n
      BY <1>0, <2>3, Closed DEF Structure
    <3>2. tip \in scripts /\ starting \in scripts /\ failedBlocks \subseteq Block
      BY <1>0, <2>1 DEF Structure, Locals, TypeOK
    <3> QED
      BY <1>0, <2>1, <2>3, <2>4, <2>6, <3>1, <3>2 DEF Flags, Clean, FailedBlocksMarked
  <2> QED
    BY <2>7, <2>8, <2>9 DEF Core
<1>7. CASE ConnectTip
  <2>1. mostWork \in data /\ pc = "step" /\ tip \in Ancestors[mostWork] \ {mostWork}
    BY <1>0, <1>7 DEF ConnectTip, Locals
  <2> DEFINE n == NextBlock
  <2>2. /\ n \in Ancestors[mostWork] /\ n \in data /\ n \in Block \ {Genesis} /\ Parent[n] = tip
        /\ Ancestors[n] \subseteq Ancestors[mostWork]
    BY <1>0, <2>1, NextBlockIs, Closed, AncestorsTransitive
  <2>3. /\ tip' = n /\ scripts' = scripts \cup {n} /\ cand' \subseteq cand /\ n \notin BadConnect
        /\ UNCHANGED <<header, data, failed, seq, failedBlocks, bestHeader, counters, pending,
                       inv, banned, calls>>
    BY <1>7 DEF ConnectTip, Prune
  <2>4. \/ pc' = "idle" /\ mostWork' = NoBlock /\ starting' = NoBlock /\ oldTip' = NoBlock
        \/ pc' \in {"choose", "abc"} /\ UNCHANGED abc
        \/ UNCHANGED <<pc, abc>>
    BY <1>7 DEF ConnectTip, StepOver, Return
  <2> HIDE DEF n
  <2>5. TypeOK'
    BY <1>0, <2>2, <2>3, <2>4 DEF TypeOK
  <2>6. Structure'
    BY <1>0, <2>2, <2>3 DEF Structure
  <2>7. Locals'
    BY <1>0, <2>1, <2>3, <2>4 DEF Locals
  <2>8. Flags'
    BY Zenon, <1>0, <2>1, <2>2, <2>3, <2>4 DEF Flags, Clean, FailedBlocksMarked
  <2> QED
    BY <2>5, <2>6, <2>7, <2>8 DEF Core
<1> QED
  BY <1>1, <1>2, <1>3, <1>4, <1>5, <1>6, <1>7

\* InvalidateBlock.
LEMMA CoreInvalidate ==
  ASSUME Core,
         \/ \E b \in header \ {Genesis} : InvalidateStart(b)
         \/ InvalidateDisconnect \/ InvalidateFinish
  PROVE  Core'
<1> USE DEF counters, abc, inv, tree
<1>0. /\ TypeOK /\ Structure /\ Locals /\ Flags
      /\ tip \in data /\ data \subseteq header /\ header \subseteq Block /\ NoBlock \notin Block
  BY TreeAssumption DEF Core, TypeOK, TreeAssumption
<1>1. ASSUME NEW b \in header \ {Genesis}, InvalidateStart(b) PROVE Core'
  <2>1. TypeOK'
    BY Zenon, <1>0, <1>1 DEF InvalidateStart, TypeOK, Count, Calls
  <2>2. Structure' /\ Flags'
    BY Zenon, <1>0, <1>1 DEF InvalidateStart, Structure, Flags, Clean, FailedBlocksMarked
  <2>3. Locals'
    BY Zenon, <1>0, <1>1, AncestorsType DEF InvalidateStart, Locals, Descends
  <2> QED
    BY <2>1, <2>2, <2>3 DEF Core
<1>2. CASE InvalidateDisconnect
  <2>1. /\ pc = "inv" /\ target \in Ancestors[tip] /\ target \in header \ {Genesis}
        /\ mostWork = NoBlock
    BY Zenon, <1>0, <1>2 DEF InvalidateDisconnect, Locals, Chain
  <2>2. tip \in Block \ {Genesis}
    BY <1>0, <2>1, AncestorsStep
  <2>3. /\ Parent[tip] \in scripts /\ Parent[tip] \in data /\ Parent[tip] \in Ancestors[tip]
        /\ Ancestors[Parent[tip]] \subseteq Ancestors[tip] /\ tip \notin Ancestors[Parent[tip]]
    <3>1. Parent[tip] \in scripts /\ scripts \subseteq data
      BY <1>0, <2>2 DEF Structure, TypeOK
    <3> QED
      BY <1>0, <2>2, <3>1, AncestorsStep, NotBelowParent
  <2>4. failed[Parent[tip]] = {}
    BY Zenon, <1>0, <2>3 DEF Flags, Clean
  <2>5. /\ failed' \in [Block -> SUBSET {"VALID", "CHILD"}]
        /\ failed'[tip] = failed[tip] \cup {"VALID"}
        /\ \A x \in Block : x # tip => failed'[x] = failed[x]
    BY Zenon, <1>0, <1>2, <2>4 DEF InvalidateDisconnect, TypeOK
  <2>6. TypeOK'
    <3>1. /\ tip' = Parent[tip] /\ mark' = tip
          /\ UNCHANGED <<header, data, scripts, seq, failedBlocks, bestHeader, counters, pending,
                         pc, abc, target, banned, calls>>
      BY Zenon, <1>2 DEF InvalidateDisconnect
    <3>2. cand' \subseteq data /\ byWork' \subseteq data
      BY <1>0, <1>2, <2>3 DEF InvalidateDisconnect, TypeOK
    <3> QED
      BY <1>0, <2>3, <2>5, <3>1, <3>2 DEF TypeOK
  <2>7. Structure'
    BY Zenon, <1>0, <1>2, <2>3, <2>5 DEF InvalidateDisconnect, Structure
  <2>8. Locals'
    BY Zenon, <1>0, <1>2, <2>1, <2>2 DEF InvalidateDisconnect, Locals, Descends
  <2>9. Flags'
    <3>1. \A x \in Ancestors[Parent[tip]] : x \in Block /\ x # tip /\ x \in Ancestors[tip]
      BY <1>0, <2>3, AncestorsType
    <3>2. failedBlocks \subseteq Block
      BY <1>0 DEF TypeOK
    <3> QED
      BY Zenon, <1>0, <1>2, <2>1, <2>5, <3>1, <3>2 DEF InvalidateDisconnect, Flags, Clean, FailedBlocksMarked
  <2> QED
    BY <2>6, <2>7, <2>8, <2>9 DEF Core
<1>3. CASE InvalidateFinish
  <2>1. /\ pc = "inv" /\ target \notin Ancestors[tip] /\ target \in Ancestors[mark]
        /\ mark \in header /\ mark \in Block /\ mostWork = NoBlock
    BY Zenon, <1>0, <1>3 DEF InvalidateFinish, Locals, Chain, Descends
  <2>2. mark \notin Ancestors[tip]
    BY <1>0, <2>1, AncestorsTransitive
  <2>3. /\ failed' \in [Block -> SUBSET {"VALID", "CHILD"}]
        /\ "VALID" \in failed'[mark]
        /\ \A x \in Block : x # mark => failed'[x] = failed[x]
    BY <1>0, <1>3, <2>1 DEF InvalidateFinish, TypeOK
  <2>4. TypeOK'
    <3>1. /\ UNCHANGED <<header, data, scripts, seq, tip, counters, abc, banned, calls>>
          /\ failedBlocks' = failedBlocks \cup {mark} /\ pc' = "idle" /\ pending' = TRUE
          /\ target' = NoBlock /\ mark' = NoBlock /\ byWork' = {}
      BY Zenon, <1>3 DEF InvalidateFinish
    <3>2. cand' \subseteq data /\ bestHeader' \in header
      BY <1>0, <1>3, <2>1 DEF InvalidateFinish, TypeOK, HeaderAfterInvalid
    <3> QED
      BY <1>0, <2>1, <2>3, <3>1, <3>2 DEF TypeOK
  <2>5. Structure'
    BY Zenon, <1>0, <1>3, <2>1, <2>3 DEF InvalidateFinish, Structure
  <2>7. Locals'
    BY Zenon, <1>0, <1>3, <2>1 DEF InvalidateFinish, Locals
  <2>6. Flags'
    <3>1. \A x \in Ancestors[tip] : x \in Block /\ x # mark
      BY <1>0, <2>2, AncestorsType
    <3>2. failedBlocks \subseteq Block
      BY <1>0 DEF TypeOK
    <3> QED
      BY Zenon, <1>0, <1>3, <2>1, <2>3, <3>1, <3>2 DEF InvalidateFinish, Flags, Clean, FailedBlocksMarked
  <2> QED
    BY <2>4, <2>5, <2>6, <2>7 DEF Core
<1> QED
  BY <1>1, <1>2, <1>3

\* The other calls of the operator.
LEMMA CoreCalls ==
  ASSUME Core,
         \/ \E b \in header : ResetBlockFailureFlags(b) \/ PreciousBlock(b)
         \/ Restart
  PROVE  Core'
<1> USE DEF counters, abc, inv, tree
<1>0. /\ TypeOK /\ Structure /\ Locals /\ Flags
      /\ tip \in data /\ data \subseteq header /\ header \subseteq Block /\ NoBlock \notin Block
  BY TreeAssumption DEF Core, TypeOK, TreeAssumption
<1>1. ASSUME NEW b \in header, ResetBlockFailureFlags(b) PROVE Core'
  <2> DEFINE below == {x \in header : Descends(x, b) /\ ~Linked(x)}
  <2>1. /\ failed' = [x \in Block |-> IF x \in below \cup Ancestors[b] THEN {} ELSE failed[x]]
        /\ failedBlocks' = failedBlocks \ Forgiven(b, below)
    BY Zenon, <1>1 DEF ResetBlockFailureFlags
  <2>2. /\ failed' \in [Block -> SUBSET {"VALID", "CHILD"}]
        /\ \A x \in Block : failed'[x] \subseteq failed[x]
        /\ \A x \in Block : x \notin below \cup Ancestors[b] => failed'[x] = failed[x]
    BY <1>0, <2>1 DEF TypeOK
  <2>3. /\ UNCHANGED <<header, data, scripts, seq, tip, bestHeader, counters, pc, abc, inv>>
        /\ cand' \subseteq data /\ pending' = TRUE /\ banned' \subseteq banned
        /\ calls' = calls \cup {"reset"} /\ Unlocked
    BY Zenon, <1>0, <1>1 DEF ResetBlockFailureFlags, Count, TypeOK
  <2>4. failedBlocks' \subseteq failedBlocks
    BY Zenon, <2>1
  <2>5. TypeOK'
    BY Zenon, <1>0, <2>2, <2>3, <2>4 DEF TypeOK, Calls
  <2>6. Structure' /\ Locals'
    BY Zenon, <1>0, <2>2, <2>3 DEF Structure, Locals
  <2>7. Flags'
    <3>1. \A x \in Block : \A a \in Ancestors[x] : a \in Block
      BY AncestorsType
    <3>2. /\ tip \in Block /\ (mostWork # NoBlock => mostWork \in Block)
          /\ (pc \in {"choose", "step"} => starting \in Block) /\ failedBlocks \subseteq Block
      BY <1>0 DEF TypeOK, Locals
    <3>3. ASSUME NEW x \in failedBlocks' PROVE "VALID" \in failed'[x]
      <4>1. x \in failedBlocks /\ x \in Block /\ "VALID" \in failed[x]
        BY <1>0, <2>4, <3>2, <3>3 DEF Flags, FailedBlocksMarked
      <4>2. x \notin below \cup Ancestors[b]
        BY <2>1, <3>3, <4>1 DEF Forgiven
      <4> QED
        BY <2>2, <4>1, <4>2
    <3>4. \A x \in Block : (\A a \in Ancestors[x] : failed[a] = {})
                             => \A a \in Ancestors[x] : failed'[a] = {}
      BY <2>2, <3>1
    <3> QED
      BY Zenon, <1>0, <2>3, <3>2, <3>3, <3>4 DEF Flags, Clean, FailedBlocksMarked
  <2> QED
    BY <2>5, <2>6, <2>7 DEF Core
<1>2. ASSUME NEW b \in header, PreciousBlock(b) PROVE Core'
  <2> DEFINE rev == IF ChainTrust[tip] > lastPrecious THEN -1 ELSE revSeq
  <2>1. rev \in Int /\ rev - 1 \in Int /\ ChainTrust[tip] \in Nat
    BY <1>0, TrustAssumption DEF TypeOK, TrustAssumption
  <2>2. /\ seq' = [seq EXCEPT ![b] = rev] /\ revSeq' = rev - 1 /\ lastPrecious' = ChainTrust[tip]
        /\ cand' \subseteq cand \cup {b} /\ (b \in cand' => b \in data)
        /\ pending' = TRUE /\ calls' = calls \cup {"precious"}
        /\ UNCHANGED <<header, data, scripts, failed, failedBlocks, tip, bestHeader, nextSeq, pc,
                       abc, inv, banned>>
    BY Zenon, <1>0, <1>2 DEF PreciousBlock, Count, Prune, Linked, TypeOK
  <2> HIDE DEF rev
  <2>3. seq' \in [Block -> Int]
    BY Zenon, <1>0, <2>1, <2>2 DEF TypeOK
  <2>4. TypeOK'
    BY <1>0, <2>1, <2>2, <2>3 DEF TypeOK, Calls
  <2>5. Structure' /\ Locals' /\ Flags'
    BY Zenon, <1>0, <2>2 DEF Structure, Locals, Flags, Clean, FailedBlocksMarked
  <2> QED
    BY <2>4, <2>5 DEF Core
<1>3. CASE Restart
  <2> DEFINE marked == [x \in Block |-> IF failed[x] = {} /\ \E a \in Ancestors[x] : failed[a] # {}
                                        THEN {"CHILD"} ELSE failed[x]]
             zero == [x \in Block |-> 0]
             valid == {x \in header : marked[x] = {}}
  <2>1. /\ failed' = [x \in Block |-> IF x \in header THEN marked[x] ELSE failed[x]]
        /\ seq' = zero /\ nextSeq' = 1 /\ revSeq' = -1 /\ lastPrecious' = 0
        /\ failedBlocks' = {} /\ cand' \subseteq data
        /\ bestHeader' = CHOOSE x \in valid : \A y \in valid : ~WorseBy(zero, x, y)
        /\ pending' = TRUE /\ calls' = calls \cup {"restart"} /\ pc = "idle"
        /\ UNCHANGED <<header, data, scripts, tip, pc, abc, inv, banned>>
    BY Zenon, <1>3 DEF Restart, Count, Prune
  <2>2. \A x \in Ancestors[tip] : x \in Block /\ failed[x] = {} /\ marked[x] = {}
    BY Zenon, <1>0, AncestorsType, AncestorsTransitive DEF Flags, Clean
  <2>3. tip \in valid /\ valid \in SUBSET Block /\ valid \in SUBSET header
    BY Zenon, <1>0, <2>2, AncestorsType
  <2>4. IsFiniteSet(valid)
    BY Zenon, <1>0, <2>3, FS_Subset DEF Structure
  <2>5. zero \in [Block -> Int]
    OBVIOUS
  <2>6. /\ failed' \in [Block -> SUBSET {"VALID", "CHILD"}]
        /\ \A x \in Ancestors[tip] : failed'[x] = {}
        /\ \A x \in Block : failed'[x] # {} => x \in header
    BY Zenon, <1>0, <2>1, <2>2 DEF TypeOK, Structure
  <2> HIDE DEF marked, zero, valid
  <2>7. bestHeader' \in header
    <3>1. \E x \in valid : \A y \in valid : ~WorseBy(zero, x, y)
      BY <2>3, <2>4, <2>5, BestExists
    <3> QED
      BY Zenon, <2>1, <2>3, <3>1
  <2>8. TypeOK'
    <3>1. /\ seq' \in [Block -> Int] /\ nextSeq' = 1 /\ revSeq' = -1 /\ lastPrecious' = 0
          /\ failedBlocks' = {} /\ cand' \subseteq data /\ pending' = TRUE
          /\ calls' = calls \cup {"restart"}
          /\ UNCHANGED <<header, data, scripts, tip, pc, abc, inv, banned>>
      BY Zenon, <2>1, <2>5
    <3> QED
      BY <1>0, <2>6, <2>7, <3>1 DEF TypeOK, Calls
  <2>9. Structure' /\ Locals' /\ Flags'
    BY Zenon, <1>0, <2>1, <2>6 DEF Structure, Locals, Flags, Clean, FailedBlocksMarked
  <2> QED
    BY <2>8, <2>9 DEF Core
<1> QED
  BY <1>1, <1>2, <1>3

LEMMA CoreInvariant == Spec => []Core
<1>1. ASSUME Core, [Next]_vars PROVE Core'
  <2>1. CASE Next
    <3>1. CASE \E b \in Block \ {Genesis} : \/ AcceptBlockHeader(b) \/ RejectBlockHeader(b)
                                           \/ KnownOrUnwanted(b) \/ AcceptBlock(b)
      BY <1>1, <3>1, CoreArrivals
    <3>2. CASE \/ ABCStart \/ ABCLock \/ DropFailedCandidate \/ Choose
               \/ DisconnectTip \/ ConnectTipFails \/ ConnectTip
      BY <1>1, <3>2, CoreActivate
    <3>3. CASE \/ \E b \in header \ {Genesis} : InvalidateStart(b)
               \/ InvalidateDisconnect \/ InvalidateFinish
      BY <1>1, <3>3, CoreInvalidate
    <3>4. CASE \/ \E b \in header : ResetBlockFailureFlags(b) \/ PreciousBlock(b)
               \/ Restart
      BY <1>1, <3>4, CoreCalls
    <3> QED
      BY <2>1, <3>1, <3>2, <3>3, <3>4 DEF Next
  <2>2. CASE UNCHANGED vars
    BY Zenon, <1>1, <2>2 DEF vars, tree, counters, abc, inv, Core, TypeOK, Structure, Locals, Flags,
                      Clean, FailedBlocksMarked
  <2> QED
    BY <1>1, <2>1, <2>2
<1> QED
  BY <1>1, CoreInit, PTL DEF Spec

(* ActivateBestChain, InvalidateBlock, ResetBlockFailureFlags, AcceptBlock and a
   restart keep the active chain free of failure flags and script-valid, in
   any order and whatever else arrives in between. *)
THEOREM ActiveChainValid == Spec => []ChainNotFailed
<1>1. Core => ChainNotFailed
  BY Zenon, Closed DEF ChainNotFailed, Core, Flags, Clean, Structure, Chain
<1> QED
  BY <1>1, CoreInvariant, PTL

(* What m_failed_blocks holds is marked BLOCK_FAILED_VALID: the assertion of
   AcceptBlockHeader never fails, though ResetBlockFailureFlags, which clears
   flags, runs while InvalidateBlock is under way. *)
THEOREM FailedListMarked == Spec => []FailedBlocksMarked
<1>1. Core => FailedBlocksMarked
  BY DEF Core, Flags
<1> QED
  BY <1>1, CoreInvariant, PTL
-----------------------------------------------------------------------------
(* Who is to blame for a failure flag. *)

Guilty(b) == b \in banned \/ Ancestors[b] \cap (BadContext \cup BadConnect) # {}

Guilt ==
  /\ \A b \in Block : failed[b] # {} => Guilty(b)
  /\ \A b \in Block : \A a \in Ancestors[b] : a \in banned => b \in banned
  /\ pc = "inv" => target \in banned

LEMMA GuiltyAbove ==
  ASSUME Guilt, NEW b \in Block, NEW a \in Ancestors[b], Guilty(a)
  PROVE  Guilty(b)
BY Zenon, AncestorsTransitive DEF Guilt, Guilty

\* What the actions do to the flags.  A block is flagged after a step because a
\* check refused it, because InvalidateBlock marks it, or because it builds on
\* a flagged one; only ResetBlockFailureFlags takes a flag away.
LEMMA FlagsChange ==
  ASSUME Core, Next
  PROVE  /\ \A b \in Block : failed'[b] # {} =>
              \/ \E f \in Ancestors[b] : failed[f] # {}
              \/ /\ "VALID" \in failed'[b]
                 /\ b \in BadContext \cup BadConnect \/ (pc = "inv" /\ target \in Ancestors[b])
         /\ "reset" \notin calls' => \A b \in Block : failed[b] \subseteq failed'[b]
<1> DEFINE Caused(b) ==
             \/ \E f \in Ancestors[b] : failed[f] # {}
             \/ /\ "VALID" \in failed'[b]
                /\ b \in BadContext \cup BadConnect \/ (pc = "inv" /\ target \in Ancestors[b])
           Goal == /\ \A b \in Block : failed'[b] # {} => Caused(b)
                   /\ "reset" \notin calls' => \A b \in Block : failed[b] \subseteq failed'[b]
<1> SUFFICES Goal
  OBVIOUS
<1>0. /\ TypeOK /\ Structure /\ Locals /\ Flags /\ \A b \in Block : b \in Ancestors[b]
      /\ tip \in data /\ data \subseteq header /\ header \subseteq Block
      /\ failed \in [Block -> SUBSET {"VALID", "CHILD"}]
  BY AncestorsType DEF Core, TypeOK
<1>1. CASE UNCHANGED failed
  BY <1>0, <1>1
<1>2. ASSUME NEW b \in Block \ {Genesis}, RejectBlockHeader(b) PROVE Goal
  <2>1. PICK f \in Culprits(b) :
          failed' = [x \in Block |-> IF x \in Ancestors[Parent[b]] \ Ancestors[f]
                                     THEN failed[x] \cup {"CHILD"} ELSE failed[x]]
    BY Zenon, <1>2 DEF RejectBlockHeader
  <2>2. f \in Ancestors[Parent[b]] /\ failed[f] # {} /\ Parent[b] \in Block
    BY <1>0, <2>1, ParentInBlock DEF Culprits, Flags, FailedBlocksMarked
  <2>3. \A x \in Ancestors[Parent[b]] \ Ancestors[f] : f \in Ancestors[x]
    BY <2>2, AboveFailed
  <2> QED
    BY <1>0, <2>1, <2>2, <2>3
<1>3. ASSUME NEW b \in Block \ {Genesis}, AcceptBlock(b) PROVE Goal
  <2>1. /\ \A x \in Block : x # b => failed'[x] = failed[x]
        /\ failed[b] \subseteq failed'[b]
        /\ UNCHANGED failed \/ (b \in BadContext /\ "VALID" \in failed'[b])
    BY <1>0, <1>3 DEF AcceptBlock
  <2>2. \A x \in Block : failed[x] # {} \/ (x \in BadContext /\ "VALID" \in failed'[x]) => Caused(x)
    BY <1>0
  <2> HIDE DEF Caused
  <2> QED
    BY <2>1, <2>2
<1>4. CASE DropFailedCandidate
  <2> DEFINE test == CHOOSE x \in FailedOnPath(Best) : \A y \in FailedOnPath(Best) : Descends(x, y)
  <2>1. Best \in Block
    BY <1>0, BestIs
  <2>2. test \in FailedOnPath(Best)
    BY <1>4, <2>1, NearestFailed DEF DropFailedCandidate
  <2>3. test \in Ancestors[Best] /\ failed[test] # {}
    BY Zenon, <2>2 DEF FailedOnPath
  <2>4. failed' = [x \in Block |-> IF x \in Ancestors[Best] \ Ancestors[test]
                                   THEN failed[x] \cup {"CHILD"} ELSE failed[x]]
    BY <1>4 DEF DropFailedCandidate
  <2> HIDE DEF test
  <2>5. \A x \in Ancestors[Best] \ Ancestors[test] : test \in Ancestors[x]
    BY <2>1, <2>3, AboveFailed
  <2> QED
    BY <1>0, <2>3, <2>4, <2>5
<1>5. CASE ConnectTipFails
  <2> DEFINE n == NextBlock
  <2>1. n \in BadConnect /\ failed' = [failed EXCEPT ![n] = @ \cup {"VALID"}]
    BY <1>5 DEF ConnectTipFails
  <2> HIDE DEF n
  <2>2. /\ \A x \in Block : x # n => failed'[x] = failed[x]
        /\ \A x \in Block : failed[x] \subseteq failed'[x]
        /\ n \in Block => "VALID" \in failed'[n]
    BY <1>0, <2>1
  <2>3. \A x \in Block : failed[x] # {} \/ (x \in BadConnect /\ "VALID" \in failed'[x]) => Caused(x)
    BY <1>0
  <2> HIDE DEF Caused
  <2> QED
    BY <2>1, <2>2, <2>3
<1>6. CASE InvalidateDisconnect
  <2>1. pc = "inv" /\ target \in Ancestors[tip] /\ target \in Block \ {Genesis} /\ tip \in Block
    BY <1>0, <1>6 DEF InvalidateDisconnect, Locals, Chain
  <2>2. tip # Genesis
    BY <2>1, AncestorsStep
  <2>3. failed[Parent[tip]] = {}
    BY <1>0, <2>1, <2>2, NotBelowParent DEF Flags, Clean
  <2>4. failed' = [failed EXCEPT ![tip] = failed[tip] \cup {"VALID"}]
    BY Zenon, <1>0, <1>6, <2>3 DEF InvalidateDisconnect
  <2> QED
    BY <1>0, <2>1, <2>4
<1>7. CASE InvalidateFinish
  <2>1. pc = "inv" /\ target \in Ancestors[mark] /\ mark \in Block
    BY <1>0, <1>7 DEF InvalidateFinish, Locals, Descends
  <2> QED
    BY Zenon, <1>0, <1>7, <2>1 DEF InvalidateFinish
<1>8. ASSUME NEW b \in header, ResetBlockFailureFlags(b) PROVE Goal
  <2>1. "reset" \in calls'
    BY Zenon, <1>8 DEF ResetBlockFailureFlags, Count
  <2>2. \A x \in Block : failed'[x] \subseteq failed[x]
    BY Zenon, <1>8 DEF ResetBlockFailureFlags
  <2> QED
    BY <1>0, <2>1, <2>2
<1>9. CASE Restart
  BY <1>0, <1>9 DEF Restart
<1>10. ASSUME NEW b \in Block, AcceptBlockHeader(b) \/ KnownOrUnwanted(b) PROVE UNCHANGED failed
  BY <1>10 DEF AcceptBlockHeader, KnownOrUnwanted
<1>11. ABCStart \/ ABCLock \/ Choose \/ DisconnectTip \/ ConnectTip => UNCHANGED failed
  BY Zenon DEF ABCStart, ABCLock, Choose, DisconnectTip, ConnectTip, tree
<1>12. ASSUME NEW b \in header, InvalidateStart(b) \/ PreciousBlock(b) PROVE UNCHANGED failed
  BY Zenon, <1>12 DEF InvalidateStart, PreciousBlock, tree
<1> HIDE DEF Goal
<1> QED
  BY <1>1, <1>2, <1>3, <1>4, <1>5, <1>6, <1>7, <1>8, <1>9, <1>10, <1>11, <1>12, Zenon DEF Next

LEMMA GuiltStep == ASSUME Core, Guilt, Next PROVE Guilt'
<1>0. /\ TypeOK /\ Locals /\ \A b \in Block : b \in Ancestors[b] /\ Ancestors[b] \subseteq Block
      /\ header \subseteq Block /\ NoBlock \notin Block
  BY AncestorsType, TreeAssumption DEF Core, TypeOK, TreeAssumption
<1>1. ASSUME NEW b \in header, ResetBlockFailureFlags(b) PROVE Guilt'
  <2>1. /\ \A x \in banned : target # NoBlock /\ target \in Ancestors[x] => x \in banned'
        /\ \A x \in banned : b \notin Ancestors[x] /\ x \notin Ancestors[b] => x \in banned'
        /\ \A x \in banned' : /\ x \in banned
                              /\ \/ target # NoBlock /\ target \in Ancestors[x]
                                 \/ b \notin Ancestors[x] /\ x \notin Ancestors[b]
    BY Zenon, <1>1 DEF ResetBlockFailureFlags, Descends
  <2>2. ASSUME NEW x \in Block, failed'[x] # {} PROVE Guilty(x)'
    <3>1. failed[x] # {} /\ x \notin Ancestors[b] /\ b \notin Ancestors[x]
      <4>1. failed[x] # {} /\ x \notin Ancestors[b] /\ ~(x \in header /\ Descends(x, b) /\ ~Linked(x))
        BY Zenon, <1>1, <2>2 DEF ResetBlockFailureFlags
      <4>2. x \in header /\ ~Linked(x)
        BY Zenon, <4>1 DEF Linked, Core, Structure
      <4> QED
        BY <4>1, <4>2 DEF Descends
    <3>2. Guilty(x)
      BY Zenon, <3>1 DEF Guilt
    <3> QED
      BY <2>1, <3>1, <3>2 DEF Guilty
  <2>3. ASSUME NEW x \in Block, NEW a \in Ancestors[x], a \in banned' PROVE x \in banned'
    <3>1. a \in Block /\ x \in banned /\ Ancestors[a] \subseteq Ancestors[x]
      BY <1>0, <2>1, <2>3, AncestorsTransitive DEF Guilt
    <3>2. CASE target # NoBlock /\ target \in Ancestors[a]
      BY <2>1, <3>1, <3>2
    <3>3. CASE b \notin Ancestors[a] /\ a \notin Ancestors[b]
      <4>1. b \notin Ancestors[x]
        BY <1>0, <3>3, AncestorsLinear
      <4>2. x \notin Ancestors[b]
        BY <1>0, <3>3, AncestorsTransitive
      <4> QED
        BY <2>1, <3>1, <4>1, <4>2
    <3> QED
      BY <2>1, <2>3, <3>2, <3>3
  <2>4. pc' = "inv" => target' \in banned'
    BY Zenon, <1>0, <1>1, <2>1 DEF ResetBlockFailureFlags, inv, Guilt, Locals
  <2> QED
    BY <2>2, <2>3, <2>4 DEF Guilt
<1>2. ASSUME banned \subseteq banned',
             \A b \in Block : \A a \in Ancestors[b] : a \in banned' => b \in banned',
             pc' = "inv" => target' \in banned'
      PROVE  Guilt'
  <2>1. \A b \in Block : Guilty(b) => Guilty(b)'
    BY <1>2 DEF Guilty
  <2>2. ASSUME NEW b \in Block, failed'[b] # {} PROVE Guilty(b)
    <3>1. CASE \E f \in Ancestors[b] : failed[f] # {}
      BY <1>0, <3>1, GuiltyAbove DEF Guilt
    <3>2. CASE b \in BadContext \cup BadConnect
      BY <1>0, <3>2 DEF Guilty
    <3>3. CASE pc = "inv" /\ target \in Ancestors[b]
      BY <3>3 DEF Guilt, Guilty
    <3> QED
      BY <2>2, <3>1, <3>2, <3>3, FlagsChange
  <2> QED
    BY <1>2, <2>1, <2>2 DEF Guilt
<1>3. ASSUME NEW b \in header \ {Genesis}, InvalidateStart(b) PROVE Guilt'
  <2>1. banned' = banned \cup {x \in Block : b \in Ancestors[x]} /\ target' = b
    BY <1>3 DEF InvalidateStart, Descends
  <2>2. \A x \in Block : \A a \in Ancestors[x] : a \in banned' => x \in banned'
    BY <1>0, <2>1, AncestorsTransitive DEF Guilt
  <2> QED
    BY <1>0, <1>2, <2>1, <2>2
<1>4. ASSUME banned' = banned, pc' = "inv" => pc = "inv" /\ target' = target PROVE Guilt'
  BY Zenon, <1>2, <1>4 DEF Guilt
<1> USE DEF inv, abc, tree
<1>5. ASSUME NEW b \in Block,
             AcceptBlockHeader(b) \/ RejectBlockHeader(b) \/ KnownOrUnwanted(b) \/ AcceptBlock(b)
      PROVE  Guilt'
  BY Zenon, <1>4, <1>5 DEF AcceptBlockHeader, RejectBlockHeader, KnownOrUnwanted, AcceptBlock
<1>6. CASE ABCStart \/ ABCLock \/ DropFailedCandidate \/ Choose
  BY Zenon, <1>4, <1>6 DEF ABCStart, ABCLock, DropFailedCandidate, Choose, Return
<1>7. CASE DisconnectTip \/ ConnectTipFails \/ ConnectTip
  BY Zenon, <1>4, <1>7 DEF DisconnectTip, ConnectTipFails, ConnectTip, StepOver, Return
<1>8. CASE InvalidateDisconnect \/ InvalidateFinish
  BY Zenon, <1>4, <1>8 DEF InvalidateDisconnect, InvalidateFinish
<1>9. CASE Restart \/ \E b \in header : PreciousBlock(b)
  BY Zenon, <1>4, <1>9 DEF Restart, PreciousBlock
<1> QED
  BY <1>1, <1>3, <1>5, <1>6, <1>7, <1>8, <1>9, Zenon DEF Next

(* Only blocks that a check refused, that InvalidateBlock was asked for, or that
   build on one of those carry a failure flag, whatever DropFailedCandidate,
   RejectBlockHeader and a restart mark on the way. *)
THEOREM InnocentsUnflagged == Spec => []OnlyGuiltyFail
<1>1. Init => Guilt
  BY Zenon, TreeAssumption DEF Init, Guilt, TreeAssumption
<1>2. ASSUME Core, Guilt, [Next]_vars PROVE Guilt'
  <2>1. CASE UNCHANGED vars
    BY Zenon, <1>2, <2>1 DEF vars, tree, inv, Guilt, Guilty
  <2> QED
    BY <1>2, <2>1, GuiltStep
<1>3. Core /\ Guilt => OnlyGuiltyFail
  BY DEF Core, TypeOK, Guilt, Guilty, OnlyGuiltyFail
<1> QED
  BY <1>1, <1>2, <1>3, CoreInvariant, PTL DEF Spec
-----------------------------------------------------------------------------
(* Every flag has a BLOCK_FAILED_VALID entry at or below it. *)

Cause ==
  "reset" \notin calls =>
    \A b \in Block : failed[b] # {} => \E a \in Ancestors[b] : "VALID" \in failed[a]

LEMMA CallsGrow == ASSUME Next PROVE calls \subseteq calls'
<1> USE DEF Count
<1>1. ASSUME NEW b \in Block,
             AcceptBlockHeader(b) \/ RejectBlockHeader(b) \/ KnownOrUnwanted(b) \/ AcceptBlock(b)
      PROVE  calls \subseteq calls'
  BY Zenon, <1>1 DEF AcceptBlockHeader, RejectBlockHeader, KnownOrUnwanted, AcceptBlock
<1>2. CASE ABCStart \/ ABCLock \/ DropFailedCandidate \/ Choose
  BY Zenon, <1>2 DEF ABCStart, ABCLock, DropFailedCandidate, Choose
<1>3. CASE DisconnectTip \/ ConnectTipFails \/ ConnectTip
  BY Zenon, <1>3 DEF DisconnectTip, ConnectTipFails, ConnectTip
<1>4. CASE InvalidateDisconnect \/ InvalidateFinish \/ Restart
  BY Zenon, <1>4 DEF InvalidateDisconnect, InvalidateFinish, Restart
<1>5. ASSUME NEW b \in header,
             InvalidateStart(b) \/ ResetBlockFailureFlags(b) \/ PreciousBlock(b)
      PROVE  calls \subseteq calls'
  BY Zenon, <1>5 DEF InvalidateStart, ResetBlockFailureFlags, PreciousBlock
<1> QED
  BY <1>1, <1>2, <1>3, <1>4, <1>5, Zenon DEF Next

LEMMA CauseStep == ASSUME Core, Cause, Next PROVE Cause'
<1> SUFFICES ASSUME "reset" \notin calls', NEW b \in Block, failed'[b] # {}
             PROVE  \E a \in Ancestors[b] : "VALID" \in failed'[a]
  BY Zenon DEF Cause
<1>1. /\ "reset" \notin calls /\ b \in Ancestors[b]
      /\ \A x \in Block : failed[x] \subseteq failed'[x]
      /\ \A x \in Block : Ancestors[x] \subseteq Block
  BY CallsGrow, FlagsChange, AncestorsType
<1>2. CASE \E f \in Ancestors[b] : failed[f] # {}
  <2>1. PICK f \in Ancestors[b] : failed[f] # {}
    BY <1>2
  <2>2. PICK a \in Ancestors[f] : "VALID" \in failed[a]
    BY <1>1, <2>1 DEF Cause
  <2> QED
    BY <1>1, <2>1, <2>2, AncestorsTransitive
<1>3. CASE "VALID" \in failed'[b]
  BY <1>1, <1>3
<1> QED
  BY Zenon, <1>2, <1>3, FlagsChange

LEMMA CauseInvariant == Spec => []Cause
<1>1. Init => Cause
  BY DEF Init, Cause
<1>2. ASSUME Core, Cause, [Next]_vars PROVE Cause'
  <2>1. CASE UNCHANGED vars
    BY <1>2, <2>1 DEF vars, tree, Cause
  <2> QED
    BY <1>2, <2>1, CauseStep
<1> QED
  BY <1>1, <1>2, CoreInvariant, PTL DEF Spec

(* What CheckBlockIndex asserts of the failure flags holds until the first
   reconsiderblock: a flagged entry has a BLOCK_FAILED_VALID one at or below it. *)
THEOREM FlagsHaveCause == Spec => []FailureHasCause
<1>1. Core /\ Cause => FailureHasCause
  BY DEF Core, TypeOK, Cause, FailureHasCause
<1> QED
  BY <1>1, CoreInvariant, CauseInvariant, PTL
-----------------------------------------------------------------------------
(* The candidates and the choice of the chain to work towards. *)

\* Nothing worse than the tip is a candidate.  Until the first reconsiderblock a
\* clean block with data that is as good as the tip is one; while
\* ActivateBestChain has the lock, if it is as good as the tip it started from.
Cands ==
  /\ \A b \in cand : ~Worse(b, tip)
  /\ "reset" \notin calls =>
       /\ pc \in {"idle", "abc"} => \A b \in data : Clean(b) /\ ~Worse(b, tip) => b \in cand
       /\ pc \in {"choose", "step"} =>
            \A b \in data : Clean(b) /\ ~Worse(b, tip) /\ ~Worse(b, starting) => b \in cand
       /\ pc = "inv" => tip \in cand

\* ActivateBestChain does not aim lower than where it started, and is below that
\* only on its way.
Aim ==
  /\ pc = "choose" => ~Worse(starting, tip)
  /\ pc = "step" /\ tip \notin Ancestors[mostWork] => ~Worse(starting, tip)
  /\ pc = "abc" /\ mostWork # NoBlock => tip \in Ancestors[mostWork]
  /\ "reset" \notin calls /\ pc \in {"choose", "step"} /\ mostWork # NoBlock =>
       ~Worse(mostWork, starting)

\* PreciousBlock's numbers are below all others.
Seqs == "precious" \notin calls => revSeq = -1 /\ \A b \in Block : seq[b] >= 0

Choice == Cands /\ Aim /\ Seqs

\* The order, on the sequence numbers of the state.
LEMMA Order ==
  ASSUME Core
  PROVE  /\ \A a \in Block : ~Worse(a, a)
         /\ \A a, b \in Block : Worse(a, b) => ~Worse(b, a)
         /\ \A a, b, c \in Block : ~Worse(a, b) /\ ~Worse(b, c) => ~Worse(a, c)
         /\ \A b \in Block : \A a \in Ancestors[b] : ~Worse(b, a)
BY WorseOrder, AncestorWorse DEF Core, TypeOK, Worse

\* The tip ActivateBestChain started from stays a candidate until it is beaten.
LEMMA StartingIsCandidate ==
  ASSUME Core, Choice, "reset" \notin calls, pc = "choose"
  PROVE  starting \in cand
BY Zenon, Order DEF Core, TypeOK, Locals, Flags, Choice, Cands, Aim

LEMMA ChoiceArrivals ==
  ASSUME Core, Choice, Next, NEW b \in Block \ {Genesis},
         AcceptBlockHeader(b) \/ RejectBlockHeader(b) \/ KnownOrUnwanted(b) \/ AcceptBlock(b)
  PROVE  Choice'
<1> USE DEF abc, counters
<1>0. /\ TypeOK /\ Locals /\ Cands /\ Aim /\ Seqs
      /\ \A x \in Block : Ancestors[x] \subseteq Block
      /\ data \subseteq Block /\ tip \in data /\ cand \subseteq data
  BY Zenon, AncestorsType DEF Core, TypeOK, Choice
<1>1. CASE AcceptBlockHeader(b) \/ RejectBlockHeader(b) \/ KnownOrUnwanted(b)
  <2>1. UNCHANGED <<data, seq, cand, tip, revSeq, pc, abc, calls>>
    BY Zenon, <1>1 DEF AcceptBlockHeader, RejectBlockHeader, KnownOrUnwanted
  <2>2. "reset" \notin calls => \A x \in Block : Clean(x)' => Clean(x)
    BY Zenon, <1>0, <2>1, FlagsChange DEF Clean
  <2>3. Cands'
    BY Zenon, <1>0, <2>1, <2>2 DEF Cands, Worse
  <2>4. Aim' /\ Seqs'
    BY Zenon, <1>0, <2>1 DEF Aim, Seqs, Worse
  <2> QED
    BY <2>3, <2>4 DEF Choice
<1>2. CASE AcceptBlock(b)
  <2>1. /\ UNCHANGED <<tip, revSeq, pc, abc, calls>> /\ b \notin data /\ pc \notin {"choose", "step"}
        /\ \/ UNCHANGED <<data, seq, cand>>
           \/ /\ data' = data \cup {b} /\ seq' = [seq EXCEPT ![b] = nextSeq]
              /\ cand' = IF WorseBy(seq', b, tip) THEN cand ELSE cand \cup {b}
    BY Zenon, <1>2 DEF AcceptBlock, Unlocked
  <2>2. "reset" \notin calls => \A x \in Block : Clean(x)' => Clean(x)
    BY Zenon, <1>0, <2>1, FlagsChange DEF Clean
  <2>3. \A x \in data : WorseBy(seq', x, tip) <=> WorseBy(seq, x, tip)
    <3>1. \A x \in data : x # b /\ seq'[x] = seq[x]
      BY Zenon, <1>0, <2>1 DEF TypeOK
    <3> QED
      BY Zenon, <1>0, <3>1, WorseSame
  <2>4. /\ \A x \in cand' : x \in data \/ (x = b /\ ~WorseBy(seq', b, tip))
        /\ cand \subseteq cand' /\ (b \in data' => WorseBy(seq', b, tip) \/ b \in cand')
        /\ \A x \in data' : x \in data \/ x = b
        /\ \A x \in cand' : x \in data => x \in cand
    BY Zenon, <1>0, <2>1
  <2>5. Cands'
    BY Zenon, <1>0, <2>1, <2>2, <2>3, <2>4 DEF Cands, Worse
  <2>6. Aim'
    BY Zenon, <1>0, <2>1 DEF Aim
  <2>7. Seqs'
    <3>1. seq \in [Block -> Int] /\ nextSeq \in Nat
      BY Zenon, <1>0 DEF TypeOK
    <3>2. (\A x \in Block : seq[x] >= 0) => \A x \in Block : seq'[x] >= 0
      BY <2>1, <3>1
    <3> QED
      BY Zenon, <1>0, <2>1, <3>2 DEF Seqs
  <2> QED
    BY <2>5, <2>6, <2>7 DEF Choice
<1> QED
  BY <1>1, <1>2

LEMMA ChoiceActivate ==
  ASSUME Core, Choice, Next,
         \/ ABCStart \/ ABCLock \/ DropFailedCandidate \/ Choose
         \/ DisconnectTip \/ ConnectTipFails \/ ConnectTip
  PROVE  /\ Choice'
         /\ ~Unlocked /\ Unlocked' /\ "reset" \notin calls => ~Worse(tip', starting)
<1> USE DEF counters, abc, tree
<1> DEFINE Ascends == ~Unlocked /\ Unlocked' /\ "reset" \notin calls => ~Worse(tip', starting)
<1>0. /\ TypeOK /\ Locals /\ Flags /\ Cands /\ Aim /\ Seqs
      /\ \A x \in Block : x \in Ancestors[x] /\ Ancestors[x] \subseteq Block
      /\ data \subseteq Block /\ tip \in data /\ cand \subseteq data /\ NoBlock \notin Block
      /\ (pc \in {"choose", "step"} => starting \in data)
  BY Zenon, AncestorsType, TreeAssumption DEF Core, TypeOK, Choice, TreeAssumption, Locals
<1>W. /\ \A a \in Block : ~Worse(a, a)
      /\ \A a, b \in Block : Worse(a, b) => ~Worse(b, a)
      /\ \A a, b, c \in Block : ~Worse(a, b) /\ ~Worse(b, c) => ~Worse(a, c)
      /\ \A b \in Block : \A a \in Ancestors[b] : ~Worse(b, a)
  BY Order
<1>S. UNCHANGED <<seq, revSeq, data, calls>>
  BY Zenon DEF ABCStart, ABCLock, DropFailedCandidate, Choose, DisconnectTip, ConnectTipFails, ConnectTip
<1>V. Seqs' /\ \A a, b : Worse(a, b)' <=> Worse(a, b)
  BY <1>0, <1>S DEF Seqs, Worse
<1>C. "reset" \notin calls => \A x \in Block : Clean(x)' => Clean(x)
  BY <1>0, <1>S, FlagsChange DEF Clean
<1>1. CASE ABCStart
  <2>1. pc = "idle" /\ pc' = "abc" /\ UNCHANGED <<tree, abc>> /\ mostWork = NoBlock
    BY Zenon, <1>0, <1>1 DEF ABCStart, Locals
  <2> QED
    BY Zenon, <1>0, <1>S, <1>V, <2>1 DEF Choice, Cands, Aim, Clean, Worse, Unlocked
<1>2. CASE ABCLock
  <2>1. pc = "abc" /\ pc' = "choose" /\ starting' = tip /\ UNCHANGED <<tree, mostWork>>
    BY <1>2 DEF ABCLock
  <2>2. mostWork # NoBlock => mostWork \in Block /\ tip \in Ancestors[mostWork]
    BY Zenon, <1>0, <2>1 DEF Locals, Aim
  <2>3. Cands'
    BY Zenon, <1>0, <1>S, <2>1 DEF Cands, Clean, Worse
  <2>4. Aim'
    BY Zenon, <1>0, <1>W, <1>S, <2>1, <2>2 DEF Aim, Worse
  <2> QED
    BY <1>V, <2>1, <2>3, <2>4 DEF Choice, Unlocked
<1>3. CASE DropFailedCandidate
  <2> DEFINE test  == CHOOSE x \in FailedOnPath(Best) : \A y \in FailedOnPath(Best) : Descends(x, y)
             gone == (Ancestors[Best] \ Ancestors[test]) \cup {test}
  <2>1. Best \in Block
    BY <1>0, BestIs
  <2>2. test \in FailedOnPath(Best)
    BY Zenon, <1>3, <2>1, NearestFailed DEF DropFailedCandidate
  <2>3. test \in Ancestors[Best] /\ failed[test] # {}
    BY Zenon, <2>2 DEF FailedOnPath
  <2>4. cand' = cand \ gone /\ \A x \in gone : x \in Block => failed'[x] # {}
    BY Zenon, <1>0, <1>3, <2>3 DEF DropFailedCandidate
  <2>5. UNCHANGED <<tip, pc, abc>> /\ pc = "choose"
    BY Zenon, <1>3 DEF DropFailedCandidate
  <2> HIDE DEF gone
  <2>6. \A x \in data : Clean(x)' => x \notin gone
    BY <1>0, <2>4 DEF Clean
  <2>7. Cands'
    BY Zenon, <1>0, <1>S, <1>C, <2>4, <2>5, <2>6 DEF Cands, Worse
  <2>8. Aim'
    BY <1>0, <1>S, <2>5 DEF Aim, Worse
  <2> QED
    BY <1>V, <2>5, <2>7, <2>8 DEF Choice, Unlocked
<1>4. CASE Choose
  <2> DEFINE m == IF mostWork = NoBlock THEN Best ELSE mostWork
  <2>1. /\ pc = "choose" /\ UNCHANGED tree
        /\ \/ m = tip /\ pc' = "idle" /\ mostWork' = NoBlock
           \/ m # tip /\ pc' = "step" /\ mostWork' = m /\ starting' = starting
    BY <1>4 DEF Choose, Return
  <2>2. "reset" \notin calls => ~Worse(m, starting)
    <3>1. CASE mostWork = NoBlock
      BY <2>1, <3>1, BestIs, StartingIsCandidate
    <3>2. CASE mostWork # NoBlock
      BY Zenon, <1>0, <2>1, <3>2 DEF Aim
    <3> QED
      BY <3>1, <3>2
  <2> HIDE DEF m
  <2>3. CASE m = tip
    <3>1. "reset" \notin calls => \A b \in data : ~Worse(b, tip) => ~Worse(b, starting)
      BY Zenon, <1>0, <1>W, <2>1, <2>2, <2>3
    <3>2. Cands'
      BY Zenon, <1>0, <1>S, <2>1, <2>3, <3>1 DEF Cands, Clean, Worse
    <3>3. Aim'
      BY <2>1, <2>3 DEF Aim
    <3> QED
      BY <1>V, <2>1, <2>2, <2>3, <3>2, <3>3 DEF Choice
  <2>4. CASE m # tip
    <3>1. Cands'
      BY Zenon, <1>0, <1>S, <2>1, <2>4 DEF Cands, Clean, Worse
    <3>2. Aim'
      BY <1>0, <1>S, <2>1, <2>2, <2>4 DEF Aim, Worse
    <3> QED
      BY <1>V, <2>1, <2>4, <3>1, <3>2 DEF Choice, Unlocked
  <2> QED
    BY <2>3, <2>4
<1>5. CASE DisconnectTip
  <2>1. /\ pc = "step" /\ UNCHANGED <<failed, cand, pc, abc>> /\ tip' = Parent[tip]
        /\ tip \notin Ancestors[mostWork] /\ mostWork \in Block
    BY Zenon, <1>0, <1>5 DEF DisconnectTip, Locals
  <2>2. /\ tip \in Block \ {Genesis} /\ Parent[tip] \in Block
        /\ ~Worse(tip, Parent[tip]) /\ ~Worse(starting, tip)
    BY Zenon, <1>0, <1>W, <2>1, AncestorsType, NotBelowParent, ParentInBlock DEF Aim
  <2>3. /\ ~Worse(starting, Parent[tip])
        /\ \A b \in data : ~Worse(b, tip) => ~Worse(b, Parent[tip])
        /\ \A b \in data : ~Worse(b, starting) => ~Worse(b, tip)
    BY Zenon, <1>0, <1>W, <2>1, <2>2
  <2>4. Cands'
    BY Zenon, <1>0, <1>S, <2>1, <2>3 DEF Cands, Clean, Worse
  <2>5. Aim'
    BY Zenon, <1>0, <1>S, <2>1, <2>3 DEF Aim, Worse
  <2> QED
    BY <1>V, <2>1, <2>4, <2>5 DEF Choice, Unlocked
<1>6. CASE ConnectTipFails
  <2> DEFINE n == NextBlock
  <2>1. /\ pc = "step" /\ cand' = cand \ {n} /\ UNCHANGED <<tip, starting>> /\ mostWork' = NoBlock
        /\ pc' = IF Worse(tip, starting) THEN "choose" ELSE "abc"
        /\ failed' = [failed EXCEPT ![n] = @ \cup {"VALID"}]
    BY Zenon, <1>0, <1>6 DEF ConnectTipFails, StepOver
  <2> HIDE DEF n
  <2>2. \A x \in data : Clean(x)' => x # n
    BY <1>0, <2>1 DEF TypeOK, Clean
  <2>3. \A b \in data : ~Worse(tip, starting) /\ ~Worse(b, tip) => ~Worse(b, starting)
    BY <1>0, <1>W, <2>1
  <2>4. Cands'
    BY Zenon, <1>0, <1>S, <1>C, <2>1, <2>2, <2>3 DEF Cands, Worse
  <2>5. Aim'
    BY Zenon, <1>0, <1>W, <1>S, <2>1 DEF Aim, Worse
  <2> QED
    BY <1>V, <2>1, <2>4, <2>5 DEF Choice, Unlocked
<1>7. CASE ConnectTip
  <2>1. mostWork \in data /\ pc = "step" /\ tip \in Ancestors[mostWork] \ {mostWork}
    BY Zenon, <1>0, <1>7 DEF ConnectTip, Locals
  <2> DEFINE n == NextBlock
  <2>2. n \in Ancestors[mostWork] /\ n \in Block \ {Genesis} /\ Parent[n] = tip
    BY <1>0, <2>1, NextBlockIs
  <2>3. /\ tip' = n /\ cand' = {b \in cand : ~Worse(b, n)} /\ UNCHANGED failed
        /\ \/ ~Worse(n, starting) /\ pc' = "idle" /\ mostWork' = NoBlock
           \/ Worse(n, starting) /\ pc' = "choose" /\ UNCHANGED abc
           \/ ~Worse(n, starting) /\ pc' = "abc" /\ UNCHANGED abc
           \/ pc' = "step" /\ UNCHANGED abc
    BY Zenon, <1>7, <2>1 DEF ConnectTip, StepOver, Return, Prune, Worse
  <2> HIDE DEF n
  <2>4. \A b \in data : ~Worse(b, n) => ~Worse(b, tip)
    BY <1>0, <1>W, <2>2, NotBelowParent
  <2>5. \A b \in data : ~Worse(n, starting) /\ ~Worse(b, n) => ~Worse(b, starting)
    BY <1>0, <1>W, <2>1, <2>2
  <2>6. Cands'
    BY Zenon, <1>0, <1>S, <2>1, <2>3, <2>4, <2>5 DEF Cands, Clean, Worse
  <2>7. Aim'
    BY Zenon, <1>0, <1>W, <1>S, <2>1, <2>2, <2>3 DEF Aim, Worse
  <2>8. Ascends
    BY <2>3 DEF Unlocked
  <2> QED
    BY <1>V, <2>6, <2>7, <2>8 DEF Choice
<1> QED
  BY <1>1, <1>2, <1>3, <1>4, <1>5, <1>6, <1>7

LEMMA ChoiceInvalidate ==
  ASSUME Core, Choice, Next,
         \/ \E b \in header \ {Genesis} : InvalidateStart(b)
         \/ InvalidateDisconnect \/ InvalidateFinish
  PROVE  Choice'
<1> USE DEF counters, abc, inv, tree
<1>0. /\ TypeOK /\ Locals /\ Flags /\ Cands /\ Aim /\ Seqs
      /\ \A x \in Block : x \in Ancestors[x]
      /\ data \subseteq Block /\ tip \in data /\ cand \subseteq data /\ byWork \subseteq data
  BY AncestorsType DEF Core, TypeOK, Choice
<1>W. /\ \A a \in Block : ~Worse(a, a)
      /\ \A a, b, c \in Block : ~Worse(a, b) /\ ~Worse(b, c) => ~Worse(a, c)
      /\ \A b \in Block : \A a \in Ancestors[b] : ~Worse(b, a)
  BY Order
<1>1. ASSUME NEW b \in header, InvalidateStart(b) PROVE Choice'
  <2>1. /\ pc = "idle" /\ pc' = "inv" /\ UNCHANGED <<tree, counters, abc>>
        /\ calls' = calls \cup {"invalidate"}
    BY <1>1 DEF InvalidateStart, Count
  <2>2. "reset" \notin calls => tip \in cand
    BY Zenon, <1>0, <1>W, <2>1 DEF Cands, Flags
  <2> QED
    BY Zenon, <1>0, <2>1, <2>2 DEF Choice, Cands, Aim, Seqs, Worse
<1>2. CASE InvalidateDisconnect
  <2>1. /\ pc = "inv" /\ tip' = Parent[tip] /\ UNCHANGED <<seq, revSeq, pc, calls>>
        /\ \A c \in cand' : \/ c \in cand \/ c = Parent[tip]
                            \/ c \in byWork /\ ~Worse(c, Parent[tip])
        /\ Parent[tip] \in cand'
    BY Zenon, <1>2 DEF InvalidateDisconnect
  <2>2. tip \in Block \ {Genesis}
    <3>1. target \in Ancestors[tip] /\ target # Genesis
      BY Zenon, <1>0, <1>2 DEF InvalidateDisconnect, Chain, Locals
    <3> QED
      BY <1>0, <3>1, AncestorsStep
  <2>3. Parent[tip] \in Block /\ ~Worse(tip, Parent[tip])
    BY Zenon, <1>0, <1>W, <2>2, NotBelowParent, ParentInBlock
  <2>4. \A c \in cand' : ~Worse(c, Parent[tip])
    BY Zenon, <1>0, <1>W, <2>1, <2>2, <2>3 DEF Cands
  <2> QED
    BY Zenon, <1>0, <2>1, <2>4 DEF Choice, Cands, Aim, Seqs, Worse
<1>3. CASE InvalidateFinish
  <2>1. /\ pc' = "idle" /\ UNCHANGED <<data, seq, revSeq, tip, calls>>
        /\ \A c \in cand' : c \in cand \/ ~Worse(c, tip)
        /\ \A x \in data : failed'[x] = {} /\ ~Worse(x, tip) => x \in cand'
    BY <1>3 DEF InvalidateFinish
  <2>2. \A x \in data : Clean(x)' => failed'[x] = {}
    BY <1>0 DEF Clean
  <2> QED
    BY Zenon, <1>0, <2>1, <2>2 DEF Choice, Cands, Aim, Seqs, Worse
<1> QED
  BY <1>1, <1>2, <1>3

LEMMA ChoiceCalls ==
  ASSUME Core, Choice, Next,
         \/ \E b \in header : ResetBlockFailureFlags(b) \/ PreciousBlock(b)
         \/ Restart
  PROVE  Choice'
<1> USE DEF counters, abc, inv, tree
<1>0. /\ TypeOK /\ Locals /\ Flags /\ Cands /\ Aim /\ Seqs
      /\ \A x \in Block : x \in Ancestors[x]
      /\ header \subseteq Block /\ data \subseteq Block /\ tip \in data /\ cand \subseteq data
  BY Zenon, AncestorsType DEF Core, TypeOK, Choice
<1>W. /\ \A a \in Block : ~Worse(a, a)
      /\ \A a, b \in Block : Worse(a, b) => ~Worse(b, a)
  BY Zenon, Order
<1>1. ASSUME NEW b \in header, ResetBlockFailureFlags(b) PROVE Choice'
  <2>1. /\ UNCHANGED <<data, seq, revSeq, tip, pc, abc>> /\ pc \notin {"choose", "step"}
        /\ calls' = calls \cup {"reset"}
        /\ \A c \in cand' : c \in cand \/ (c \in data /\ Worse(tip, c))
    BY Zenon, <1>1 DEF ResetBlockFailureFlags, Count, Unlocked
  <2> QED
    BY Zenon, <1>0, <1>W, <2>1 DEF Choice, Cands, Aim, Seqs, Worse
<1>2. ASSUME NEW b \in header, PreciousBlock(b) PROVE Choice'
  <2>1. /\ seq' = [seq EXCEPT ![b] = -1] /\ "precious" \notin calls
        /\ UNCHANGED <<data, failed, tip, pc, abc>> /\ pc \notin {"choose", "step"}
        /\ calls' = calls \cup {"precious"}
        /\ cand' = IF Linked(b) THEN Prune(cand \cup {b}, seq', tip) ELSE cand \ {b}
    BY Zenon, <1>0, <1>2 DEF PreciousBlock, Count, Unlocked, May, Seqs
  <2>2. seq' \in [Block -> Int] /\ b \in Block
    <3>1. seq \in [Block -> Int] /\ b \in Block
      BY <1>0 DEF TypeOK
    <3> QED
      BY <2>1, <3>1
  <2>3. \A x \in data : x # b /\ tip # b => (WorseBy(seq', x, tip) <=> Worse(x, tip))
    <3>1. \A x \in Block : x # b => seq'[x] = seq[x]
      BY Zenon, <1>0, <2>1 DEF TypeOK
    <3> QED
      BY <1>0, <3>1, WorseSame DEF Worse
  <2>4. \A x \in data : x # b /\ tip = b /\ ~WorseBy(seq', x, tip) => ~Worse(x, tip)
    <3> SUFFICES ASSUME NEW x \in data, x # b, tip = b, Worse(x, tip) PROVE WorseBy(seq', x, tip)
      OBVIOUS
    <3>1. seq'[x] = seq[x] /\ seq'[tip] = -1 /\ seq[tip] >= 0 /\ seq[x] >= 0 /\ seq[x] \in Int /\ seq[tip] \in Int
      BY Zenon, <1>0, <2>1 DEF TypeOK, Seqs
    <3>2. seq'[x] > seq'[tip]
      BY <3>1
    <3> QED
      BY Zenon, <3>2 DEF Worse, WorseBy
  <2>5. ~WorseBy(seq', tip, tip)
    BY Zenon, <1>0, <2>2, WorseOrder
  <2>6. CASE Linked(b)
    <3>1. /\ \A x \in cand' : x \in cand \cup {b} /\ ~WorseBy(seq', x, tip)
          /\ \A x \in cand \cup {b} : ~WorseBy(seq', x, tip) => x \in cand'
      BY <2>1, <2>6 DEF Prune
    <3>2. Cands'
      BY Zenon, <1>0, <2>1, <2>3, <2>4, <2>5, <3>1 DEF Cands, Clean, Worse
    <3> QED
      BY Zenon, <1>0, <2>1, <3>2 DEF Choice, Aim, Seqs
  <2>7. CASE ~Linked(b)
    <3>1. tip # b /\ \A x \in data : Clean(x) => x # b
      BY Zenon, <1>0, <2>7 DEF Linked, Flags, Clean
    <3>2. Cands'
      BY Zenon, <1>0, <2>1, <2>3, <2>7, <3>1 DEF Cands, Clean, Worse
    <3> QED
      BY Zenon, <1>0, <2>1, <3>2 DEF Choice, Aim, Seqs
  <2> QED
    BY <2>6, <2>7
<1>3. CASE Restart
  <2> DEFINE zero == [x \in Block |-> 0]
  <2>1. /\ pc = "idle" /\ seq' = zero /\ revSeq' = -1 /\ UNCHANGED <<data, tip, pc, abc>>
        /\ \A x \in cand' : ~WorseBy(seq', x, tip)
        /\ \A x \in data : failed'[x] = {} /\ ~WorseBy(seq', x, tip) => x \in cand'
    <3>1. \A x \in data : x \in header /\ x \in Block
      BY Zenon, <1>0 DEF TypeOK
    <3> QED
      BY Zenon, <1>3, <3>1 DEF Restart, Prune
  <2>2. \A x \in data : Clean(x)' => failed'[x] = {}
    BY <1>0 DEF Clean
  <2>3. \A x \in Block : seq'[x] >= 0
    <3>1. seq' = [x \in Block |-> 0]
      BY Zenon, <2>1 DEF zero
    <3> HIDE DEF zero
    <3> QED
      BY <3>1
  <2> QED
    BY Zenon, <1>0, <2>1, <2>2, <2>3 DEF Choice, Cands, Aim, Seqs, Worse
<1> QED
  BY <1>1, <1>2, <1>3

LEMMA ChoiceStep ==
  ASSUME Core, Choice, [Next]_vars
  PROVE  /\ Choice'
         /\ ~Unlocked /\ Unlocked' /\ "reset" \notin calls => ~Worse(tip', starting)
<1> USE DEF abc, inv, tree
<1>1. CASE \E b \in Block \ {Genesis} : \/ AcceptBlockHeader(b) \/ RejectBlockHeader(b)
                                       \/ KnownOrUnwanted(b) \/ AcceptBlock(b)
  <2>1. Next
    BY <1>1 DEF Next
  <2>2. Unlocked
    BY Zenon, <1>1 DEF AcceptBlockHeader, RejectBlockHeader, KnownOrUnwanted, AcceptBlock
  <2> QED
    BY <1>1, <2>1, <2>2, ChoiceArrivals
<1>2. CASE \/ ABCStart \/ ABCLock \/ DropFailedCandidate \/ Choose
           \/ DisconnectTip \/ ConnectTipFails \/ ConnectTip
  <2>1. Next
    BY <1>2 DEF Next
  <2> QED
    BY <1>2, <2>1, ChoiceActivate
<1>3. CASE \/ \E b \in header \ {Genesis} : InvalidateStart(b)
           \/ InvalidateDisconnect \/ InvalidateFinish
  <2>1. Next
    BY <1>3 DEF Next
  <2>2. Unlocked
    BY Zenon, <1>3 DEF InvalidateStart, InvalidateDisconnect, InvalidateFinish, Unlocked
  <2> QED
    BY <1>3, <2>1, <2>2, ChoiceInvalidate
<1>4. CASE \/ \E b \in header : ResetBlockFailureFlags(b) \/ PreciousBlock(b)
           \/ Restart
  <2>1. Next
    BY <1>4 DEF Next
  <2>2. Unlocked
    BY Zenon, <1>4 DEF ResetBlockFailureFlags, PreciousBlock, Restart, Unlocked
  <2> QED
    BY <1>4, <2>1, <2>2, ChoiceCalls
<1>5. CASE UNCHANGED vars
  BY Zenon, <1>5 DEF vars, counters, Choice, Cands, Aim, Seqs, Clean, Worse, Unlocked
<1> QED
  BY <1>1, <1>2, <1>3, <1>4, <1>5 DEF Next

LEMMA ChoiceInvariant == Spec => []Choice
<1>1. ASSUME Init PROVE Choice
  <2>1. Core
    BY <1>1, CoreInit
  <2>2. \A a \in Block : ~Worse(a, a)
    BY Zenon, <2>1, Order
  <2>3. Genesis \in Block /\ \A b \in Block : seq[b] = 0
    BY <1>1, TreeAssumption DEF Init, TreeAssumption
  <2> QED
    <3>1. data = {Genesis} /\ cand = {Genesis} /\ tip = Genesis /\ revSeq = -1 /\ pc = "idle"
      BY Zenon, <1>1 DEF Init
    <3>2. Cands
      BY <2>2, <2>3, <3>1 DEF Cands
    <3>3. Aim
      BY <3>1 DEF Aim
    <3>4. Seqs
      BY <2>3, <3>1 DEF Seqs
    <3> QED
      BY Zenon, <3>2, <3>3, <3>4 DEF Choice
<1>2. Core /\ Choice /\ [Next]_vars => Choice'
  BY ChoiceStep
<1> QED
  BY <1>1, <1>2, CoreInvariant, PTL DEF Spec

\* Until the first reconsiderblock usable and clean are the same.
LEMMA UsableIsClean ==
  ASSUME Core, Cause, "reset" \notin calls, NEW b \in data
  PROVE  Usable(b) <=> Clean(b)
<1>1. b \in Block /\ Ancestors[b] \subseteq data /\ Ancestors[b] \subseteq Block
  BY Closed, AncestorsType
<1>2. \A a \in Ancestors[b] : failed[a] # {} => \E c \in Ancestors[b] : "VALID" \in failed[c]
  BY <1>1, AncestorsTransitive DEF Cause
<1> QED
  BY <1>1, <1>2 DEF Usable, Clean

(* setBlockIndexCandidates is what CheckBlockIndex asserts it to be, whenever
   neither InvalidateBlock nor a step of ActivateBestChain is at work, until
   the first reconsiderblock. *)
THEOREM CandidatesAreExact == Spec => []CandidatesExact
<1>1. ASSUME Core, Cause, Choice PROVE CandidatesExact
  <2>1. \A b \in header : Usable(b) => b \in data
    BY DEF Usable
  <2> QED
    BY <1>1, <2>1, UsableIsClean DEF CandidatesExact, Choice, Cands
<1> QED
  BY <1>1, CoreInvariant, CauseInvariant, ChoiceInvariant, PTL

(* A fully validated candidate, no worse than the tip ActivateBestChain took the
   lock with, is there at every moment until the first reconsiderblock: that
   tip while the chain is no better, the tip itself afterwards. *)
THEOREM WayBack == Spec => []CanGoBack
<1>1. ASSUME Core, Choice PROVE CanGoBack
  <2> SUFFICES ASSUME "reset" \notin calls
               PROVE  \E c \in cand : /\ \A a \in Ancestors[c] : a \in scripts /\ failed[a] = {}
                                      /\ ~Unlocked => ~Worse(c, starting)
    BY DEF CanGoBack
  <2>0. /\ TypeOK /\ Flags /\ Locals /\ Cands /\ tip \in Block /\ tip \in data /\ tip \in scripts
        /\ \A c \in scripts : Ancestors[c] \subseteq scripts
    BY Zenon, <1>1, Closed DEF Core, TypeOK, Structure, Choice
  <2>1. CASE Unlocked
    <3>1. tip \in cand
      BY Zenon, <1>1, <2>0, <2>1, Order DEF Cands, Flags, Unlocked, TypeOK
    <3> QED
      BY Zenon, <2>0, <2>1, <3>1 DEF Flags, Clean
  <2>2. CASE ~Unlocked
    <3>1. starting \in scripts /\ Clean(starting) /\ starting \in Block /\ starting \in data
      BY Zenon, <2>0, <2>2 DEF Locals, Flags, Unlocked, TypeOK
    <3>2. CASE ~Worse(starting, tip)
      <4>1. starting \in cand /\ ~Worse(starting, starting)
        BY Zenon, <1>1, <2>0, <2>2, <3>1, <3>2, Order DEF Cands, Unlocked
      <4> QED
        BY Zenon, <2>0, <3>1, <4>1 DEF Clean
    <3>3. CASE Worse(starting, tip)
      <4>1. tip \in cand /\ ~Worse(tip, starting)
        BY Zenon, <1>1, <2>0, <2>2, <3>1, <3>3, Order DEF Cands, Flags, Unlocked
      <4> QED
        BY <2>0, <4>1 DEF Flags, Clean
    <3> QED
      BY <3>2, <3>3
  <2> QED
    BY <2>1, <2>2
<1> QED
  BY <1>1, CoreInvariant, ChoiceInvariant, PTL

(* Until the first reconsiderblock ActivateBestChain lets go of cs_main only
   with a tip as good as the one it took it with, however many of the chains it
   tried turned out invalid half way. *)
THEOREM TipNeverWorse == Spec => NeverWorse
<1>1. Core /\ Choice /\ [Next]_vars
        => [~Unlocked /\ Unlocked' /\ "reset" \notin calls => ~Worse(tip', starting)]_vars
  BY ChoiceStep
<1> QED
  BY <1>1, CoreInvariant, ChoiceInvariant, PTL DEF Spec, NeverWorse
-----------------------------------------------------------------------------
(* At rest. *)

\* With no call of ActivateBestChain outstanding, no candidate beats the chain
\* that one works towards or has ended with.
Quiet ==
  ~pending => /\ mostWork # NoBlock => \A c \in cand : ~Worse(mostWork, c)
              /\ pc = "idle" => \A c \in cand : ~Worse(tip, c)

LEMMA QuietStep == ASSUME Core, Quiet, Next PROVE Quiet'
<1> USE DEF counters, abc, inv, tree
<1>0. TypeOK /\ Locals /\ tip \in data /\ NoBlock \notin data
  BY TreeAssumption DEF Core, TypeOK, TreeAssumption
<1>1. ASSUME NEW b \in Block,
             AcceptBlockHeader(b) \/ RejectBlockHeader(b) \/ KnownOrUnwanted(b) \/ AcceptBlock(b)
      PROVE  Quiet'
  BY Zenon, <1>1 DEF AcceptBlockHeader, RejectBlockHeader, KnownOrUnwanted, AcceptBlock, Quiet, Worse
<1>2. CASE ABCStart \/ ABCLock
  BY Zenon, <1>0, <1>2 DEF ABCStart, ABCLock, Quiet, Locals, Worse
<1>3. CASE DropFailedCandidate
  <2>1. /\ cand' \subseteq cand /\ mostWork = NoBlock /\ pc = "choose"
        /\ UNCHANGED <<seq, pending, pc, mostWork>>
    BY Zenon, <1>3 DEF DropFailedCandidate
  <2> QED
    BY <2>1 DEF Quiet
<1>4. CASE Choose
  <2> DEFINE m == IF mostWork = NoBlock THEN Best ELSE mostWork
  <2>1. ~pending => \A c \in cand : ~Worse(m, c)
    BY BestIs DEF Quiet
  <2>2. /\ UNCHANGED <<tree, pending>>
        /\ \/ m = tip /\ pc' = "idle" /\ mostWork' = NoBlock
           \/ pc' = "step" /\ mostWork' = m
    BY <1>4 DEF Choose, Return
  <2> HIDE DEF m
  <2> QED
    BY <2>1, <2>2 DEF Quiet, Worse
<1>5. CASE DisconnectTip
  BY Zenon, <1>5 DEF DisconnectTip, Quiet, Worse
<1>6. CASE ConnectTipFails
  <2>1. mostWork' = NoBlock /\ pc' # "idle"
    BY Zenon, <1>0, <1>6 DEF ConnectTipFails, StepOver
  <2> QED
    BY <2>1 DEF Quiet
<1>7. CASE ConnectTip
  <2> DEFINE n == NextBlock
  <2>1. /\ pc = "step" /\ tip' = n /\ cand' \subseteq cand /\ UNCHANGED <<seq, pending>>
        /\ \/ n = mostWork /\ pc' = "idle" /\ mostWork' = NoBlock
           \/ pc' # "idle" /\ mostWork' = mostWork
    BY Zenon, <1>7 DEF ConnectTip, StepOver, Return, Prune
  <2>2. mostWork # NoBlock
    BY <1>0, <2>1 DEF Locals
  <2> HIDE DEF n
  <2> QED
    BY <2>1, <2>2 DEF Quiet, Worse
<1>8. CASE InvalidateDisconnect \/ \E b \in header : InvalidateStart(b)
  <2>1. mostWork' = NoBlock /\ pc' = "inv"
    BY Zenon, <1>0, <1>8 DEF InvalidateDisconnect, InvalidateStart, Locals
  <2> QED
    BY <2>1 DEF Quiet
<1>9. CASE InvalidateFinish \/ Restart \/ \E b \in header : ResetBlockFailureFlags(b) \/ PreciousBlock(b)
  <2>1. pending' = TRUE
    BY Zenon, <1>9 DEF InvalidateFinish, Restart, ResetBlockFailureFlags, PreciousBlock
  <2> QED
    BY <2>1 DEF Quiet
<1> QED
  BY <1>1, <1>2, <1>3, <1>4, <1>5, <1>6, <1>7, <1>8, <1>9, Zenon DEF Next

(* When no thread is in ActivateBestChain or InvalidateBlock and none has yet to
   call the first, the node is on the best chain it has in full and holds
   nothing against; until the first reconsiderblock. *)
THEOREM BestChainAtRest == Spec => []BestChainWhenQuiet
<1>1. ASSUME Init PROVE Quiet
  <2>1. Core /\ Genesis \in Block
    BY <1>1, CoreInit, TreeAssumption DEF TreeAssumption
  <2> QED
    BY Zenon, <1>1, <2>1, Order DEF Init, Quiet
<1>2. ASSUME Core, Quiet, [Next]_vars PROVE Quiet'
  <2>1. CASE UNCHANGED vars
    BY <1>2, <2>1 DEF vars, tree, abc, Quiet, Worse
  <2> QED
    BY <1>2, <2>1, QuietStep
<1>3. ASSUME Core, Choice, Quiet PROVE BestChainWhenQuiet
  <2>1. data \subseteq Block /\ tip \in Block
    BY <1>3 DEF Core, TypeOK
  <2> QED
    BY <1>3, <2>1, Order DEF BestChainWhenQuiet, Choice, Cands, Quiet, Clean
<1> QED
  BY <1>1, <1>2, <1>3, CoreInvariant, ChoiceInvariant, PTL DEF Spec
=============================================================================
