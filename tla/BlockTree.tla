----------------------------- MODULE BlockTree ------------------------------
(***************************************************************************)
(* The tree of block index entries (CBlockIndex, chain.h): every entry but *)
(* that of genesis points to its parent.                                   *)
(***************************************************************************)
EXTENDS Integers

CONSTANTS
  Block, Genesis, NoBlock,
  Parent               \* pprev, for every block but Genesis

\* pprev leads down to genesis from everywhere: no set of other blocks is
\* closed under it.
ASSUME TreeAssumption ==
  /\ Genesis \in Block /\ NoBlock \notin Block
  /\ Parent \in [Block \ {Genesis} -> Block]
  /\ \A S \in SUBSET (Block \ {Genesis}) : S # {} => \E b \in S : Parent[b] \notin S

\* The block itself and everything below it.
Ancestors[b \in Block] == IF b = Genesis THEN {b} ELSE {b} \cup Ancestors[Parent[b]]
Descends(b, a) == a \in Ancestors[b]
Children(b) == {c \in Block \ {Genesis} : Parent[c] = b}

\* nHeight.
Height[b \in Block] == IF b = Genesis THEN 0 ELSE Height[Parent[b]] + 1

\* CBlockIndex::GetAncestor, for a height up to that of b.
GetAncestor(b, h) == CHOOSE a \in Ancestors[b] : Height[a] = h
=============================================================================
