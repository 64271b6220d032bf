-------------------------- MODULE BaseIndexProofs ---------------------------
(***************************************************************************)
(* For every tree of blocks and every number of moves, crashes and         *)
(* failures: the index has no hole, and a reader that was told to go ahead *)
(* finds its chain in the index.                                           *)
(*                                                                         *)
(* The first rests on Filled, which adds to NothingSkipped what the sync   *)
(* thread holds before it writes.  The second needs the queue of events:   *)
(* Backlog says that the BlockConnected events still queued, run in order, *)
(* take the index from its best block to the tip, or that what they lead   *)
(* to is already covered, and that a waiting reader's promise stands       *)
(* behind all of its chain.                                                *)
(***************************************************************************)
EXTENDS BaseIndex, CommonProofs

-----------------------------------------------------------------------------
(* Chains. *)

LEMMA UpToIs ==
  /\ UpTo(NoBlock) = {}
  /\ \A b \in Block : /\ b \in UpTo(b) /\ UpTo(b) \subseteq Block
                      /\ Prev(b) \in Block \cup {NoBlock}
                      /\ UpTo(b) = {b} \cup UpTo(Prev(b))
<1>1. NoBlock \notin Block /\ Genesis \in Block
  BY ParentInBlock
<1>2. ASSUME NEW b \in Block
      PROVE  /\ b \in UpTo(b) /\ UpTo(b) \subseteq Block
             /\ Prev(b) \in Block \cup {NoBlock}
             /\ UpTo(b) = {b} \cup UpTo(Prev(b))
  <2>1. UpTo(b) = Ancestors[b] /\ b \in Ancestors[b] /\ Ancestors[b] \subseteq Block
    BY <1>1, AncestorsType DEF UpTo
  <2>2. CASE b = Genesis
    BY <1>1, <2>1, <2>2, AncestorsStep DEF Prev, UpTo
  <2>3. CASE b # Genesis
    BY <1>1, <2>1, <2>3, AncestorsStep, ParentInBlock DEF Prev, UpTo
  <2> QED
    BY <2>1, <2>2, <2>3
<1> QED
  BY <1>1, <1>2 DEF UpTo

LEMMA UpToTransitive ==
  \A b \in Block \cup {NoBlock} : \A a \in UpTo(b) : a \in Block /\ UpTo(a) \subseteq UpTo(b)
BY AncestorsTransitive, AncestorsType, ParentInBlock DEF UpTo

LEMMA ForkIs ==
  ASSUME NEW b \in Block \cup {NoBlock}, NEW t \in Block \cup {NoBlock}
  PROVE  /\ b = NoBlock \/ t = NoBlock => FindFork(b, t) = NoBlock
         /\ b # NoBlock /\ t # NoBlock => FindFork(b, t) \in UpTo(b) \cap UpTo(t)
<1>1. CASE b = NoBlock \/ t = NoBlock
  BY <1>1 DEF FindFork
<1>2. CASE b \in Block /\ t \in Block
  <2> DEFINE S == Ancestors[b] \cap Ancestors[t]
             R == {p \in S \X S : Height[p[1]] <= Height[p[2]]}
  <2>0. UpTo(b) = Ancestors[b] /\ UpTo(t) = Ancestors[t] /\ b # NoBlock /\ t # NoBlock
    BY <1>2, ParentInBlock DEF UpTo
  <2>1. S \subseteq Block /\ S # {} /\ S \in SUBSET Ancestors[b]
    BY <1>2, AncestorsType
  <2>2. IsFiniteSet(S)
    BY <1>2, <2>1, AncestorsFinite, FS_Subset
  <2>3. \A x, y \in S : <<x, y>> \in R <=> Height[x] <= Height[y]
    OBVIOUS
  <2>4. \A x \in S : HeightOf(x) = Height[x] /\ Height[x] \in Int
    BY <2>1, HeightGrows, ParentInBlock DEF HeightOf
  <2>5. /\ FindFork(b, t) = CHOOSE a \in S : \A c \in S : HeightOf(c) <= HeightOf(a)
        /\ S = UpTo(b) \cap UpTo(t)
    BY <2>0 DEF FindFork
  <2> HIDE DEF R, S
  <2>6. ASSUME NEW x \in S, NEW y \in S PROVE <<x, y>> \in R \/ <<y, x>> \in R
    <3>1. Height[x] \in Int /\ Height[y] \in Int
      BY <2>4
    <3>2. Height[x] <= Height[y] \/ Height[y] <= Height[x]
      BY <3>1
    <3> QED
      BY <2>3, <3>2
  <2>7. \A x, y, z \in S : <<x, y>> \in R /\ <<y, z>> \in R => <<x, z>> \in R
    BY <2>3, <2>4
  <2>8. PICK m \in S : \A x \in S : <<x, m>> \in R
    BY <2>1, <2>2, <2>6, <2>7, LargestExists, Zenon
  <2>9. \A x \in S : HeightOf(x) <= HeightOf(m)
    BY Zenon, <2>3, <2>4, <2>8
  <2> QED
    BY <2>0, <2>5, <2>9
<1> QED
  BY <1>1, <1>2

LEMMA ChainNextIs ==
  ASSUME NEW t \in Block, NEW b \in UpTo(t)
  PROVE  /\ ChainNext(b, t) = NoBlock => b = t
         /\ ChainNext(b, t) # NoBlock => /\ ChainNext(b, t) \in UpTo(t)
                                         /\ Prev(ChainNext(b, t)) = b
<1>1. UpTo(t) = Ancestors[t] /\ NoBlock \notin UpTo(t) /\ b \in Block
  BY ParentInBlock, AncestorsType DEF UpTo
<1>2. b # t => \E c \in UpTo(t) : Prev(c) = b
  BY <1>1, ChildTowards DEF Prev
<1> QED
  BY <1>1, <1>2 DEF ChainNext

\* The block the sync thread takes next builds on pindex or on a block below it.
LEMMA NextSyncBlockIs ==
  ASSUME pindex \in Block \cup {NoBlock}, tip \in Block \cup {NoBlock}
  PROVE  /\ NextSyncBlock # NoBlock => /\ NextSyncBlock \in Block
                                       /\ Prev(NextSyncBlock) = pindex \/ Prev(NextSyncBlock) \in UpTo(pindex)
         /\ NextSyncBlock = NoBlock => tip = NoBlock \/ tip \in UpTo(pindex)
<1> DEFINE f == FindFork(pindex, tip)
<1>0. Genesis \in Block /\ NoBlock \notin Block /\ Prev(Genesis) = NoBlock /\ UpTo(NoBlock) = {}
  BY ParentInBlock, UpToIs DEF Prev
<1>1. CASE pindex = NoBlock
  BY <1>0, <1>1 DEF NextSyncBlock
<1>2. CASE pindex \in Block /\ tip = NoBlock
  BY <1>0, <1>2 DEF NextSyncBlock, ChainNext
<1>3. CASE pindex \in Block /\ tip \in Block /\ pindex \in UpTo(tip)
  BY <1>0, <1>3, ChainNextIs, UpToIs DEF NextSyncBlock
<1>4. CASE pindex \in Block /\ tip \in Block /\ pindex \notin UpTo(tip)
  <2>1. f \in UpTo(pindex) /\ f \in UpTo(tip)
    BY <1>0, <1>4, ForkIs
  <2>2. NextSyncBlock = ChainNext(f, tip)
    BY <1>0, <1>4 DEF NextSyncBlock
  <2> HIDE DEF f
  <2> QED
    BY <1>4, <2>1, <2>2, ChainNextIs, UpToIs
<1> QED
  BY <1>1, <1>2, <1>3, <1>4

LEMMA PrevGetAncestor ==
  ASSUME NEW b \in Block, NEW h \in 1..Height[b]
  PROVE  Prev(GetAncestor(b, h)) = GetAncestor(b, h - 1)
<1> DEFINE a == GetAncestor(b, h)
<1>0. h \in 0..Height[b] /\ h - 1 \in 0..Height[b]
  BY HeightGrows
<1>1. a \in Ancestors[b] /\ Height[a] = h /\ a \in Block
  BY <1>0, GetAncestorIs, AncestorsType
<1> HIDE DEF a
<1>2. a # Genesis
  BY <1>1, HeightStep
<1>3. Parent[a] \in Ancestors[b] /\ Height[a] = Height[Parent[a]] + 1 /\ Height[Parent[a]] \in Nat
  BY <1>1, <1>2, NotBelowParent, AncestorsTransitive, HeightStep, HeightGrows, ParentInBlock
<1>4. Height[Parent[a]] = h - 1
  BY <1>1, <1>3
<1>5. Parent[a] = GetAncestor(b, h - 1)
  BY <1>0, <1>3, <1>4, GetAncestorIs
<1> QED
  BY <1>2, <1>5 DEF Prev, a

\* The blocks to connect lead from the fork up to b.
LEMMA ToConnectIs ==
  ASSUME NEW t \in Block \cup {NoBlock}, NEW b \in Block, HeightOf(b) > HeightOf(t)
  PROVE  LET s == ToConnect(t, b)
         IN  /\ s \in Seq(Block) /\ Len(s) \in Nat \ {0}
             /\ Prev(s[1]) = FindFork(t, b)
             /\ \A i \in 1..(Len(s) - 1) : Prev(s[i + 1]) = s[i]
             /\ s[Len(s)] = b
<1> DEFINE f == FindFork(t, b)
           h == HeightOf(f)
           n == Height[b] - h
           s == ToConnect(t, b)
<1>0. Height[b] \in Nat /\ HeightOf(b) = Height[b] /\ NoBlock \notin Block /\ b # NoBlock
  BY HeightGrows, ParentInBlock DEF HeightOf
<1>1. /\ h \in Int /\ -1 <= h /\ h < Height[b]
      /\ f = NoBlock => h = -1
      /\ f # NoBlock => f \in Ancestors[b] /\ h = Height[f] /\ h >= 0
  <2>1. CASE t = NoBlock
    BY <1>0, <2>1, ForkIs DEF HeightOf
  <2>2. CASE t \in Block
    <3>1. f \in Ancestors[t] /\ f \in Ancestors[b] /\ f \in Block
      BY <1>0, <2>2, ForkIs, AncestorsType DEF UpTo
    <3>2. h = Height[f] /\ HeightOf(t) = Height[t] /\ Height[f] \in Nat /\ Height[t] \in Nat /\ f # NoBlock
      BY <1>0, <2>2, <3>1, HeightGrows DEF HeightOf
    <3>3. Height[f] <= Height[t]
      BY <2>2, <3>1, <3>2, HeightGrows
    <3> QED
      BY <1>0, <3>1, <3>2, <3>3
  <2> QED
    BY <2>1, <2>2
<1>2. s = [i \in 1..n |-> GetAncestor(b, h + i)]
  BY DEF ToConnect
<1> HIDE DEF f, h, s
<1>3. n \in Nat \ {0} /\ \A i \in 1..n : h + i \in 0..Height[b]
  BY <1>0, <1>1
<1> HIDE DEF n
<1>4. \A i \in 1..n : GetAncestor(b, h + i) \in Block
  BY <1>3, GetAncestorIs, AncestorsType
<1>5. s \in Seq(Block) /\ Len(s) = n
  BY <1>2, <1>3, <1>4
<1>6. Prev(s[1]) = f
  <2>1. s[1] = GetAncestor(b, h + 1) /\ h + 1 \in 0..Height[b]
    BY <1>2, <1>3
  <2>2. CASE f = NoBlock
    <3>1. s[1] = GetAncestor(b, 0) /\ 0 \in 0..Height[b]
      BY <1>0, <1>1, <2>1, <2>2
    <3>2. Genesis \in Ancestors[b] /\ Height[Genesis] = 0
      BY AncestorsType, HeightStep
    <3>3. s[1] = Genesis
      BY <3>1, <3>2, GetAncestorIs
    <3> QED
      BY <2>2, <3>3 DEF Prev
  <2>3. CASE f # NoBlock
    <3>1. h + 1 \in 1..Height[b] /\ h + 1 - 1 = h /\ h \in 0..Height[b]
      BY <1>0, <1>1, <2>3
    <3>2. Prev(s[1]) = GetAncestor(b, h)
      BY <2>1, <3>1, PrevGetAncestor
    <3> QED
      BY <1>1, <2>3, <3>1, <3>2, GetAncestorIs
  <2> QED
    BY <2>2, <2>3
<1>7. ASSUME NEW i \in 1..(n - 1) PROVE Prev(s[i + 1]) = s[i]
  <2> DEFINE k == h + (i + 1)
  <2>1. i + 1 \in 1..n /\ i \in 1..n /\ k \in 1..Height[b] /\ k - 1 = h + i
    BY <1>0, <1>1, <1>3 DEF n
  <2>2. s[i + 1] = GetAncestor(b, k) /\ s[i] = GetAncestor(b, h + i)
    BY <1>2, <2>1
  <2> HIDE DEF k
  <2>3. Prev(GetAncestor(b, k)) = GetAncestor(b, k - 1)
    BY <2>1, PrevGetAncestor
  <2> QED
    BY <2>1, <2>2, <2>3
<1>8. s[n] = b
  <2>1. h + n = Height[b] /\ n \in 1..n /\ Height[b] \in 0..Height[b]
    BY <1>0, <1>1, <1>3 DEF n
  <2>2. b \in Ancestors[b]
    BY AncestorsType
  <2> QED
    BY <1>2, <2>1, <2>2, GetAncestorIs
<1> QED
  BY <1>3, <1>5, <1>6, <1>7, <1>8 DEF s, f
-----------------------------------------------------------------------------
(* Types. *)

\* A BlockConnected event names a block.
Typed(e) == e \in Event /\ (e.type = "BlockConnected" => e.block \in Block)
TypedQueue(q) ==
  q \in Seq(Event) /\ \A i \in DOMAIN q : q[i].type = "BlockConnected" => q[i].block \in Block

Types == TypeOK /\ TypedQueue(queue) /\ (pc = "write" => pindex \in Block)

LEMMA EventsTyped ==
  /\ Typed(Promise)
  /\ \A b \in Block : Typed(Connected(b)) /\ Typed(Flushed(b))
  /\ \A b \in Block : Connected(b).type = "BlockConnected" /\ Connected(b).block = b
  /\ \A b \in Block : Flushed(b).type = "ChainStateFlushed"
  /\ Promise.type = "Promise"
BY DEF Typed, Event, Connected, Flushed, Promise

LEMMA AppendTyped ==
  ASSUME NEW q, TypedQueue(q), NEW e, Typed(e)
  PROVE  TypedQueue(Append(q, e))
BY DEF TypedQueue, Typed

LEMMA ConcatIs ==
  ASSUME NEW q \in Seq(Event), NEW s \in Seq(Event)
  PROVE  /\ q \o s \in Seq(Event) /\ Len(q) \in Nat /\ Len(q \o s) = Len(q) + Len(s)
         /\ \A i \in 1..(Len(q) + Len(s)) : (q \o s)[i] = IF i <= Len(q) THEN q[i] ELSE s[i - Len(q)]
OBVIOUS

LEMMA ConcatTyped ==
  ASSUME NEW q, TypedQueue(q), NEW s, TypedQueue(s)
  PROVE  TypedQueue(q \o s)
<1>1. q \in Seq(Event) /\ s \in Seq(Event)
  BY DEF TypedQueue
<1>2. /\ q \o s \in Seq(Event) /\ Len(q \o s) = Len(q) + Len(s)
      /\ \A i \in 1..(Len(q) + Len(s)) : (q \o s)[i] = IF i <= Len(q) THEN q[i] ELSE s[i - Len(q)]
  BY <1>1, ConcatIs
<1>3. /\ Len(q) \in Nat /\ Len(s) \in Nat /\ DOMAIN q = 1..Len(q) /\ DOMAIN s = 1..Len(s)
      /\ DOMAIN (q \o s) = 1..Len(q \o s)
  BY <1>1, <1>2
<1>4. \A i \in 1..(Len(q) + Len(s)) : i <= Len(q) \/ i - Len(q) \in 1..Len(s)
  BY <1>3
<1> QED
  BY <1>2, <1>3, <1>4 DEF TypedQueue

LEMMA TailTyped ==
  ASSUME NEW q, TypedQueue(q), q # <<>>
  PROVE  TypedQueue(Tail(q)) /\ Typed(Head(q))
BY DEF TypedQueue, Typed

\* The news of ActivateBestChain.
LEMMA NewsTyped ==
  ASSUME NEW s \in Seq(Block)
  PROVE  TypedQueue([i \in DOMAIN s |-> Connected(s[i])])
BY EventsTyped DEF TypedQueue, Typed

\* Tips along a walk.
LEMMA WalkIs ==
  ASSUME NEW t \in Block, NEW b \in Block, NEW w \in Walk(t, b)
  PROVE  w[1] \in Block /\ w[2] \in Block \cup {NoBlock}
<1> DEFINE f == FindFork(t, b)
<1>0. NoBlock \notin Block /\ \A x \in Block : Prev(x) \in Block \cup {NoBlock}
  BY ParentInBlock, UpToIs
<1>1. f \in Block /\ Genesis \in UpTo(f)
  BY <1>0, ForkIs, UpToTransitive, AncestorsType DEF UpTo
<1> HIDE DEF f
<1>2. CASE \E x \in UpTo(t) \ UpTo(f) : w = <<x, Prev(x)>>
  BY <1>0, <1>2, UpToTransitive
<1>3. CASE \E x \in UpTo(b) \ UpTo(f) : w = <<Prev(x), x>>
  <2>1. PICK x \in UpTo(b) \ UpTo(f) : w = <<Prev(x), x>>
    BY <1>3
  <2>2. x \in Block /\ x # Genesis
    BY <1>1, <2>1, UpToTransitive
  <2> QED
    BY <2>1, <2>2, ParentInBlock DEF Prev
<1> QED
  BY <1>2, <1>3 DEF Walk, f

LEMMA TypesInit == Init => Types
<1> SUFFICES ASSUME Init PROVE Types
  OBVIOUS
<1>1. synced \in BOOLEAN /\ fatal \in BOOLEAN /\ pc \in {"top", "write", "done"}
  BY Zenon DEF Init
<1>2. {tip, flushed, handling, best, pindex, locator} \subseteq Block \cup {NoBlock} /\ written \subseteq Block
  BY ParentInBlock DEF Init
<1>3. reader \in [state : {"idle", "waiting", "returned"}, tip : Block \cup {NoBlock}]
  BY DEF Init, Reader
<1>4. moves \in 0..MaxMoves /\ crashes \in 0..MaxCrashes /\ failures \in 0..MaxFailures
  BY IndexAssumption DEF Init, IndexAssumption
<1>5. TypedQueue(queue)
  BY DEF Init, TypedQueue
<1> QED
  BY <1>1, <1>2, <1>3, <1>4, <1>5 DEF Init, Types, TypeOK, TypedQueue

LEMMA TypesStep == ASSUME Types, Next PROVE Types'
<1> USE DEF chainVars, syncVars
<1>0. /\ TypeOK /\ TypedQueue(queue) /\ (pc = "write" => pindex \in Block)
      /\ NoBlock \notin Block /\ Genesis \in Block
      /\ MaxMoves \in Nat /\ MaxCrashes \in Nat /\ MaxFailures \in Nat
      /\ \A b \in Block : Prev(b) \in Block \cup {NoBlock}
  BY ParentInBlock, UpToIs, IndexAssumption DEF Types, IndexAssumption
<1>F. ASSUME failures < MaxFailures, failures' = failures + 1 PROVE failures' \in 0..MaxFailures
  BY <1>0, <1>F DEF TypeOK
<1>1. ASSUME NEW b \in Block, ActivateBestChain(b) PROVE Types'
  <2> DEFINE s == ToConnect(tip, b)
             news == [i \in DOMAIN s |-> Connected(s[i])]
  <2>1. tip \in Block \cup {NoBlock} /\ HeightOf(b) > HeightOf(tip)
    BY <1>0, <1>1 DEF ActivateBestChain, TypeOK
  <2>2. s \in Seq(Block)
    BY <2>1, ToConnectIs
  <2>3. TypedQueue(news)
    BY <2>2, NewsTyped
  <2>5. \A w \in Walk(tip, b) : tip # NoBlock => w[1] \in Block /\ w[2] \in Block \cup {NoBlock}
    BY <2>1, WalkIs
  <2>6. TypedQueue(queue') /\ flushed' \in Block \cup {NoBlock}
    <3>1. CASE queue' = queue \o news /\ UNCHANGED flushed
      BY <1>0, <2>3, <3>1, ConcatTyped DEF TypeOK
    <3>2. CASE tip # NoBlock /\ \E w \in Walk(tip, b) :
                 queue' = Append(queue, Flushed(w[1])) \o news /\ flushed' = w[2]
      <4>1. PICK w \in Walk(tip, b) : queue' = Append(queue, Flushed(w[1])) \o news /\ flushed' = w[2]
        BY <3>2
      <4>2. TypedQueue(Append(queue, Flushed(w[1])))
        BY <1>0, <2>5, <3>2, AppendTyped, EventsTyped
      <4> QED
        BY SMTT(20), <2>3, <2>5, <3>2, <4>1, <4>2, ConcatTyped
    <3> QED
      BY Zenon, <1>1, <3>1, <3>2 DEF ActivateBestChain
  <2>7. moves' \in 0..MaxMoves
    BY <1>0, <1>1 DEF ActivateBestChain, TypeOK
  <2> QED
    BY <1>0, <1>1, <2>6, <2>7 DEF ActivateBestChain, Types, TypeOK, TypedQueue
<1>2. CASE InvalidateBlock
  <2>1. tip \in Block /\ Parent[tip] \in Block /\ moves' \in 0..MaxMoves
    BY <1>0, <1>2, ParentInBlock DEF InvalidateBlock, TypeOK
  <2>2. TypedQueue(Append(queue, Flushed(tip)))
    BY <1>0, <2>1, AppendTyped, EventsTyped
  <2>3. TypedQueue(queue')
    BY Zenon, <1>0, <1>2, <2>2 DEF InvalidateBlock
  <2> QED
    BY <1>0, <1>2, <2>1, <2>3 DEF InvalidateBlock, Types, TypeOK, TypedQueue
<1>3. CASE FlushStateToDisk
  <2>1. tip \in Block
    BY <1>0, <1>3 DEF FlushStateToDisk, TypeOK
  <2>2. TypedQueue(queue')
    BY <1>0, <1>3, <2>1, AppendTyped, EventsTyped DEF FlushStateToDisk
  <2> QED
    BY <1>0, <1>3, <2>1, <2>2 DEF FlushStateToDisk, Types, TypeOK, TypedQueue
<1>4. CASE SyncDone
  <2>1. locator' \in Block \cup {NoBlock} /\ failures' \in 0..MaxFailures
    BY <1>0, <1>4, <1>F DEF SyncDone, Commit, TypeOK
  <2> QED
    BY <1>0, <1>4, <2>1 DEF SyncDone, Types, TypeOK
<1>N. /\ NextSyncBlock # NoBlock => NextSyncBlock \in Block
      /\ NextSyncBlock # NoBlock => Prev(NextSyncBlock) \in Block \cup {NoBlock}
  BY <1>0, NextSyncBlockIs DEF TypeOK
<1>5. CASE SyncAdvance
  <2>1. locator' \in Block \cup {NoBlock} /\ failures' \in 0..MaxFailures /\ best' \in Block \cup {NoBlock}
    BY <1>0, <1>5, <1>F, <1>N DEF SyncAdvance, Commit, TypeOK
  <2> QED
    BY <1>0, <1>5, <1>N, <2>1 DEF SyncAdvance, Types, TypeOK
<1>6. CASE SyncRewind
  <2>1. /\ locator' \in Block \cup {NoBlock} /\ failures' \in 0..MaxFailures
        /\ best' \in Block \cup {NoBlock} /\ pindex' \in Block \cup {NoBlock}
        /\ pc' \in {"write", "done"} /\ fatal' \in BOOLEAN
    BY Zenon, <1>0, <1>6, <1>F, <1>N DEF SyncRewind, RewindSucceeds, RewindFails, TypeOK
  <2> QED
    BY <1>0, <1>6, <2>1 DEF SyncRewind, Types, TypeOK
<1>7. CASE SyncWrite
  BY Zenon, <1>0, <1>7, <1>F DEF SyncWrite, Types, TypeOK
<1>8. CASE BlockConnected
  <2>1. TypedQueue(queue') /\ Head(queue).block \in Block /\ Prev(Head(queue).block) \in Block \cup {NoBlock}
    BY <1>0, <1>8, TailTyped DEF BlockConnected, Deliver, Typed
  <2>2. /\ locator' \in Block \cup {NoBlock} /\ failures' \in 0..MaxFailures
        /\ best' \in Block \cup {NoBlock} /\ handling' \in Block \cup {NoBlock} /\ fatal' \in BOOLEAN
    BY Zenon, <1>0, <1>8, <1>F, <2>1 DEF BlockConnected, Deliver, RewindSucceeds, RewindFails, TypeOK
  <2> QED
    BY <1>0, <1>8, <2>1, <2>2 DEF BlockConnected, Types, TypeOK, TypedQueue
<1>9. CASE WriteBlock
  BY ZenonT(30), <1>0, <1>9, <1>F DEF WriteBlock, Types, TypeOK
<1>10. CASE ChainStateFlushed
  <2>1. TypedQueue(queue')
    BY <1>0, <1>10, TailTyped DEF ChainStateFlushed, Deliver
  <2>2. locator' \in Block \cup {NoBlock} /\ failures' \in 0..MaxFailures
    BY <1>0, <1>10, <1>F DEF ChainStateFlushed, Commit, TypeOK
  <2> QED
    BY <1>0, <1>10, <2>1, <2>2 DEF ChainStateFlushed, Types, TypeOK, TypedQueue
<1>11. CASE PromiseSet
  <2>1. TypedQueue(queue')
    BY <1>0, <1>11, TailTyped DEF PromiseSet, Deliver
  <2> QED
    BY <1>0, <1>11, <2>1 DEF PromiseSet, Types, TypeOK, TypedQueue
<1>12. CASE ReaderCalls
  <2>1. TypedQueue(Append(queue, Promise))
    BY <1>0, AppendTyped, EventsTyped
  <2>2. TypedQueue(queue')
    BY Zenon, <1>0, <1>12, <2>1 DEF ReaderCalls
  <2> QED
    BY <1>0, <1>12, <2>2 DEF ReaderCalls, Reader, Types, TypeOK, TypedQueue
<1>13. CASE ReaderLeaves
  BY <1>0, <1>13 DEF ReaderLeaves, Reader, Types, TypeOK
<1>14. ASSUME NEW l \in Block \cup {NoBlock}, NEW t \in Block \cup {NoBlock}, Reload(l, t),
              crashes' \in 0..MaxCrashes
       PROVE  Types'
  <2>1. FindFork(l, t) \in Block \cup {NoBlock}
    BY <1>0, ForkIs, UpToTransitive
  <2>2. best' \in Block \cup {NoBlock} /\ pindex' \in Block \cup {NoBlock} /\ synced' \in BOOLEAN /\ pc' \in {"top", "done"}
    BY <1>14, <2>1 DEF Reload, StartIndex
  <2>3. TypedQueue(queue')
    BY <1>14 DEF Reload, TypedQueue
  <2> QED
    BY Zenon, <1>0, <1>14, <2>2, <2>3 DEF Reload, Reader, Types, TypeOK, TypedQueue
<1>15. CASE Crash \/ SyncAborts
  BY <1>0, <1>14, <1>15 DEF Crash, SyncAborts, TypeOK
<1>16. CASE CleanRestart
  BY <1>0, <1>14, <1>16 DEF CleanRestart, TypeOK
<1> QED
  BY <1>1, <1>2, <1>3, <1>4, <1>5, <1>6, <1>7, <1>8, <1>9, <1>10, <1>11, <1>12, <1>13, <1>15,
     <1>16, Zenon DEF Next
-----------------------------------------------------------------------------
(* No hole. *)

\* The block the index names before it is written.
Ahead == IF Exposed THEN {pindex} ELSE {}

\* What makes NothingSkipped inductive: the sync thread works on a block whose
\* parents are all written, and only before the index is in sync; a handler
\* works on a child of m_best_block_index, and only after.
Filled ==
  /\ UpTo(best) \subseteq written \cup Ahead
  /\ UpTo(locator) \subseteq written \cup Ahead
  /\ pc = "top" => UpTo(pindex) \subseteq written
  /\ pc = "write" => UpTo(Prev(pindex)) \subseteq written
  /\ pc \in {"top", "write"} => ~synced
  /\ handling # NoBlock => synced /\ Prev(handling) = best

LEMMA FilledInit == Init => Filled
BY UpToIs DEF Init, Filled, Ahead, Exposed

\* A restart from a locator whose chain is written.
LEMMA FilledReload ==
  ASSUME NEW l \in Block \cup {NoBlock}, NEW t \in Block \cup {NoBlock}, Reload(l, t),
         UpTo(l) \subseteq written
  PROVE  Filled'
<1>1. UpTo(FindFork(l, t)) \subseteq UpTo(l)
  BY ForkIs, UpToTransitive, UpToIs, ParentInBlock
<1>2. /\ best' = FindFork(l, t) /\ pindex' = best' /\ locator' = l /\ written' = written
      /\ handling' = NoBlock /\ pc' \in {"top", "done"} /\ (pc' = "top" => ~synced')
  BY DEF Reload, StartIndex
<1> QED
  BY <1>1, <1>2 DEF Filled

LEMMA FilledStep ==
  ASSUME LocatorLeads = FALSE, Types, Filled, Next
  PROVE  Filled'
<1> USE DEF chainVars, syncVars
<1>0. /\ best \in Block \cup {NoBlock} /\ locator \in Block \cup {NoBlock}
      /\ pindex \in Block \cup {NoBlock} /\ handling \in Block \cup {NoBlock}
      /\ tip \in Block \cup {NoBlock} /\ flushed \in Block \cup {NoBlock}
      /\ (pc = "write" => pindex \in Block) /\ NoBlock \notin Block
  BY ParentInBlock DEF Types, TypeOK
<1>1. \A b \in Block : UpTo(b) = {b} \cup UpTo(Prev(b))
  BY Zenon, UpToIs
<1>2. /\ pc # "write" => UpTo(best) \subseteq written /\ UpTo(locator) \subseteq written
      /\ synced => pc \notin {"top", "write"}
  BY DEF Filled, Ahead, Exposed
<1>3. CASE UNCHANGED <<best, locator, written, pc, pindex, synced, handling>>
  BY <1>3 DEF Filled, Ahead, Exposed
<1>4. CASE SyncDone
  BY <1>2, <1>4 DEF SyncDone, Commit, Filled, Ahead, Exposed
<1>5. /\ NextSyncBlock # NoBlock => NextSyncBlock \in Block
      /\ NextSyncBlock # NoBlock /\ pc = "top" => UpTo(Prev(NextSyncBlock)) \subseteq written
  BY <1>0, NextSyncBlockIs, UpToTransitive DEF Filled
<1>6. CASE SyncAdvance
  <2> DEFINE n == NextSyncBlock
  <2>1. /\ n \in Block /\ UpTo(n) = {n} \cup UpTo(pindex) /\ Prev(n) = pindex /\ UpTo(pindex) \subseteq written
        /\ pindex' = n /\ pc' = "write" /\ ~synced /\ pc = "top" /\ handling = NoBlock
        /\ \/ UNCHANGED <<best, locator>>
           \/ best' = n /\ locator' \in {n, locator}
        /\ UNCHANGED <<synced, written, handling>>
    BY <1>0, <1>1, <1>5, <1>6 DEF SyncAdvance, Commit, Filled
  <2> HIDE DEF n
  <2> QED
    BY <1>2, <2>1 DEF Filled, Ahead, Exposed
<1>7. CASE SyncRewind
  <2> DEFINE n == NextSyncBlock
  <2>1. /\ n \in Block /\ UpTo(n) = {n} \cup UpTo(Prev(n)) /\ UpTo(Prev(n)) \subseteq written
        /\ ~synced /\ pc = "top" /\ handling = NoBlock
        /\ \/ pindex' = n /\ pc' = "write" /\ best' = Prev(n) /\ locator' = Prev(n)
           \/ pindex' = n /\ pc' = "write" /\ best' = n /\ locator' \in {n, Prev(n)}
           \/ pc' = "done" /\ UNCHANGED <<best, locator, pindex>>
        /\ UNCHANGED <<synced, written, handling>>
    BY <1>0, <1>1, <1>5, <1>7 DEF SyncRewind, RewindSucceeds, RewindFails, Filled
  <2> HIDE DEF n
  <2> QED
    BY <1>2, <2>1 DEF Filled, Ahead, Exposed
<1>8. CASE SyncWrite
  <2>1. UpTo(pindex) = {pindex} \cup UpTo(Prev(pindex))
    BY <1>0, <1>1, <1>8 DEF SyncWrite
  <2> QED
    BY <1>8, <2>1 DEF SyncWrite, Filled, Ahead, Exposed
<1>9. CASE BlockConnected
  <2> DEFINE b == Head(queue).block
  <2>1. CASE UNCHANGED <<best, locator, handling>>
    BY <1>3, <1>9, <2>1 DEF BlockConnected
  <2>2. CASE synced /\ Connectable(b) /\ handling' = b /\ best' = Prev(b) /\ locator' \in {locator, best'}
    <3>1. best = Prev(b) \/ Prev(b) \in UpTo(best)
      BY <2>2, <1>0 DEF Connectable, Prev
    <3>2. UpTo(Prev(b)) \subseteq UpTo(best)
      BY <1>0, <3>1, UpToTransitive
    <3> HIDE DEF b
    <3> QED
      BY <1>2, <1>9, <2>2, <3>2 DEF BlockConnected, Filled, Ahead, Exposed
  <2> QED
    BY <1>9, <2>1, <2>2 DEF BlockConnected, RewindSucceeds, RewindFails
<1>10. CASE WriteBlock
  <2>1. handling \in Block /\ UpTo(handling) = {handling} \cup UpTo(best) /\ synced
    BY <1>0, <1>1, <1>10 DEF WriteBlock, Filled
  <2> QED
    BY <1>2, <1>10, <2>1 DEF WriteBlock, Filled, Ahead, Exposed
<1>11. CASE ChainStateFlushed
  BY <1>2, <1>11 DEF ChainStateFlushed, Commit, Filled, Ahead, Exposed
<1>12. CASE Crash \/ SyncAborts
  <2>1. UpTo(locator) \subseteq written
    BY <1>2, <1>12 DEF Crash, SyncAborts, Filled, Ahead
  <2> QED
    BY <1>0, <1>12, <2>1, FilledReload DEF Crash, SyncAborts
<1>13. CASE CleanRestart
  <2> DEFINE reached == IF pc = "top" THEN pindex ELSE best
             commits == pc = "top" \/ (synced /\ tip \in UpTo(best))
             l == IF commits /\ reached # NoBlock THEN reached ELSE locator
  <2>1. UpTo(l) \subseteq written /\ l \in Block \cup {NoBlock} /\ Reload(l, tip)
    BY <1>0, <1>2, <1>13 DEF CleanRestart, Filled
  <2> HIDE DEF l
  <2> QED
    BY <1>0, <2>1, FilledReload
<1>14. ASSUME NEW b \in Block, ActivateBestChain(b) PROVE Filled'
  BY <1>3, <1>14 DEF ActivateBestChain
<1>15. CASE InvalidateBlock \/ FlushStateToDisk \/ PromiseSet \/ ReaderCalls \/ ReaderLeaves
  BY <1>3, <1>15 DEF InvalidateBlock, FlushStateToDisk, PromiseSet, ReaderCalls, ReaderLeaves
<1> QED
  BY <1>4, <1>6, <1>7, <1>8, <1>9, <1>10, <1>11, <1>12, <1>13, <1>14, <1>15, Zenon DEF Next

(* With no crash and no failed write between a commit of the sync thread and
   the write of the block it names, every block up to m_best_block_index and
   up to DB_BEST_BLOCK is in the index database, in every reachable state and
   for every tree of blocks, across reorganisations, rewinds, failed commits,
   crashes and restarts. *)
THEOREM IndexHasNoHole ==
  ASSUME LocatorLeads = FALSE
  PROVE  Spec => []NothingSkipped
<1>1. Init => Types /\ Filled
  BY TypesInit, FilledInit
<1>2. Types /\ Filled /\ [Next]_vars => (Types /\ Filled)'
  <2>1. CASE Next
    BY Zenon, <2>1, TypesStep, FilledStep
  <2>2. CASE UNCHANGED vars
    BY <2>2 DEF vars, Types, TypeOK, Filled, Ahead, Exposed
  <2> QED
    BY <2>1, <2>2
<1>3. Filled => NothingSkipped
  BY DEF Filled, Ahead, Exposed, NothingSkipped
<1> QED
  BY <1>1, <1>2, <1>3, PTL DEF Spec
-----------------------------------------------------------------------------
(* The backlog: what the queued events will make of the index.  Behind the
   queue runs the chain that was announced: A[0] before its first event, A[i]
   after event i. *)

\* b and everything below it; of no block, no block.
Chain(b) == UpTo(b) \cup {b}

\* An index at c takes a BlockConnected of b.
Fits(b, c) == Prev(b) \in Chain(c)

IsConnect(e) == e.type = "BlockConnected"

Announces(q, A) ==
  /\ A \in [0..Len(q) -> Block \cup {NoBlock}]
  /\ \A i \in 1..Len(q) : IF IsConnect(q[i]) THEN A[i] = q[i].block /\ Fits(A[i], A[i - 1])
                                             ELSE A[i] = A[i - 1]

\* With the first n events an index at c gets to the chain of x: it is there
\* already, or one of them fits.
Reaches(q, A, n, c, x) == x \in Chain(c) \/ \E i \in 1..n : IsConnect(q[i]) /\ Fits(A[i], c)

LEMMA ChainIs ==
  /\ \A b \in Block \cup {NoBlock} : /\ Chain(b) \subseteq Block \cup {NoBlock}
                                     /\ b \in Chain(b)
                                     /\ \A a \in Chain(b) : Chain(a) \subseteq Chain(b)
                                     /\ \A a \in Chain(b) : UpTo(a) \subseteq UpTo(b)
  /\ \A b \in Block : Chain(b) = UpTo(b) /\ NoBlock \notin Chain(b)
  /\ Chain(NoBlock) = {NoBlock}
BY UpToIs, UpToTransitive, ParentInBlock DEF Chain

\* The announced chain stays until an event that connects to it.
LEMMA FirstConnect ==
  ASSUME NEW q \in Seq(Event), NEW A, Announces(q, A), NEW k \in 0..Len(q), NEW n \in k..Len(q), A[n] # A[k]
  PROVE  \E i \in (k + 1)..n : IsConnect(q[i]) /\ Fits(A[i], A[k])
<1> DEFINE S == {m \in k..n : A[m] # A[k]}
<1>1. n \in Nat /\ k \in Nat /\ Len(q) \in Nat /\ k <= n /\ n <= Len(q)
  OBVIOUS
<1>2. S \in SUBSET (0..n) /\ S # {}
  BY <1>1
<1> HIDE DEF S
<1>3. PICK m \in S : \A x \in S : m <= x
  BY Zenon, <1>1, <1>2, LeastExists
<1>4. m \in (k + 1)..n /\ m - 1 \in k..n /\ A[m] # A[k]
  BY <1>1, <1>3 DEF S
<1>5. A[m - 1] = A[k]
  BY <1>3, <1>4 DEF S
<1>6. m \in 1..Len(q)
  BY <1>1, <1>4
<1>7. IsConnect(q[m]) /\ Fits(A[m], A[m - 1])
  BY <1>4, <1>5, <1>6 DEF Announces
<1> QED
  BY <1>4, <1>5, <1>7

\* r has more events than q, and B goes on where A ends.
Prolongs(q, A, r, B) ==
  /\ r \in Seq(Event) /\ Announces(r, B) /\ Len(q) <= Len(r)
  /\ \A i \in 1..Len(q) : r[i] = q[i]
  /\ \A i \in 0..Len(q) : B[i] = A[i]

LEMMA AppendProlongs ==
  ASSUME NEW q \in Seq(Event), NEW A, Announces(q, A), NEW e \in Event, ~IsConnect(e)
  PROVE  \E B : Prolongs(q, A, Append(q, e), B) /\ B[Len(q) + 1] = A[Len(q)]
<1> DEFINE n == Len(q)
           r == Append(q, e)
           B == [i \in 0..(n + 1) |-> IF i <= n THEN A[i] ELSE A[n]]
<1>1. n \in Nat /\ r \in Seq(Event) /\ Len(r) = n + 1 /\ r[n + 1] = e /\ \A i \in 1..n : r[i] = q[i]
  OBVIOUS
<1>2. \A i \in 0..n : A[i] \in Block \cup {NoBlock}
  BY DEF Announces
<1> HIDE DEF n, r
<1>3. /\ B \in [0..(n + 1) -> Block \cup {NoBlock}] /\ B[n + 1] = A[n]
      /\ \A i \in 0..n : B[i] = A[i]
  BY <1>1, <1>2
<1> HIDE DEF B
<1>4. ASSUME NEW i \in 1..Len(r)
      PROVE  IF IsConnect(r[i]) THEN B[i] = r[i].block /\ Fits(B[i], B[i - 1]) ELSE B[i] = B[i - 1]
  <2>1. CASE i \in 1..n
    <3>1. B[i] = A[i] /\ B[i - 1] = A[i - 1] /\ r[i] = q[i]
      BY <1>1, <1>3, <2>1
    <3> QED
      BY <2>1, <3>1 DEF Announces, n
  <2>2. CASE i = n + 1
    <3>1. B[i - 1] = A[n]
      BY <1>1, <1>3, <2>2
    <3> QED
      BY <1>1, <1>3, <2>2, <3>1
  <2> QED
    BY <1>1, <2>1, <2>2
<1>5. Prolongs(q, A, r, B)
  BY SMTT(20), <1>1, <1>3, <1>4 DEF Prolongs, Announces, n
<1> QED
  BY <1>3, <1>5 DEF n, r

\* The events of a chain of blocks s, each the child of the one before.
IsNews(news, s) ==
  /\ s \in Seq(Block) /\ Len(s) # 0
  /\ \A i \in 1..(Len(s) - 1) : Prev(s[i + 1]) = s[i]
  /\ news \in Seq(Event) /\ Len(news) = Len(s)
  /\ \A i \in 1..Len(s) : IsConnect(news[i]) /\ news[i].block = s[i]

\* w is q with the news of s at its end.
EndsIn(q, A, s, w, B) ==
  /\ Prolongs(q, A, w, B) /\ Len(q) + 1 <= Len(w) /\ IsConnect(w[Len(q) + 1])
  /\ B[Len(q) + 1] = s[1] /\ B[Len(w)] = s[Len(s)]

LEMMA NewsProlong ==
  ASSUME NEW q \in Seq(Event), NEW A, Announces(q, A),
         NEW s, NEW news, IsNews(news, s), Fits(s[1], A[Len(q)])
  PROVE  \E B : EndsIn(q, A, s, q \o news, B)
<1> DEFINE n == Len(q)
           k == Len(s)
           r == q \o news
           B == [i \in 0..(n + k) |-> IF i <= n THEN A[i] ELSE s[i - n]]
<1>0. /\ news \in Seq(Event) /\ Len(news) = k /\ k \in Nat \ {0}
      /\ \A i \in 1..k : IsConnect(news[i]) /\ news[i].block = s[i] /\ s[i] \in Block
      /\ \A i \in 1..(k - 1) : Prev(s[i + 1]) = s[i]
  BY DEF IsNews
<1>1. /\ n \in Nat /\ r \in Seq(Event) /\ Len(r) = n + k
      /\ \A i \in 1..n : r[i] = q[i]
      /\ \A j \in 1..k : r[n + j] = news[j]
  <2>1. n \in Nat /\ r \in Seq(Event) /\ Len(r) = n + k
    BY Zenon, <1>0, ConcatIs
  <2>2. \A i \in 1..(n + k) : r[i] = IF i <= n THEN q[i] ELSE news[i - n]
    BY <1>0, ConcatIs
  <2>3. \A j \in 1..k : n + j \in 1..(n + k) /\ ~(n + j <= n) /\ (n + j) - n = j
    BY <1>0, <2>1
  <2>4. \A i \in 1..n : i \in 1..(n + k) /\ i <= n
    BY <1>0, <2>1
  <2> HIDE DEF n, r, k
  <2> QED
    BY <2>1, <2>2, <2>3, <2>4
<1>2. \A i \in 0..n : A[i] \in Block \cup {NoBlock}
  BY DEF Announces
<1> HIDE DEF n, r, k
<1>3. /\ B \in [0..(n + k) -> Block \cup {NoBlock}]
      /\ \A i \in 0..n : B[i] = A[i]
      /\ \A j \in 1..k : B[n + j] = s[j]
  BY SMTT(20), <1>0, <1>1, <1>2
<1> HIDE DEF B
<1>4. ASSUME NEW i \in 1..Len(r)
      PROVE  IF IsConnect(r[i]) THEN B[i] = r[i].block /\ Fits(B[i], B[i - 1]) ELSE B[i] = B[i - 1]
  <2>1. CASE i \in 1..n
    <3>1. B[i] = A[i] /\ B[i - 1] = A[i - 1] /\ r[i] = q[i]
      BY <1>1, <1>3, <2>1
    <3> QED
      BY <2>1, <3>1 DEF Announces, n
  <2>2. CASE i \notin 1..n
    <3> DEFINE j == i - n
    <3>1. j \in 1..k /\ i = n + j
      BY SMTT(20), <1>0, <1>1, <2>2
    <3> HIDE DEF j
    <3>2. IsConnect(r[i]) /\ B[i] = r[i].block /\ B[i] = s[j]
      BY <1>0, <1>1, <1>3, <3>1
    <3>3. CASE j = 1
      <4>1. i - 1 = n /\ n \in 0..n
        BY <1>1, <3>1, <3>3
      <4>2. B[i - 1] = A[n]
        BY <1>3, <4>1
      <4> QED
        BY <3>2, <3>3, <4>2 DEF n
    <3>4. CASE j # 1
      <4> DEFINE l == j - 1
      <4>1. l \in 1..(k - 1) /\ l \in 1..k /\ j = l + 1 /\ i - 1 = n + l
        BY <1>0, <1>1, <3>1, <3>4
      <4> HIDE DEF l
      <4>2. B[i - 1] = s[l] /\ Prev(s[j]) = s[l]
        BY <1>0, <1>3, <4>1
      <4> QED
        BY <3>2, <4>2 DEF Fits, Chain
    <3> QED
      BY <3>3, <3>4
  <2> QED
    BY <2>1, <2>2
<1>5. Prolongs(q, A, r, B)
  <2>1. Announces(r, B)
    BY Zenon, <1>1, <1>3, <1>4 DEF Announces
  <2>2. n <= Len(r)
    BY <1>0, <1>1
  <2> QED
    BY Zenon, <1>1, <1>3, <2>1, <2>2 DEF Prolongs, n
<1>6. B[Len(r)] = s[k] /\ n + 1 <= Len(r) /\ IsConnect(r[n + 1]) /\ B[n + 1] = s[1]
  <2>1. k \in 1..k /\ 1 \in 1..k
    BY <1>0
  <2> QED
    BY <1>0, <1>1, <1>3, <2>1
<1> QED
  BY <1>5, <1>6 DEF EndsIn, n, k, r

LEMMA ProlongsReaches ==
  ASSUME NEW q \in Seq(Event), NEW A, NEW r, NEW B, Prolongs(q, A, r, B),
         NEW n \in 0..Len(q), NEW m \in n..Len(r), NEW c, NEW x, Reaches(q, A, n, c, x)
  PROVE  Reaches(r, B, m, c, x)
BY DEF Prolongs, Reaches

\* A delivery takes the first event away.
LEMMA TailAnnounces ==
  ASSUME NEW q \in Seq(Event), q # <<>>, NEW A, Announces(q, A),
         NEW B, B = [i \in 0..(Len(q) - 1) |-> A[i + 1]]
  PROVE  /\ Announces(Tail(q), B) /\ Tail(q) \in Seq(Event) /\ Len(Tail(q)) = Len(q) - 1 /\ Len(q) \in Nat \ {0}
         /\ \A i \in 1..(Len(q) - 1) : Tail(q)[i] = q[i + 1]
         /\ \A i \in 0..(Len(q) - 1) : B[i] = A[i + 1]
<1> DEFINE n == Len(q)
           r == Tail(q)
<1>1. n \in Nat \ {0} /\ r \in Seq(Event) /\ Len(r) = n - 1 /\ \A i \in 1..(n - 1) : r[i] = q[i + 1]
  OBVIOUS
<1>2. \A i \in 0..n : A[i] \in Block \cup {NoBlock}
  BY DEF Announces
<1> HIDE DEF r
<1>3. B \in [0..(n - 1) -> Block \cup {NoBlock}] /\ \A i \in 0..(n - 1) : B[i] = A[i + 1]
  BY <1>1, <1>2
<1>4. ASSUME NEW i \in 1..(n - 1)
      PROVE  IF IsConnect(r[i]) THEN B[i] = r[i].block /\ Fits(B[i], B[i - 1]) ELSE B[i] = B[i - 1]
  <2> DEFINE j == i + 1
  <2>1. j \in 1..n /\ r[i] = q[j] /\ B[i] = A[j] /\ B[i - 1] = A[j - 1]
    BY <1>1, <1>3
  <2> HIDE DEF j
  <2> QED
    BY <2>1 DEF Announces
<1> QED
  BY <1>1, <1>3, <1>4 DEF Announces, r

\* An index the first event does not fit waits for the same block as before.
LEMMA TailReaches ==
  ASSUME NEW q \in Seq(Event), q # <<>>, NEW A, Announces(q, A),
         NEW n \in 1..Len(q), NEW c, NEW x, Reaches(q, A, n, c, x),
         ~(IsConnect(q[1]) /\ Fits(A[1], c)),
         NEW B, B = [i \in 0..(Len(q) - 1) |-> A[i + 1]]
  PROVE  Reaches(Tail(q), B, n - 1, c, x)
<1>1. /\ Len(q) \in Nat \ {0}
      /\ \A i \in 1..(Len(q) - 1) : Tail(q)[i] = q[i + 1]
      /\ \A i \in 0..(Len(q) - 1) : B[i] = A[i + 1]
  BY TailAnnounces
<1>2. CASE x \in Chain(c)
  BY <1>2 DEF Reaches
<1>3. CASE x \notin Chain(c)
  <2>1. PICK i \in 1..n : IsConnect(q[i]) /\ Fits(A[i], c)
    BY <1>3 DEF Reaches
  <2> DEFINE j == i - 1
  <2>2. j \in 1..(n - 1) /\ j \in 1..(Len(q) - 1) /\ j \in 0..(Len(q) - 1) /\ i = j + 1
    BY <1>1, <2>1
  <2> HIDE DEF j
  <2>3. Tail(q)[j] = q[i] /\ B[j] = A[i]
    BY <1>1, <2>2
  <2> QED
    BY Zenon, <2>1, <2>2, <2>3 DEF Reaches
<1> QED
  BY <1>2, <1>3

\* An index that takes the first event goes along with the announced chain.
LEMMA TakeReaches ==
  ASSUME NEW q \in Seq(Event), q # <<>>, NEW A, Announces(q, A),
         NEW n \in 1..Len(q), NEW x, x \in Chain(A[n]),
         NEW B, B = [i \in 0..(Len(q) - 1) |-> A[i + 1]]
  PROVE  Reaches(Tail(q), B, n - 1, A[1], x)
<1>1. /\ Len(q) \in Nat \ {0}
      /\ \A i \in 1..(Len(q) - 1) : Tail(q)[i] = q[i + 1]
      /\ \A i \in 0..(Len(q) - 1) : B[i] = A[i + 1]
  BY TailAnnounces
<1>2. CASE A[n] = A[1]
  BY <1>2 DEF Reaches
<1>3. CASE A[n] # A[1]
  <2>1. PICK i \in 2..n : IsConnect(q[i]) /\ Fits(A[i], A[1])
    BY <1>1, <1>3, FirstConnect, 1 \in 0..Len(q), 1 + 1 = 2
  <2> DEFINE j == i - 1
  <2>2. j \in 1..(n - 1) /\ j \in 1..(Len(q) - 1) /\ j \in 0..(Len(q) - 1) /\ i = j + 1
    BY <1>1, <2>1
  <2> HIDE DEF j
  <2>3. Tail(q)[j] = q[i] /\ B[j] = A[i]
    BY <1>1, <2>2
  <2> QED
    BY Zenon, <2>1, <2>2, <2>3 DEF Reaches
<1> QED
  BY <1>2, <1>3

\* x is on the chain announced by the first n events and, when the index is
\* listening, at c, these events get it to that chain.
Owed(q, A, n, x, on, c) == x \in Chain(A[n]) /\ (on => Reaches(q, A, n, c, x))

\* A reader waits for the one Promise of the queue, and gets what it was promised.
Awaits(q, A, on, c, r) ==
  IF r.state = "waiting"
  THEN \E p \in 1..Len(q) : /\ \A i \in 1..Len(q) : q[i].type = "Promise" <=> i = p
                            /\ Owed(q, A, p - 1, r.tip, on, c)
  ELSE \A i \in 1..Len(q) : q[i].type # "Promise"

\* The queue q of a node whose chain is at t, with an index at c and a reader r.
Backlog(q, t, on, c, r) ==
  \E A : Announces(q, A) /\ Owed(q, A, Len(q), t, on, c) /\ Awaits(q, A, on, c, r)

LEMMA BacklogEmpty ==
  ASSUME NEW t \in Block \cup {NoBlock}, NEW on, NEW c, on => t \in Chain(c), NEW r, r.state # "waiting"
  PROVE  Backlog(<<>>, t, on, c, r)
<1> DEFINE A == [i \in 0..0 |-> t]
           q == <<>>
<1>1. Len(q) = 0 /\ A \in [0..0 -> Block \cup {NoBlock}] /\ A[0] = t
  OBVIOUS
<1> HIDE DEF A, q
<1>2. Announces(q, A) /\ Awaits(q, A, on, c, r)
  BY SMTT(20), <1>1 DEF Announces, Awaits
<1>3. Owed(q, A, Len(q), t, on, c)
  BY <1>1 DEF Owed, Reaches, Chain
<1> QED
  BY <1>2, <1>3 DEF Backlog, q

\* A step that leaves the queue alone.
LEMMA BacklogSame ==
  ASSUME NEW q, NEW t, NEW on, NEW c, NEW r, Backlog(q, t, on, c, r),
         NEW on2, NEW c2, on2 => on /\ c2 = c
  PROVE  Backlog(q, t, on2, c2, r)
BY DEF Backlog, Owed, Awaits

\* The sync thread is done, and the index starts to listen.
LEMMA BacklogListens ==
  ASSUME NEW q, NEW t, NEW on, NEW c, NEW r, Backlog(q, t, on, c, r), r.state # "waiting",
         NEW on2, NEW c2, t \in Chain(c2)
  PROVE  Backlog(q, t, on2, c2, r)
BY DEF Backlog, Owed, Awaits, Reaches

LEMMA BacklogReader ==
  ASSUME NEW q, NEW t, NEW on, NEW c, NEW r, Backlog(q, t, on, c, r), r.state # "waiting",
         NEW r2, r2.state # "waiting"
  PROVE  Backlog(q, t, on, c, r2)
BY DEF Backlog, Awaits

\* The tip goes down.
LEMMA BacklogDown ==
  ASSUME NEW q \in Seq(Event), NEW t, NEW on, NEW c \in Block \cup {NoBlock}, NEW r, Backlog(q, t, on, c, r),
         NEW t2 \in Chain(t)
  PROVE  Backlog(q, t2, on, c, r)
<1>1. PICK A : Announces(q, A) /\ Owed(q, A, Len(q), t, on, c) /\ Awaits(q, A, on, c, r)
  BY DEF Backlog
<1>2. A[Len(q)] \in Block \cup {NoBlock}
  BY <1>1, Len(q) \in 0..Len(q) DEF Announces
<1>3. t2 \in Chain(A[Len(q)]) /\ (t \in Chain(c) => t2 \in Chain(c))
  BY <1>1, <1>2, ChainIs DEF Owed
<1>4. Owed(q, A, Len(q), t2, on, c)
  BY <1>1, <1>3 DEF Owed, Reaches
<1> QED
  BY <1>1, <1>4 DEF Backlog

LEMMA AwaitsProlongs ==
  ASSUME NEW q \in Seq(Event), NEW A, NEW s, NEW B, Prolongs(q, A, s, B),
         \A i \in (Len(q) + 1)..Len(s) : s[i].type # "Promise",
         NEW on, NEW c, NEW r, Awaits(q, A, on, c, r)
  PROVE  Awaits(s, B, on, c, r)
<1>0. /\ Len(q) \in Nat /\ Len(s) \in Nat /\ Len(q) <= Len(s)
      /\ \A i \in 1..Len(q) : s[i] = q[i]
      /\ \A i \in 0..Len(q) : B[i] = A[i]
      /\ \A i \in 1..Len(s) : i \in 1..Len(q) \/ i \in (Len(q) + 1)..Len(s)
  BY DEF Prolongs
<1>1. CASE r.state # "waiting"
  BY <1>0, <1>1 DEF Awaits
<1>2. CASE r.state = "waiting"
  <2>1. PICK p \in 1..Len(q) : /\ \A i \in 1..Len(q) : q[i].type = "Promise" <=> i = p
                               /\ Owed(q, A, p - 1, r.tip, on, c)
    BY <1>2 DEF Awaits
  <2> DEFINE n == p - 1
  <2>2. n \in 0..Len(q) /\ n \in n..Len(s) /\ p \in 1..Len(s)
    BY <1>0, <2>1
  <2>3. \A i \in 1..Len(s) : s[i].type = "Promise" <=> i = p
    BY <1>0, <2>1
  <2> HIDE DEF n
  <2>4. on => Reaches(s, B, n, c, r.tip)
    BY SMTT(20), <2>1, <2>2, ProlongsReaches DEF Owed, n
  <2>5. r.tip \in Chain(B[n])
    BY <1>0, <2>1, <2>2 DEF Owed, n
  <2> QED
    BY <1>2, <2>2, <2>3, <2>4, <2>5 DEF Awaits, Owed, n
<1> QED
  BY <1>1, <1>2

\* A flush, or a reader's Promise, goes to the end of the queue.
LEMMA BacklogAppend ==
  ASSUME NEW q \in Seq(Event), NEW t, NEW on, NEW c, NEW r, Backlog(q, t, on, c, r),
         NEW e \in Event, ~IsConnect(e), NEW r2,
         \/ e.type # "Promise" /\ r2 = r
         \/ e.type = "Promise" /\ r.state # "waiting" /\ r2.state = "waiting" /\ r2.tip = t
  PROVE  Backlog(Append(q, e), t, on, c, r2)
<1> DEFINE n == Len(q)
           s == Append(q, e)
<1>1. PICK A : Announces(q, A) /\ Owed(q, A, n, t, on, c) /\ Awaits(q, A, on, c, r)
  BY SMTT(20) DEF Backlog
<1>2. PICK B : Prolongs(q, A, s, B) /\ B[n + 1] = A[n]
  BY <1>1, AppendProlongs
<1>3. /\ n \in Nat /\ Len(s) = n + 1 /\ s[n + 1] = e /\ \A i \in (n + 1)..(n + 1) : i = n + 1
      /\ n \in 0..n /\ n + 1 \in n..Len(s) /\ n \in n..Len(s) /\ n + 1 \in 1..(n + 1) /\ (n + 1) - 1 = n
      /\ \A i \in 1..(n + 1) : i \in 1..n \/ i = n + 1
  OBVIOUS
<1> HIDE DEF s
<1>4. Owed(s, B, Len(s), t, on, c)
  <2>1. on => Reaches(s, B, n + 1, c, t)
    BY SMTT(20), <1>1, <1>2, <1>3, ProlongsReaches DEF Owed
  <2> QED
    BY <1>1, <1>2, <1>3, <2>1 DEF Owed
<1>5. Awaits(s, B, on, c, r2)
  <2>1. CASE e.type # "Promise" /\ r2 = r
    BY <1>1, <1>2, <1>3, <2>1, AwaitsProlongs
  <2>2. CASE e.type = "Promise" /\ r.state # "waiting" /\ r2.state = "waiting" /\ r2.tip = t
    <3>1. \A i \in 1..(n + 1) : s[i].type = "Promise" <=> i = n + 1
      BY <1>1, <1>2, <1>3, <2>2 DEF Awaits, Prolongs
    <3>2. on => Reaches(s, B, n, c, t)
      BY <1>1, <1>2, <1>3, ProlongsReaches DEF Owed
    <3>3. Owed(s, B, n, t, on, c)
      BY <1>1, <1>2, <1>3, <3>2 DEF Owed, Prolongs
    <3> QED
      BY <1>3, <2>2, <3>1, <3>3 DEF Awaits
  <2> QED
    BY <2>1, <2>2
<1> QED
  BY <1>2, <1>4, <1>5 DEF Backlog, Prolongs, s

\* The news of a better chain follow on from the chain at t.
LEMMA BacklogNews ==
  ASSUME NEW q \in Seq(Event), NEW t \in Block \cup {NoBlock}, NEW on, NEW c \in Block \cup {NoBlock},
         NEW r, Backlog(q, t, on, c, r),
         NEW s, NEW news, IsNews(news, s), Prev(s[1]) \in Chain(t)
  PROVE  Backlog(q \o news, s[Len(s)], on, c, r)
<1> DEFINE n == Len(q)
           w == q \o news
           b == s[Len(s)]
<1>1. PICK A : Announces(q, A) /\ Owed(q, A, n, t, on, c) /\ Awaits(q, A, on, c, r)
  BY DEF Backlog
<1>2. /\ Len(s) \in Nat \ {0} /\ b \in Block /\ news \in Seq(Event) /\ Len(news) = Len(s)
      /\ \A i \in 1..Len(s) : IsConnect(news[i])
  BY SMTT(20) DEF IsNews
<1>3. A[n] \in Block \cup {NoBlock} /\ t \in Chain(A[n]) /\ n \in Nat /\ n \in 0..n
  BY <1>1 DEF Announces, Owed
<1>4. Fits(s[1], A[n]) /\ (t \in Chain(c) => Fits(s[1], c))
  <2>1. \A d \in Block \cup {NoBlock} : t \in Chain(d) => Chain(t) \subseteq Chain(d)
    BY Zenon, ChainIs
  <2> QED
    BY Zenon, <1>3, <2>1 DEF Fits
<1>5. PICK B : EndsIn(q, A, s, w, B)
  BY <1>1, <1>4, NewsProlong, Zenon
<1>6. /\ Prolongs(q, A, w, B) /\ B[Len(w)] = s[Len(s)]
      /\ n + 1 <= Len(w) /\ IsConnect(w[n + 1]) /\ B[n + 1] = s[1]
  BY <1>5 DEF EndsIn
<1>7. \A i \in (n + 1)..Len(w) : w[i].type # "Promise"
  <2>1. /\ Len(w) = n + Len(news)
        /\ \A i \in 1..(n + Len(news)) : w[i] = IF i <= n THEN q[i] ELSE news[i - n]
    BY <1>2, ConcatIs, Zenon
  <2> HIDE DEF w, n
  <2>2. ASSUME NEW i \in (n + 1)..Len(w) PROVE w[i].type # "Promise"
    <3> DEFINE j == i - n
    <3>1. j \in 1..Len(s) /\ w[i] = news[j]
      BY <1>2, <1>3, <2>1
    <3> HIDE DEF j
    <3> QED
      BY <1>2, <3>1 DEF IsConnect
  <2> QED
    BY <2>2
<1>8. Len(w) \in Nat /\ Len(w) \in n..Len(w) /\ n + 1 \in 1..Len(w)
  BY SMTT(20), <1>3, <1>6 DEF Prolongs
<1> HIDE DEF w, n, b
<1>9. on => Reaches(w, B, Len(w), c, b)
  <2> SUFFICES ASSUME on PROVE Reaches(w, B, Len(w), c, b)
    OBVIOUS
  <2>1. CASE t \in Chain(c)
    BY <1>4, <1>6, <1>8, <2>1 DEF Reaches
  <2>2. CASE t \notin Chain(c)
    <3>1. PICK i \in 1..n : IsConnect(q[i]) /\ Fits(A[i], c)
      BY <1>1, <2>2 DEF Owed, Reaches
    <3>2. i \in 1..Len(w) /\ w[i] = q[i] /\ B[i] = A[i]
      BY SMTT(20), <1>3, <1>6, <1>8 DEF Prolongs, n
    <3> QED
      BY <3>1, <3>2 DEF Reaches
  <2> QED
    BY <2>1, <2>2
<1>10. Owed(w, B, Len(w), b, on, c)
  BY Zenon, <1>2, <1>6, <1>9, ChainIs DEF Owed, b
<1>11. Awaits(w, B, on, c, r)
  BY Zenon, <1>1, <1>6, <1>7, AwaitsProlongs DEF n
<1> QED
  BY Zenon, <1>6, <1>10, <1>11 DEF Backlog, Prolongs, w, b

\* A delivery: the index leaves the event aside when it does not fit, or takes
\* the block of it.
LEMMA BacklogTail ==
  ASSUME NEW q \in Seq(Event), q # <<>>, NEW t, NEW on, NEW c, NEW r, Backlog(q, t, on, c, r),
         NEW on2, NEW c2,
         on2 => \/ on /\ c2 = c /\ ~(IsConnect(q[1]) /\ Fits(q[1].block, c))
                \/ IsConnect(q[1]) /\ c2 = q[1].block,
         NEW r2, r2 = r \/ r2.state # "waiting",
         q[1].type = "Promise" <=> r.state = "waiting" /\ r2.state # "waiting"
  PROVE  Backlog(Tail(q), t, on2, c2, r2)
<1>1. PICK A : Announces(q, A) /\ Owed(q, A, Len(q), t, on, c) /\ Awaits(q, A, on, c, r)
  BY DEF Backlog
<1> DEFINE B == [i \in 0..(Len(q) - 1) |-> A[i + 1]]
           s == Tail(q)
<1>2. /\ Announces(s, B) /\ s \in Seq(Event) /\ Len(s) = Len(q) - 1 /\ Len(q) \in Nat \ {0}
      /\ \A i \in 1..(Len(q) - 1) : s[i] = q[i + 1]
      /\ \A i \in 0..(Len(q) - 1) : B[i] = A[i + 1]
  BY <1>1, TailAnnounces
<1>3. IsConnect(q[1]) => A[1] = q[1].block
  BY SMTT(20), <1>1, <1>2, 1 \in 1..Len(q) DEF Announces
<1>4. ASSUME NEW n \in 1..Len(q), NEW x, Owed(q, A, n, x, on, c)
      PROVE  Owed(s, B, n - 1, x, on2, c2)
  <2>1. x \in Chain(B[n - 1])
    <3> DEFINE m == n - 1
    <3>1. m \in 0..(Len(q) - 1) /\ m + 1 = n
      BY <1>2
    <3> HIDE DEF m, B
    <3>2. B[m] = A[n]
      BY <1>2, <3>1
    <3> QED
      BY <1>4, <3>2 DEF Owed, m
  <2>2. CASE ~on2
    BY <2>1, <2>2 DEF Owed
  <2>3. CASE on /\ c2 = c /\ ~(IsConnect(q[1]) /\ Fits(q[1].block, c))
    <3>1. Reaches(s, B, n - 1, c, x)
      BY <1>1, <1>3, <1>4, <2>3, TailReaches DEF Owed
    <3> QED
      BY <2>1, <2>3, <3>1 DEF Owed
  <2>4. CASE IsConnect(q[1]) /\ c2 = q[1].block
    <3>1. Reaches(s, B, n - 1, A[1], x)
      BY <1>1, <1>4, TakeReaches DEF Owed
    <3> QED
      BY <1>3, <2>1, <2>4, <3>1 DEF Owed
  <2> QED
    BY <2>2, <2>3, <2>4
<1> HIDE DEF B, s
<1>5. Owed(s, B, Len(s), t, on2, c2)
  <2>1. Len(q) \in 1..Len(q) /\ Len(s) = Len(q) - 1
    BY <1>2
  <2>2. Owed(s, B, Len(q) - 1, t, on2, c2)
    BY Zenon, <1>1, <1>4, <2>1
  <2> QED
    BY Zenon, <2>1, <2>2
<1>6. Awaits(s, B, on2, c2, r2)
  <2>1. CASE r.state # "waiting"
    BY SMTT(20), <1>1, <1>2, <2>1 DEF Awaits
  <2>2. CASE r.state = "waiting"
    <3>1. PICK p \in 1..Len(q) : /\ \A i \in 1..Len(q) : q[i].type = "Promise" <=> i = p
                                 /\ Owed(q, A, p - 1, r.tip, on, c)
      BY <1>1, <2>2 DEF Awaits
    <3>2. \A i \in 1..(Len(q) - 1) : i + 1 \in 1..Len(q) /\ (s[i].type = "Promise" <=> i + 1 = p)
      BY <1>2, <3>1
    <3>3. CASE p = 1
      <4>1. r2.state # "waiting"
        BY <1>2, <2>2, <3>1, <3>3
      <4>2. \A i \in 1..Len(s) : s[i].type # "Promise"
        BY <1>2, <3>2, <3>3
      <4> QED
        BY <4>1, <4>2 DEF Awaits
    <3>4. CASE p # 1
      <4> DEFINE n == p - 1
      <4>1. n \in 1..Len(q) /\ n \in 1..Len(s) /\ q[1].type # "Promise" /\ 1 \in 1..Len(q)
        BY SMTT(20), <1>2, <3>1, <3>4
      <4>2. r2 = r
        BY <2>2, <4>1
      <4>3. \A i \in 1..Len(s) : s[i].type = "Promise" <=> i = n
        BY <1>2, <3>1, <3>2
      <4>4. Owed(s, B, n - 1, r.tip, on2, c2)
        BY <1>4, <3>1, <4>1
      <4> HIDE DEF n
      <4> QED
        BY <2>2, <4>1, <4>2, <4>3, <4>4 DEF Awaits
    <3> QED
      BY <3>3, <3>4
  <2> QED
    BY <2>1, <2>2
<1> QED
  BY <1>2, <1>5, <1>6 DEF Backlog, s
-----------------------------------------------------------------------------
(* What readers see. *)

\* Where a listening index will be once the handler at work is done.
Current == IF handling = NoBlock THEN best ELSE handling
Listens == synced /\ ~fatal

\* What makes ReadersSeeTip inductive.
Kept ==
  /\ Backlog(queue, tip, Listens, Current, reader)
  /\ reader.state = "waiting" => synced
  /\ pc \in {"top", "write"} => tip # NoBlock
  /\ ReadersSeeTip

LEMMA KeptInit == Init => Kept
<1> SUFFICES ASSUME Init PROVE Kept
  OBVIOUS
<1>1. /\ tip \in Block \cup {NoBlock} /\ queue = <<>> /\ reader.state = "idle"
      /\ (synced => tip = NoBlock) /\ Current = NoBlock /\ (pc \in {"top", "write"} => tip # NoBlock)
  BY Zenon, ParentInBlock DEF Init, Reader, Current
<1>2. Listens => tip \in Chain(Current)
  BY <1>1 DEF Listens, Chain
<1>3. Backlog(<<>>, tip, Listens, Current, reader)
  BY Zenon, <1>1, <1>2, BacklogEmpty
<1> QED
  BY <1>1, <1>3 DEF Kept, ReadersSeeTip

LEMMA KeptReload ==
  ASSUME NEW l \in Block \cup {NoBlock}, NEW t \in Block \cup {NoBlock}, Reload(l, t)
  PROVE  Kept'
<1>1. /\ tip' = t /\ queue' = <<>> /\ reader'.state = "idle" /\ handling' = NoBlock
      /\ best' = FindFork(l, t) /\ (synced' <=> best' = t) /\ (pc' \in {"top", "write"} => ~synced')
  BY Zenon DEF Reload, StartIndex, Reader
<1>2. t = NoBlock => best' = t
  BY <1>1, ForkIs
<1>3. Listens' => t \in Chain(Current')
  BY <1>1 DEF Listens, Chain, Current
<1>4. Backlog(<<>>, t, Listens', Current', reader')
  BY Zenon, <1>1, <1>3, BacklogEmpty
<1> QED
  BY <1>1, <1>2, <1>4 DEF Kept, ReadersSeeTip

\* The events of ActivateBestChain are the news of a chain from the fork.
LEMMA NewsIs ==
  ASSUME NEW t \in Block \cup {NoBlock}, NEW b \in Block, HeightOf(b) > HeightOf(t),
         NEW s, s = ToConnect(t, b)
  PROVE  /\ IsNews([i \in DOMAIN s |-> Connected(s[i])], s)
         /\ Prev(s[1]) \in Chain(t) /\ s[Len(s)] = b
<1>1. /\ s \in Seq(Block) /\ Len(s) \in Nat \ {0}
      /\ Prev(s[1]) = FindFork(t, b)
      /\ \A i \in 1..(Len(s) - 1) : Prev(s[i + 1]) = s[i]
      /\ s[Len(s)] = b
  BY ToConnectIs
<1>2. FindFork(t, b) \in Chain(t)
  BY ForkIs, ParentInBlock DEF Chain
<1> DEFINE news == [i \in DOMAIN s |-> Connected(s[i])]
<1>3. /\ news \in Seq(Event) /\ Len(news) = Len(s)
      /\ \A i \in 1..Len(s) : IsConnect(news[i]) /\ news[i].block = s[i]
  BY SMTT(20), <1>1, EventsTyped DEF Typed, IsConnect
<1> HIDE DEF news
<1>4. IsNews(news, s)
  BY <1>1, <1>3 DEF IsNews
<1> QED
  BY <1>1, <1>2, <1>4 DEF news

LEMMA KeptStep ==
  ASSUME Types, Filled, Kept, Next
  PROVE  Kept'
<1> USE DEF chainVars, syncVars
<1>0. /\ queue \in Seq(Event) /\ tip \in Block \cup {NoBlock} /\ flushed \in Block \cup {NoBlock}
      /\ best \in Block \cup {NoBlock} /\ pindex \in Block \cup {NoBlock} /\ locator \in Block \cup {NoBlock}
      /\ Current \in Block \cup {NoBlock} /\ NoBlock \notin Block
      /\ Backlog(queue, tip, Listens, Current, reader)
  BY ParentInBlock DEF Types, TypeOK, Kept, Current
<1>1. /\ synced => UpTo(best) \subseteq written
      /\ pc \in {"top", "write"} => ~synced /\ reader.state # "waiting" /\ handling = NoBlock
  BY DEF Filled, Ahead, Exposed, Kept
<1>2. ASSUME UNCHANGED <<handling, best, synced, pc, written, reader, fatal>>,
             tip' = tip \/ tip' # NoBlock, Backlog(queue', tip', Listens, Current, reader)
      PROVE  Kept'
  BY <1>2 DEF Kept, Listens, Current, ReadersSeeTip
<1>3. ASSUME NEW b \in Block, ActivateBestChain(b) PROVE Kept'
  <2> DEFINE s == ToConnect(tip, b)
             news == [i \in DOMAIN s |-> Connected(s[i])]
  <2>1. IsNews(news, s) /\ Prev(s[1]) \in Chain(tip) /\ s[Len(s)] = b
    BY Zenon, <1>0, <1>3, NewsIs DEF ActivateBestChain
  <2>2. CASE queue' = queue \o news
    <3> HIDE DEF s, news
    <3>1. Backlog(queue \o news, b, Listens, Current, reader)
      BY <1>0, <2>1, BacklogNews
    <3> QED
      BY <1>0, <1>2, <1>3, <2>2, <3>1 DEF ActivateBestChain
  <2>3. CASE tip # NoBlock /\ \E w \in Walk(tip, b) : queue' = Append(queue, Flushed(w[1])) \o news
    <3> HIDE DEF s, news
    <3>1. PICK w \in Walk(tip, b) : queue' = Append(queue, Flushed(w[1])) \o news
      BY <2>3
    <3> DEFINE e == Flushed(w[1])
               q == Append(queue, e)
    <3>2. e \in Event /\ e.type = "ChainStateFlushed"
      BY Zenon, <1>0, <1>3, <2>3, WalkIs, EventsTyped DEF ActivateBestChain, Typed
    <3> HIDE DEF e
    <3>3. q \in Seq(Event) /\ Backlog(q, tip, Listens, Current, reader)
      BY <1>0, <3>2, BacklogAppend DEF IsConnect
    <3> HIDE DEF q
    <3>4. Backlog(q \o news, b, Listens, Current, reader)
      BY <1>0, <2>1, <3>3, BacklogNews
    <3> QED
      BY <1>0, <1>2, <1>3, <3>1, <3>4 DEF ActivateBestChain, q, e
  <2> QED
    BY Zenon, <1>3, <2>2, <2>3 DEF ActivateBestChain
<1>4. CASE InvalidateBlock
  <2>1. tip \in Block \ {Genesis} /\ Parent[tip] \in Block /\ Parent[tip] \in Chain(tip)
    BY <1>0, <1>4, ParentInBlock, NotBelowParent DEF InvalidateBlock, Chain, UpTo
  <2>2. Backlog(queue, Parent[tip], Listens, Current, reader)
    BY <1>0, <2>1, BacklogDown
  <2>3. Flushed(tip) \in Event /\ Flushed(tip).type = "ChainStateFlushed"
    BY <2>1, EventsTyped DEF Typed
  <2>4. Backlog(Append(queue, Flushed(tip)), Parent[tip], Listens, Current, reader)
    BY <1>0, <2>2, <2>3, BacklogAppend DEF IsConnect
  <2> QED
    BY Zenon, <1>0, <1>2, <1>4, <2>1, <2>2, <2>4 DEF InvalidateBlock
<1>5. CASE FlushStateToDisk
  <2>1. tip \in Block
    BY <1>0, <1>5 DEF FlushStateToDisk
  <2>2. Flushed(tip) \in Event /\ Flushed(tip).type = "ChainStateFlushed"
    BY <2>1, EventsTyped DEF Typed
  <2>3. Backlog(Append(queue, Flushed(tip)), tip, Listens, Current, reader)
    BY <1>0, <2>2, BacklogAppend DEF IsConnect
  <2> QED
    BY <1>2, <1>5, <2>3 DEF FlushStateToDisk
<1>6. CASE SyncDone
  <2>1. tip \in Chain(pindex)
    BY <1>0, <1>6, NextSyncBlockIs DEF SyncDone, Kept, Chain
  <2>2. Current' = pindex /\ reader.state # "waiting"
    BY <1>1, <1>6 DEF SyncDone, Current
  <2>3. Backlog(queue, tip, Listens', pindex, reader)
    BY <1>0, <2>1, <2>2, BacklogListens
  <2> QED
    BY <1>6, <2>2, <2>3 DEF SyncDone, Kept, ReadersSeeTip
<1>7. CASE SyncAdvance \/ SyncRewind \/ SyncWrite
  <2>1. /\ ~synced /\ reader.state # "waiting" /\ UNCHANGED <<queue, tip, synced, reader>>
        /\ pc \in {"top", "write"} /\ written \subseteq written' /\ (fatal => fatal')
    BY SMTT(20), <1>1, <1>7 DEF SyncAdvance, SyncRewind, SyncWrite, RewindSucceeds, RewindFails
  <2>2. Backlog(queue, tip, Listens', Current', reader)
    BY Zenon, <1>0, <2>1, BacklogSame DEF Listens
  <2> QED
    BY <2>1, <2>2 DEF Kept, ReadersSeeTip
<1>8. CASE WriteBlock
  <2>1. /\ UNCHANGED <<queue, tip, synced, reader, pc>> /\ written \subseteq written' /\ (fatal => fatal')
        /\ Listens' => Listens /\ Current' = Current
    BY <1>8 DEF WriteBlock, Listens, Current
  <2>2. Backlog(queue, tip, Listens', Current', reader)
    BY <1>0, <2>1, BacklogSame
  <2> QED
    BY <2>1, <2>2 DEF Kept, ReadersSeeTip
<1>9. ASSUME NEW type, Deliver(type)
      PROVE  /\ queue # <<>> /\ queue[1] = Head(queue) /\ queue[1].type = type /\ queue' = Tail(queue)
             /\ Current = best /\ handling = NoBlock
  BY <1>0, <1>9 DEF Deliver, Current
<1>10. CASE BlockConnected
  <2> DEFINE b == Head(queue).block
  <2>1. /\ queue # <<>> /\ queue[1] = Head(queue) /\ queue[1].type = "BlockConnected" /\ queue' = Tail(queue)
        /\ Current = best /\ handling = NoBlock
    BY <1>9, <1>10 DEF BlockConnected
  <2>2. b \in Block
    BY <1>0, <2>1, TailTyped DEF Types, Typed
  <2>3. Connectable(b) <=> Fits(b, best)
    BY <1>0, <2>2, ParentInBlock, UpToIs DEF Connectable, Fits, Chain, Prev
  <2>4. Listens' => \/ Listens /\ Current' = Current /\ ~(IsConnect(queue[1]) /\ Fits(queue[1].block, Current))
                    \/ IsConnect(queue[1]) /\ Current' = queue[1].block
    BY Zenon, <1>0, <1>10, <2>1, <2>2, <2>3 DEF BlockConnected, RewindSucceeds, RewindFails, Listens, Current, IsConnect
  <2>5. queue[1].type = "Promise" <=> reader.state = "waiting" /\ reader.state # "waiting"
    BY <2>1
  <2>6. Backlog(Tail(queue), tip, Listens', Current', reader)
    BY Zenon, <1>0, <2>1, <2>4, <2>5, BacklogTail
  <2>7. UNCHANGED <<tip, synced, reader, pc, written>>
    BY <1>10 DEF BlockConnected
  <2>8. fatal => fatal'
    BY Zenon, <1>10 DEF BlockConnected, RewindSucceeds, RewindFails, Types, TypeOK
  <2> QED
    BY <2>1, <2>6, <2>7, <2>8 DEF Kept, ReadersSeeTip
<1>11. CASE ChainStateFlushed
  <2>1. /\ queue # <<>> /\ queue[1].type = "ChainStateFlushed" /\ queue' = Tail(queue)
        /\ UNCHANGED <<tip, handling, best, synced, pc, written, reader, fatal>>
    BY <1>9, <1>11 DEF ChainStateFlushed
  <2>2. /\ ~IsConnect(queue[1])
        /\ queue[1].type = "Promise" <=> reader.state = "waiting" /\ reader.state # "waiting"
    BY <2>1 DEF IsConnect
  <2>3. Backlog(Tail(queue), tip, Listens, Current, reader)
    BY Zenon, <1>0, <2>1, <2>2, BacklogTail
  <2> QED
    BY <1>2, <2>1, <2>3
<1>12. CASE PromiseSet
  <2>1. /\ queue # <<>> /\ queue[1].type = "Promise" /\ queue' = Tail(queue) /\ Current = best
        /\ UNCHANGED <<tip, handling, best, synced, pc, written, fatal>>
    BY <1>9, <1>12 DEF PromiseSet
  <2>2. Len(queue) \in Nat /\ 1 \in 1..Len(queue)
    BY <1>0, <2>1
  <2>3. PICK A : Awaits(queue, A, Listens, best, reader)
    BY <1>0, <2>1 DEF Backlog
  <2>4. reader.state = "waiting"
    BY <2>1, <2>2, <2>3 DEF Awaits
  <2>5. Owed(queue, A, 0, reader.tip, Listens, best)
    <3>1. PICK p \in 1..Len(queue) : /\ \A i \in 1..Len(queue) : queue[i].type = "Promise" <=> i = p
                                     /\ Owed(queue, A, p - 1, reader.tip, Listens, best)
      BY <2>3, <2>4 DEF Awaits
    <3>2. p = 1
      BY <2>1, <2>2, <3>1
    <3> QED
      BY <3>1, <3>2
  <2>6. Listens => UpTo(reader.tip) \subseteq written
    <3>1. Listens => reader.tip \in Chain(best)
      BY <2>5 DEF Owed, Reaches
    <3> QED
      BY <1>0, <1>1, <3>1, ChainIs DEF Listens
  <2>7. synced /\ reader'.state = "returned" /\ reader'.tip = reader.tip
    BY <1>12, <2>4 DEF PromiseSet, Kept, Types, TypeOK
  <2>8. ~IsConnect(queue[1])
    BY <2>1 DEF IsConnect
  <2>9. Backlog(Tail(queue), tip, Listens, Current, reader')
    BY Zenon, <1>0, <2>1, <2>4, <2>7, <2>8, BacklogTail
  <2> QED
    BY Zenon, <2>1, <2>6, <2>7, <2>9 DEF Kept, Listens, Current, ReadersSeeTip
<1>13. CASE ReaderCalls
  <2>1. CASE CaughtUp /\ reader' = Reader("returned", tip) /\ UNCHANGED queue
    <3>1. UpTo(tip) \subseteq written /\ reader.state # "waiting" /\ reader'.state = "returned" /\ reader'.tip = tip
      BY <1>0, <1>1, <1>13, <2>1, UpToTransitive DEF ReaderCalls, CaughtUp, Reader
    <3>2. Backlog(queue, tip, Listens, Current, reader')
      BY <1>0, <3>1, BacklogReader
    <3> QED
      BY <1>13, <2>1, <3>1, <3>2 DEF ReaderCalls, Kept, Listens, Current, ReadersSeeTip
  <2>2. CASE reader' = Reader("waiting", tip) /\ queue' = Append(queue, Promise)
    <3>1. Promise \in Event /\ Promise.type = "Promise"
      BY EventsTyped DEF Typed
    <3>2. reader.state # "waiting" /\ reader'.state = "waiting" /\ reader'.tip = tip /\ synced
      BY <1>13, <2>2 DEF ReaderCalls, Reader
    <3>3. Backlog(Append(queue, Promise), tip, Listens, Current, reader')
      BY <1>0, <3>1, <3>2, BacklogAppend DEF IsConnect
    <3> QED
      BY <1>13, <2>2, <3>2, <3>3 DEF ReaderCalls, Kept, Listens, Current, ReadersSeeTip
  <2> QED
    BY <1>13, <2>1, <2>2 DEF ReaderCalls
<1>14. CASE ReaderLeaves
  <2>1. reader.state # "waiting" /\ reader'.state = "idle"
    BY <1>14 DEF ReaderLeaves, Reader
  <2>2. Backlog(queue, tip, Listens, Current, reader')
    BY <1>0, <2>1, BacklogReader
  <2> QED
    BY <1>14, <2>1, <2>2 DEF ReaderLeaves, Kept, Listens, Current, ReadersSeeTip
<1>15. CASE Crash \/ SyncAborts \/ CleanRestart
  BY <1>0, <1>15, KeptReload DEF Crash, SyncAborts, CleanRestart
<1> QED
  BY <1>3, <1>4, <1>5, <1>6, <1>7, <1>8, <1>10, <1>11, <1>12, <1>13, <1>14, <1>15, Zenon DEF Next

(* Under the same condition, when BlockUntilSyncedToCurrentChain returns true
   in a node that is not shutting down, every block of the chain there was when
   it was called is in the index database: for every tree of blocks, however
   long the backlog of events, whatever stale branch they are of, and whether
   the sync thread or the handlers wrote the blocks. *)
THEOREM ReadersSeeTheirTip ==
  ASSUME LocatorLeads = FALSE
  PROVE  Spec => []ReadersSeeTip
<1> DEFINE IInv == Types /\ Filled /\ Kept
<1>1. Init => IInv
  BY TypesInit, FilledInit, KeptInit
<1>2. IInv /\ [Next]_vars => IInv'
  <2>1. CASE Next
    BY Zenon, <2>1, TypesStep, FilledStep, KeptStep
  <2>2. CASE UNCHANGED vars
    BY <2>2 DEF vars, Types, TypeOK, Filled, Ahead, Exposed, Kept, Listens, Current, ReadersSeeTip
  <2> QED
    BY <2>1, <2>2
<1>3. IInv => ReadersSeeTip
  BY DEF Kept
<1> QED
  BY <1>1, <1>2, <1>3, PTL DEF Spec
=============================================================================
