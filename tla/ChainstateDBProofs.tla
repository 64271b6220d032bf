-------------------------- MODULE ChainstateDBProofs --------------------------
(***************************************************************************)
(* Safety of ChainstateDB, for every tree of blocks, every set of          *)
(* transactions in which no output is created twice on a branch, and any   *)
(* number of crashes.                                                      *)
(*                                                                         *)
(* The argument goes through the unspent outputs in the middle of a block, *)
(* Mid(b, i): connecting moves a view from Mid(b, i - 1) to Mid(b, i),     *)
(* undoing moves it back, and both put right whatever output they touch,   *)
(* so that a view which has each output as of one of two tips ends exact   *)
(* when the one branch is undone and the other rolled forward.             *)
(***************************************************************************)
EXTENDS ChainstateDB, CommonProofs

-----------------------------------------------------------------------------
(* The constants. *)

LEMMA TxsAre ==
  /\ \A b \in Block : /\ Len(Txs[b]) \in Nat /\ DOMAIN Txs[b] = 1..Len(Txs[b])
                      /\ \A i \in 1..Len(Txs[b]) : /\ Txs[b][i].ins \subseteq Outpoint
                                                   /\ Txs[b][i].outs \subseteq Outpoint
  /\ Len(Txs[Genesis]) = 0
<1>1. ASSUME NEW b \in Block
      PROVE  /\ Len(Txs[b]) \in Nat /\ DOMAIN Txs[b] = 1..Len(Txs[b])
             /\ \A i \in 1..Len(Txs[b]) : Txs[b][i] \in [ins : SUBSET Outpoint, outs : SUBSET Outpoint]
  <2> DEFINE R == [ins : SUBSET Outpoint, outs : SUBSET Outpoint]
             s == Txs[b]
  <2>1. s \in Seq(R)
    BY Zenon, TxsAssumption DEF TxsAssumption
  <2> HIDE DEF R, s
  <2>2. Len(s) \in Nat /\ DOMAIN s = 1..Len(s) /\ \A i \in 1..Len(s) : s[i] \in R
    BY <2>1
  <2> QED
    BY Zenon, <2>2 DEF R, s
<1>2. Len(Txs[Genesis]) = 0
  BY TxsAssumption DEF TxsAssumption
<1> QED
  BY <1>1, <1>2

LEMMA CoinsAre ==
  /\ Coin \subseteq Nat /\ NoCoin \in Coin /\ NoCoin = 0
  /\ \A b \in Block : Height[b] \in Coin
  /\ \A b \in Block \ {Genesis} : Height[b] # NoCoin
<1>1. \A b \in Block : Height[b] \in Nat
  BY Zenon, HeightGrows
<1>2. \A b \in Block \ {Genesis} : Height[b] = Height[Parent[b]] + 1 /\ Height[Parent[b]] \in Nat
  BY Zenon, <1>1, HeightStep, ParentInBlock
<1> QED
  BY <1>1, <1>2 DEF Coin, NoCoin

\* An output has one place on a branch.
LEMMA OnePlace ==
  ASSUME NEW b \in Block, NEW a \in Ancestors[b], NEW i \in 1..Len(Txs[a]), NEW j \in 1..Len(Txs[b]),
         NEW o \in Txs[a][i].outs, o \in Txs[b][j].outs
  PROVE  a = b /\ i = j
<1>1. a \in Block /\ i \in DOMAIN Txs[a] /\ j \in DOMAIN Txs[b]
  BY TxsAre, AncestorsType
<1>2. Txs[a][i].outs \cap Txs[b][j].outs # {}
  OBVIOUS
<1> QED
  BY Zenon, <1>1, <1>2, TxsAssumption DEF TxsAssumption
-----------------------------------------------------------------------------
(* The reference, block by block and transaction by transaction. *)

\* The unspent outputs of a tip of the database, which may be null.
U(b) == IF b = NoBlock THEN NoCoins ELSE Utxo[b]

\* One of the first i transactions of b spends o, creates o.
SpentBy(b, i, o) == \E j \in 1..i : o \in Txs[b][j].ins
MadeBy(b, i, o) == \E j \in 1..i : o \in Txs[b][j].outs

\* The unspent outputs after the first i transactions of b.
Mid(b, i) ==
  [o \in Outpoint |-> IF Spenders(o, Parent[b]) # {} \/ SpentBy(b, i, o) THEN NoCoin
                      ELSE IF MadeBy(b, i, o) THEN Height[b] ELSE Utxo[Parent[b]][o]]

\* The paying inputs of a transaction are there when its turn comes.
InputsPaid(b, i) == \A o \in Txs[b][i].ins \cap Paying : Mid(b, i - 1)[o] # NoCoin
Sound(b) == \A i \in 1..Len(Txs[b]) : InputsPaid(b, i)

\* The undo data of b holds what the transactions of b spend.
UndoRight(b, undo) ==
  \A i \in 1..Len(Txs[b]) : \A o \in Txs[b][i].ins \cap Paying : undo[i][o] = Mid(b, i - 1)[o]

\* What the unspent outputs of b pay.
Supply(b) == Total({o \in Outpoint : Utxo[b][o] # NoCoin})

LEMMA UtxoIs ==
  \A b \in Block : /\ Utxo[b] \in Coins
                   /\ \A o \in Outpoint :
                        Utxo[b][o] = IF Creators(o, b) = {} \/ Spenders(o, b) # {} THEN NoCoin
                                     ELSE Height[CHOOSE a \in Creators(o, b) : TRUE]
<1>1. ASSUME NEW b \in Block, NEW o \in Outpoint, Creators(o, b) # {}
      PROVE  Height[CHOOSE a \in Creators(o, b) : TRUE] \in Coin
  <2>1. (CHOOSE a \in Creators(o, b) : TRUE) \in Creators(o, b)
    BY <1>1
  <2>2. Creators(o, b) \subseteq Block
    BY AncestorsType DEF Creators
  <2> QED
    BY Zenon, <2>1, <2>2, CoinsAre
<1> QED
  BY Zenon, <1>1, CoinsAre DEF Utxo, Coins

\* What a block adds to the creators and the spenders on its branch.
LEMMA BranchStep ==
  ASSUME NEW b \in Block \ {Genesis}, NEW o \in Outpoint
  PROVE  /\ Creators(o, b) = Creators(o, Parent[b]) \cup (IF MadeBy(b, Len(Txs[b]), o) THEN {b} ELSE {})
         /\ Spenders(o, b) = Spenders(o, Parent[b]) \cup (IF SpentBy(b, Len(Txs[b]), o) THEN {b} ELSE {})
         /\ MadeBy(b, Len(Txs[b]), o) => Creators(o, Parent[b]) = {}
<1>1. Ancestors[b] = Ancestors[Parent[b]] \cup {b} /\ DOMAIN Txs[b] = 1..Len(Txs[b])
  BY Zenon, AncestorsStep, TxsAre
<1>2. /\ Creators(o, b) = Creators(o, Parent[b]) \cup (IF MadeBy(b, Len(Txs[b]), o) THEN {b} ELSE {})
      /\ Spenders(o, b) = Spenders(o, Parent[b]) \cup (IF SpentBy(b, Len(Txs[b]), o) THEN {b} ELSE {})
  BY <1>1 DEF Creators, Spenders, MadeBy, SpentBy
<1>3. ASSUME NEW j \in 1..Len(Txs[b]), o \in Txs[b][j].outs, NEW a \in Creators(o, Parent[b])
      PROVE  FALSE
  <2>1. a \in Ancestors[Parent[b]] /\ a \in Block
    BY AncestorsType, ParentInBlock DEF Creators
  <2>2. PICK i \in 1..Len(Txs[a]) : o \in Txs[a][i].outs
    BY <2>1, TxsAre DEF Creators
  <2>3. a = b
    BY Zenon, <1>1, <1>3, <2>1, <2>2, OnePlace
  <2> QED
    BY Zenon, <2>1, <2>3, NotBelowParent
<1> QED
  BY Zenon, <1>2, <1>3 DEF MadeBy

\* Every block of the branch of b had its paying inputs.
SoundBranch(b) == \A a \in Ancestors[b] \ {Genesis} : Sound(a)

LEMMA MidIs ==
  ASSUME NEW b \in Block \ {Genesis}
  PROVE  /\ \A i \in Nat : Mid(b, i) \in Coins
         /\ \A o \in Outpoint : /\ Mid(b, 0)[o] = Utxo[Parent[b]][o]
                                /\ Mid(b, Len(Txs[b]))[o] = Utxo[b][o]
<1>0. Parent[b] \in Block /\ b \in Block
  BY ParentInBlock
<1>1. ASSUME NEW i \in Nat PROVE Mid(b, i) \in Coins
  <2>1. Utxo[Parent[b]] \in Coins
    BY Zenon, <1>0, UtxoIs
  <2>2. NoCoin \in Coin /\ Height[b] \in Coin
    BY CoinsAre
  <2> QED
    BY <2>1, <2>2 DEF Mid, Coins
<1>2. ASSUME NEW o \in Outpoint PROVE Mid(b, 0)[o] = Utxo[Parent[b]][o]
  <2>1. ~SpentBy(b, 0, o) /\ ~MadeBy(b, 0, o)
    BY DEF SpentBy, MadeBy
  <2>2. Spenders(o, Parent[b]) # {} => Utxo[Parent[b]][o] = NoCoin
    BY Zenon, <1>0, UtxoIs
  <2>3. Mid(b, 0)[o] = IF Spenders(o, Parent[b]) # {} \/ SpentBy(b, 0, o) THEN NoCoin
                       ELSE IF MadeBy(b, 0, o) THEN Height[b] ELSE Utxo[Parent[b]][o]
    BY DEF Mid
  <2> QED
    BY Zenon, <2>1, <2>2, <2>3
<1>3. ASSUME NEW o \in Outpoint PROVE Mid(b, Len(Txs[b]))[o] = Utxo[b][o]
  <2> DEFINE n == Len(Txs[b])
  <2>1. Mid(b, n)[o] = IF Spenders(o, Parent[b]) # {} \/ SpentBy(b, n, o) THEN NoCoin
                       ELSE IF MadeBy(b, n, o) THEN Height[b] ELSE Utxo[Parent[b]][o]
    BY DEF Mid
  <2>2. Spenders(o, b) # {} <=> Spenders(o, Parent[b]) # {} \/ SpentBy(b, n, o)
    BY BranchStep
  <2>3. CASE Spenders(o, b) # {}
    BY Zenon, <1>0, <2>1, <2>2, <2>3, UtxoIs
  <2>4. CASE Spenders(o, b) = {} /\ MadeBy(b, n, o)
    <3>1. Creators(o, b) = {b}
      BY Zenon, <2>4, BranchStep
    <3>2. Utxo[b][o] = Height[b]
      BY Zenon, <1>0, <2>4, <3>1, UtxoIs
    <3> QED
      BY Zenon, <2>1, <2>2, <2>4, <3>2
  <2>5. CASE Spenders(o, b) = {} /\ ~MadeBy(b, n, o)
    <3>1. Creators(o, b) = Creators(o, Parent[b]) /\ Spenders(o, Parent[b]) = {}
      BY Zenon, <2>2, <2>5, BranchStep
    <3>2. /\ Utxo[b][o] = IF Creators(o, b) = {} \/ Spenders(o, b) # {} THEN NoCoin
                          ELSE Height[CHOOSE a \in Creators(o, b) : TRUE]
          /\ Utxo[Parent[b]][o] = IF Creators(o, Parent[b]) = {} \/ Spenders(o, Parent[b]) # {}
                                  THEN NoCoin
                                  ELSE Height[CHOOSE a \in Creators(o, Parent[b]) : TRUE]
      BY Zenon, <1>0, UtxoIs
    <3>3. Utxo[b][o] = Utxo[Parent[b]][o]
      BY <2>5, <3>1, <3>2
    <3> QED
      BY Zenon, <2>1, <2>2, <2>5, <3>3
  <2> QED
    BY Zenon, <2>3, <2>4, <2>5
<1> QED
  BY Zenon, <1>1, <1>2, <1>3

\* What the i-th transaction of b does to an output.
LEMMA MidStep ==
  ASSUME NEW b \in Block \ {Genesis}, NEW i \in 1..Len(Txs[b]), NEW o \in Outpoint
  PROVE  /\ o \notin Txs[b][i].ins /\ o \notin Txs[b][i].outs => Mid(b, i)[o] = Mid(b, i - 1)[o]
         /\ o \in Txs[b][i].ins => Mid(b, i)[o] = NoCoin
         /\ o \in Txs[b][i].outs => \A j \in 0..(i - 1) : Mid(b, j)[o] = NoCoin
<1>0. Parent[b] \in Block /\ b \in Block /\ Len(Txs[b]) \in Nat
  BY ParentInBlock, TxsAre
<1>1. \A j \in 0..Len(Txs[b]) :
        Mid(b, j)[o] = IF Spenders(o, Parent[b]) # {} \/ SpentBy(b, j, o) THEN NoCoin
                       ELSE IF MadeBy(b, j, o) THEN Height[b] ELSE Utxo[Parent[b]][o]
  BY DEF Mid
<1>2. /\ SpentBy(b, i, o) <=> SpentBy(b, i - 1, o) \/ o \in Txs[b][i].ins
      /\ MadeBy(b, i, o) <=> MadeBy(b, i - 1, o) \/ o \in Txs[b][i].outs
  <2>1. 1..i = (1..(i - 1)) \cup {i}
    BY <1>0
  <2> QED
    BY <2>1 DEF SpentBy, MadeBy
<1>3. i \in 0..Len(Txs[b]) /\ i - 1 \in 0..Len(Txs[b]) /\ 0..(i - 1) \subseteq 0..Len(Txs[b])
  BY <1>0
<1>4. ASSUME o \in Txs[b][i].outs, NEW j \in 0..(i - 1) PROVE Mid(b, j)[o] = NoCoin
  <2>1. ASSUME MadeBy(b, j, o) PROVE FALSE
    <3>1. PICK k \in 1..j : o \in Txs[b][k].outs
      BY <2>1 DEF MadeBy
    <3>2. k \in 1..Len(Txs[b]) /\ k # i
      BY <1>0
    <3> QED
      BY Zenon, <1>0, <1>4, <3>1, <3>2, OnePlace, AncestorsType
  <2>2. Creators(o, Parent[b]) = {}
    <3>1. MadeBy(b, Len(Txs[b]), o)
      BY Zenon, <1>4 DEF MadeBy
    <3> QED
      BY Zenon, <3>1, BranchStep
  <2>3. Utxo[Parent[b]][o] = NoCoin
    BY Zenon, <1>0, <2>2, UtxoIs
  <2>4. j \in 0..Len(Txs[b])
    BY <1>3
  <2> QED
    BY Zenon, <1>1, <2>1, <2>3, <2>4
<1> QED
  BY Zenon, <1>1, <1>2, <1>3, <1>4

\* An output that was spent on a sound branch was created there.
LEMMA SpentWasMade ==
  ASSUME NEW c \in Block, SoundBranch(c), NEW o \in Paying, Spenders(o, c) # {}
  PROVE  Creators(o, c) # {}
<1>1. PICK a \in Ancestors[c] : \E i \in DOMAIN Txs[a] : o \in Txs[a][i].ins
  BY DEF Spenders
<1>2. a \in Block /\ o \in Outpoint /\ Ancestors[a] \subseteq Ancestors[c]
  BY AncestorsType, AncestorsTransitive DEF Paying
<1>3. PICK i \in 1..Len(Txs[a]) : o \in Txs[a][i].ins
  BY <1>1, <1>2, TxsAre
<1>4. a # Genesis
  BY <1>3, TxsAre
<1>5. Parent[a] \in Block /\ Ancestors[Parent[a]] \subseteq Ancestors[a]
  BY <1>2, <1>4, ParentInBlock, AncestorsStep
<1>6. Mid(a, i - 1)[o] # NoCoin
  BY Zenon, <1>1, <1>3, <1>4 DEF SoundBranch, Sound, InputsPaid
<1>7. MadeBy(a, i - 1, o) \/ Utxo[Parent[a]][o] # NoCoin
  BY <1>2, <1>6 DEF Mid
<1>8. CASE MadeBy(a, i - 1, o)
  <2>1. PICK k \in 1..(i - 1) : o \in Txs[a][k].outs
    BY <1>8 DEF MadeBy
  <2>2. k \in DOMAIN Txs[a]
    BY <1>2, TxsAre
  <2> QED
    BY <1>1, <2>1, <2>2 DEF Creators
<1>9. CASE Utxo[Parent[a]][o] # NoCoin
  <2>1. Creators(o, Parent[a]) # {}
    BY Zenon, <1>2, <1>5, <1>9, UtxoIs
  <2> QED
    BY <1>2, <1>5, <2>1 DEF Creators
<1> QED
  BY Zenon, <1>7, <1>8, <1>9

\* On a sound branch a paying output is there once its transaction is through.
LEMMA MadeIsThere ==
  ASSUME NEW b \in Block \ {Genesis}, SoundBranch(Parent[b]), NEW i \in 1..Len(Txs[b]),
         \A j \in 1..i : InputsPaid(b, j), NEW o \in Paying, o \in Txs[b][i].outs
  PROVE  o \notin Txs[b][i].ins /\ Mid(b, i)[o] = Height[b]
<1>0. Parent[b] \in Block /\ Len(Txs[b]) \in Nat /\ o \in Outpoint
  BY ParentInBlock, TxsAre DEF Paying
<1>1. Spenders(o, Parent[b]) = {}
  <2>1. MadeBy(b, Len(Txs[b]), o)
    BY Zenon DEF MadeBy
  <2> QED
    BY Zenon, <1>0, <2>1, BranchStep, SpentWasMade
<1>2. ASSUME NEW j \in 1..i, o \in Txs[b][j].ins PROVE FALSE
  <2>1. Mid(b, j - 1)[o] # NoCoin
    BY Zenon, <1>2 DEF InputsPaid
  <2>2. j - 1 \in 0..(i - 1)
    BY <1>0
  <2> QED
    BY Zenon, <1>0, <2>1, <2>2, MidStep
<1>3. ~SpentBy(b, i, o)
  BY Zenon, <1>2 DEF SpentBy
<1>4. i \in 1..i
  BY <1>0
<1>5. MadeBy(b, i, o)
  BY Zenon, <1>4 DEF MadeBy
<1>6. Mid(b, i)[o] = Height[b]
  BY <1>0, <1>1, <1>3, <1>5 DEF Mid
<1> QED
  BY Zenon, <1>2, <1>4, <1>6
-----------------------------------------------------------------------------
(* One transaction on a view. *)

\* Each paying output is as in c, or is one of what other allows for it.
Mixed(d, c, other) == \A o \in Paying : d[o] = c[o] \/ d[o] \in other[o]
Nothing == [o \in Outpoint |-> {}]

LEMMA MixedExact == \A c, d : Mixed(d, c, Nothing) <=> SamePaying(d, c)
BY DEF Mixed, Nothing, SamePaying, Paying

\* What a transaction touches is right afterwards, what it does not touch stays.
LEMMA ConnectStep ==
  ASSUME NEW b \in Block \ {Genesis}, SoundBranch(Parent[b]), NEW i \in 1..Len(Txs[b]),
         \A j \in 1..i : InputsPaid(b, j), NEW v, NEW skip, NEW other,
         Mixed(v, Mid(b, i - 1), other)
  PROVE  Mixed(UpdateCoins(v, Txs[b][i], Height[b], skip), Mid(b, i), other)
<1> DEFINE tx == Txs[b][i]
           w == UpdateCoins(v, tx, Height[b], skip)
<1>1. ASSUME NEW o \in Paying PROVE w[o] = Mid(b, i)[o] \/ w[o] \in other[o]
  <2>1. o \in Outpoint /\ (o \in AddCoins(tx, skip) <=> o \in tx.outs)
    BY DEF Paying, AddCoins
  <2>2. w[o] = IF o \in tx.outs THEN Height[b] ELSE IF o \in tx.ins THEN NoCoin ELSE v[o]
    BY <2>1 DEF UpdateCoins
  <2>3. v[o] = Mid(b, i - 1)[o] \/ v[o] \in other[o]
    BY Zenon DEF Mixed
  <2> HIDE DEF w
  <2>4. CASE o \in tx.outs
    BY Zenon, <2>2, <2>4, MadeIsThere
  <2>5. CASE o \notin tx.outs /\ o \in tx.ins
    BY Zenon, <2>1, <2>2, <2>5, MidStep
  <2>6. CASE o \notin tx.outs /\ o \notin tx.ins
    <3>1. Mid(b, i)[o] = Mid(b, i - 1)[o]
      BY Zenon, <2>1, <2>6, MidStep
    <3>2. w[o] = v[o]
      BY Zenon, <2>2, <2>6
    <3> QED
      BY Zenon, <2>3, <3>1, <3>2
  <2> QED
    BY Zenon, <2>4, <2>5, <2>6
<1> HIDE DEF w
<1>2. Mixed(w, Mid(b, i), other)
  BY Zenon, <1>1 DEF Mixed
<1> QED
  BY Zenon, <1>2 DEF w

LEMMA UndoStep ==
  ASSUME NEW b \in Block \ {Genesis}, NEW i \in 1..Len(Txs[b]), NEW undo, UndoRight(b, undo),
         NEW v, NEW other, Mixed(v, Mid(b, i), other)
  PROVE  Mixed(UndoTx(v, Txs[b][i], undo[i]), Mid(b, i - 1), other)
<1> DEFINE tx == Txs[b][i]
           w == UndoTx(v, tx, undo[i])
<1>1. ASSUME NEW o \in Paying PROVE w[o] = Mid(b, i - 1)[o] \/ w[o] \in other[o]
  <2>1. o \in Outpoint /\ (o \in tx.outs \ ZeroValued <=> o \in tx.outs)
    BY DEF Paying
  <2>2. w[o] = IF o \in tx.ins THEN undo[i][o] ELSE IF o \in tx.outs THEN NoCoin ELSE v[o]
    BY <2>1 DEF UndoTx
  <2>3. v[o] = Mid(b, i)[o] \/ v[o] \in other[o]
    BY Zenon DEF Mixed
  <2> HIDE DEF w
  <2>4. CASE o \in tx.ins
    <3>1. undo[i][o] = Mid(b, i - 1)[o]
      BY <2>4 DEF UndoRight
    <3> QED
      BY Zenon, <2>2, <2>4, <3>1
  <2>5. CASE o \notin tx.ins /\ o \in tx.outs
    <3>1. i - 1 \in 0..(i - 1)
      BY TxsAre
    <3>2. Mid(b, i - 1)[o] = NoCoin
      BY <2>1, <2>5, <3>1, MidStep
    <3> QED
      BY Zenon, <2>2, <2>5, <3>2
  <2>6. CASE o \notin tx.outs /\ o \notin tx.ins
    <3>1. Mid(b, i)[o] = Mid(b, i - 1)[o]
      BY Zenon, <2>1, <2>6, MidStep
    <3>2. w[o] = v[o]
      BY Zenon, <2>2, <2>6
    <3> QED
      BY Zenon, <2>3, <3>1, <3>2
  <2> QED
    BY Zenon, <2>4, <2>5, <2>6
<1> HIDE DEF w
<1>2. Mixed(w, Mid(b, i - 1), other)
  BY Zenon, <1>1 DEF Mixed
<1> QED
  BY Zenon, <1>2 DEF w
-----------------------------------------------------------------------------
(* The loops over the transactions of a block. *)

LEMMA UpdateCoinsIs ==
  ASSUME NEW b \in Block, NEW i \in 1..Len(Txs[b]), NEW c \in Coins, NEW skip
  PROVE  UpdateCoins(c, Txs[b][i], Height[b], skip) \in Coins
BY CoinsAre DEF UpdateCoins, Coins

\* V holds the view after each transaction of b, from c on.
Connects(V, c, b, skipped) ==
  /\ V \in [0..Len(Txs[b]) -> Coins]
  /\ V[0] = c
  /\ \A i \in 1..Len(Txs[b]) : V[i] = UpdateCoins(V[i - 1], Txs[b][i], Height[b], i \in skipped)

LEMMA ViewsAre ==
  ASSUME NEW b \in Block, NEW c \in Coins, NEW skipped
  PROVE  Connects(Views(c, b, skipped), c, b, skipped)
<1> DEFINE n == Len(Txs[b])
           Step(d, i) == UpdateCoins(d, Txs[b][i], Height[b], i \in skipped)
           Def(v) == v = [i \in 0..n |-> IF i = 0 THEN c ELSE Step(v[i - 1], i)]
           F == [i \in 1..n |-> [d \in Coins |-> Step(d, i)]]
<1>0. n \in Nat
  BY TxsAre
<1>1. \A i \in 1..n, d \in Coins : Step(d, i) \in Coins
  BY Zenon, UpdateCoinsIs
<1> HIDE DEF Step, n
<1>2. F \in [1..n -> [Coins -> Coins]]
  BY <1>1
<1>3. \A i \in 1..n, d \in Coins : F[i][d] = Step(d, i)
  OBVIOUS
<1> HIDE DEF F
<1>4. PICK f : Iterates(f, n, Coins, c, F)
  BY Zenon, <1>0, <1>2, IterationExists
<1>5. ASSUME NEW i \in 0..n PROVE f[i] = IF i = 0 THEN c ELSE Step(f[i - 1], i)
  <2>1. CASE i = 0
    BY <1>4, <2>1 DEF Iterates
  <2>2. CASE i # 0
    <3>1. i \in 1..n /\ i - 1 \in 0..n
      BY <1>0, <2>2
    <3> QED
      BY <1>3, <1>4, <2>2, <3>1 DEF Iterates
  <2> QED
    BY <2>1, <2>2
<1>6. Def(f)
  BY <1>4, <1>5 DEF Iterates
<1>7. Views(c, b, skipped) = CHOOSE v : Def(v)
  BY DEF Views, Step, n
<1> DEFINE V == Views(c, b, skipped)
<1> HIDE DEF V
<1>8. Def(V)
  <2> HIDE DEF Def
  <2> QED
    BY Zenon, <1>6, <1>7 DEF V
<1>9. V[0] = c /\ V = [i \in 0..n |-> V[i]]
  BY <1>0, <1>8
<1>10. ASSUME NEW i \in 1..n PROVE V[i] = Step(V[i - 1], i)
  <2>1. i \in 0..n /\ i # 0
    BY <1>0
  <2> QED
    BY Zenon, <1>8, <2>1
<1>11. Iterates(V, n, Coins, c, F)
  BY Zenon, <1>0, <1>2, <1>3, <1>9, <1>10, IterationStays
<1> QED
  BY Zenon, <1>9, <1>10, <1>11 DEF V, Step, n, Iterates, Connects

LEMMA UndoTxIs ==
  ASSUME NEW b \in Block, NEW i \in 1..Len(Txs[b]), NEW c \in Coins, NEW undo, Undo(b, undo)
  PROVE  UndoTx(c, Txs[b][i], undo[i]) \in Coins
<1>1. undo[i] \in [Txs[b][i].ins -> Coin]
  BY TxsAre DEF Undo
<1> QED
  BY <1>1, CoinsAre DEF UndoTx, Coins

\* V holds the view with the last k transactions of b undone, from c on.
Undoes(V, c, b, undo) ==
  /\ V \in [0..Len(Txs[b]) -> Coins]
  /\ V[0] = c
  /\ \A k \in 1..Len(Txs[b]) :
       V[k] = UndoTx(V[k - 1], Txs[b][Len(Txs[b]) + 1 - k], undo[Len(Txs[b]) + 1 - k])

LEMMA UnwoundIs ==
  ASSUME NEW b \in Block, NEW c \in Coins, NEW undo, Undo(b, undo)
  PROVE  Undoes(Unwound(c, b, undo), c, b, undo)
<1> DEFINE n == Len(Txs[b])
           Step(d, k) == UndoTx(d, Txs[b][n + 1 - k], undo[n + 1 - k])
           Def(v) == v = [k \in 0..n |-> IF k = 0 THEN c ELSE Step(v[k - 1], k)]
           F == [k \in 1..n |-> [d \in Coins |-> Step(d, k)]]
<1>0. n \in Nat
  BY TxsAre
<1>1. ASSUME NEW k \in 1..n, NEW d \in Coins PROVE Step(d, k) \in Coins
  <2>1. n + 1 - k \in 1..Len(Txs[b])
    BY <1>0
  <2> QED
    BY Zenon, <2>1, UndoTxIs
<1>2. Unwound(c, b, undo) = CHOOSE v : Def(v)
  BY DEF Unwound
<1> HIDE DEF Step, n
<1>3. F \in [1..n -> [Coins -> Coins]]
  BY <1>1
<1>4. \A k \in 1..n, d \in Coins : F[k][d] = Step(d, k)
  OBVIOUS
<1> HIDE DEF F
<1>5. PICK f : Iterates(f, n, Coins, c, F)
  BY Zenon, <1>0, <1>3, IterationExists
<1>6. ASSUME NEW k \in 0..n PROVE f[k] = IF k = 0 THEN c ELSE Step(f[k - 1], k)
  <2>1. CASE k = 0
    BY <1>5, <2>1 DEF Iterates
  <2>2. CASE k # 0
    <3>1. k \in 1..n /\ k - 1 \in 0..n
      BY <1>0, <2>2
    <3> QED
      BY <1>4, <1>5, <2>2, <3>1 DEF Iterates
  <2> QED
    BY <2>1, <2>2
<1>7. Def(f)
  BY <1>5, <1>6 DEF Iterates
<1> DEFINE V == Unwound(c, b, undo)
<1> HIDE DEF V
<1>8. Def(V)
  <2> HIDE DEF Def
  <2> QED
    BY Zenon, <1>2, <1>7 DEF V
<1>9. V[0] = c /\ V = [k \in 0..n |-> V[k]]
  BY <1>0, <1>8
<1>10. ASSUME NEW k \in 1..n PROVE V[k] = Step(V[k - 1], k)
  <2>1. k \in 0..n /\ k # 0
    BY <1>0
  <2> QED
    BY Zenon, <1>8, <2>1
<1>11. Iterates(V, n, Coins, c, F)
  BY Zenon, <1>0, <1>3, <1>4, <1>9, <1>10, IterationStays
<1> QED
  BY Zenon, <1>9, <1>10, <1>11 DEF V, Step, n, Iterates, Undoes

\* Connecting a sound block on a sound branch takes a view from the outputs of
\* the parent to those of the block.
LEMMA ViewsMove ==
  ASSUME NEW b \in Block \ {Genesis}, SoundBranch(Parent[b]), Sound(b), NEW c \in Coins, NEW skipped,
         NEW other, Mixed(c, Utxo[Parent[b]], other)
  PROVE  \A i \in 0..Len(Txs[b]) : Mixed(Views(c, b, skipped)[i], Mid(b, i), other)
<1> DEFINE n == Len(Txs[b])
           V == Views(c, b, skipped)
           T == {i \in 0..n : Mixed(V[i], Mid(b, i), other)}
<1>0. n \in Nat /\ b \in Block
  BY TxsAre
<1>5. Connects(V, c, b, skipped)
  BY Zenon, <1>0, ViewsAre
<1> HIDE DEF V
<1>1. V[0] = c /\ \A i \in 1..n : V[i] = UpdateCoins(V[i - 1], Txs[b][i], Height[b], i \in skipped)
  BY Zenon, <1>5 DEF Connects
<1>2. 0 \in T
  <2>1. \A o \in Paying : Mid(b, 0)[o] = Utxo[Parent[b]][o]
    BY MidIs DEF Paying
  <2>2. Mixed(V[0], Mid(b, 0), other)
    BY Zenon, <1>1, <2>1 DEF Mixed
  <2> QED
    BY <1>0, <2>2
<1>3. ASSUME NEW i \in 1..n, i - 1 \in T PROVE i \in T
  <2>1. i \in 0..n /\ 1..i \subseteq 1..n
    BY <1>0
  <2>2. Mixed(V[i - 1], Mid(b, i - 1), other) /\ \A j \in 1..i : InputsPaid(b, j)
    BY Zenon, <1>3, <2>1 DEF Sound
  <2>3. Mixed(V[i], Mid(b, i), other)
    BY Zenon, <1>1, <2>2, ConnectStep
  <2> QED
    BY Zenon, <2>1, <2>3
<1> HIDE DEF T
<1>4. \A i \in 0..n : i \in T
  BY Zenon, <1>0, <1>2, <1>3, CountUp
<1> QED
  BY Zenon, <1>4 DEF T, V, n

\* Undoing a block takes a view from the outputs of the block to those of the parent.
LEMMA UnwoundMoves ==
  ASSUME NEW b \in Block \ {Genesis}, NEW c \in Coins, NEW undo, Undo(b, undo), UndoRight(b, undo),
         NEW other, Mixed(c, Utxo[b], other)
  PROVE  \A k \in 0..Len(Txs[b]) : Mixed(Unwound(c, b, undo)[k], Mid(b, Len(Txs[b]) - k), other)
<1> DEFINE n == Len(Txs[b])
           V == Unwound(c, b, undo)
           T == {k \in 0..n : Mixed(V[k], Mid(b, n - k), other)}
<1>0. n \in Nat /\ n - 0 = n /\ b \in Block
  BY TxsAre
<1>5. Undoes(V, c, b, undo)
  BY Zenon, <1>0, UnwoundIs
<1> HIDE DEF V
<1>1. V[0] = c /\ \A k \in 1..n : V[k] = UndoTx(V[k - 1], Txs[b][n + 1 - k], undo[n + 1 - k])
  BY Zenon, <1>5 DEF Undoes
<1>2. 0 \in T
  <2>1. \A o \in Paying : Mid(b, n)[o] = Utxo[b][o]
    BY MidIs DEF Paying
  <2>2. Mixed(V[0], Mid(b, n - 0), other)
    BY Zenon, <1>0, <1>1, <2>1 DEF Mixed
  <2> QED
    BY <1>0, <2>2
<1>3. ASSUME NEW k \in 1..n, k - 1 \in T PROVE k \in T
  <2> DEFINE i == n + 1 - k
  <2>1. k \in 0..n /\ i \in 1..n /\ n - (k - 1) = i /\ n - k = i - 1
    BY <1>0
  <2> HIDE DEF i
  <2>2. Mixed(V[k - 1], Mid(b, i), other)
    BY Zenon, <1>3, <2>1
  <2>3. V[k] = UndoTx(V[k - 1], Txs[b][i], undo[i])
    BY Zenon, <1>1 DEF i
  <2>4. Mixed(V[k], Mid(b, i - 1), other)
    BY Zenon, <2>1, <2>2, <2>3, UndoStep
  <2> QED
    BY Zenon, <2>1, <2>4
<1> HIDE DEF T
<1>4. \A k \in 0..n : k \in T
  BY Zenon, <1>0, <1>2, <1>3, CountUp
<1> QED
  BY Zenon, <1>4 DEF T, V, n
-----------------------------------------------------------------------------
(* Whole blocks. *)

\* A sound branch is that of the parent and the block itself.
LEMMA SoundBranchStep ==
  \A b \in Block \ {Genesis} : SoundBranch(b) <=> SoundBranch(Parent[b]) /\ Sound(b)
<1> SUFFICES ASSUME NEW b \in Block \ {Genesis}
             PROVE  SoundBranch(b) <=> SoundBranch(Parent[b]) /\ Sound(b)
  OBVIOUS
<1>1. Ancestors[b] = {b} \cup Ancestors[Parent[b]]
  BY Zenon, AncestorsStep
<1> QED
  BY Zenon, <1>1 DEF SoundBranch

\* What ConnectBlock returns, the views being V.
Connected(r, V, b) ==
  /\ r.coins = V[Len(Txs[b])] /\ r.coins \in Coins
  /\ Undo(b, r.undo)
  /\ \A i \in 1..Len(Txs[b]) : \A o \in Txs[b][i].ins : r.undo[i][o] = V[i - 1][o]
  /\ r.ok <=> \A i \in 1..Len(Txs[b]) : \A o \in Txs[b][i].ins : V[i - 1][o] # NoCoin

LEMMA ConnectBlockIs ==
  ASSUME NEW b \in Block, NEW c \in Coins, NEW skipped
  PROVE  Connected(ConnectBlock(c, b, skipped), Views(c, b, skipped), b)
<1> DEFINE n == Len(Txs[b])
           V == Views(c, b, skipped)
           r == ConnectBlock(c, b, skipped)
           u == BlockUndo(V, b)
<1>0. n \in Nat /\ DOMAIN Txs[b] = 1..n /\ \A i \in 1..n : Txs[b][i].ins \subseteq Outpoint
  BY TxsAre
<1>1. Connects(V, c, b, skipped)
  BY Zenon, ViewsAre
<1>2. /\ r.coins = V[n] /\ r.undo = u
      /\ r.ok <=> \A i \in DOMAIN Txs[b] : \A o \in Txs[b][i].ins : u[i][o] # NoCoin
  BY DEF ConnectBlock
<1> HIDE DEF V, r
<1>3. /\ DOMAIN u = 1..n
      /\ \A i \in 1..n : u[i] = [o \in Txs[b][i].ins |-> V[i - 1][o]]
  BY <1>0 DEF BlockUndo
<1> HIDE DEF u, n
<1>4. \A i \in 0..n : V[i] \in Coins
  BY Zenon, <1>1 DEF Connects, n
<1>5. ASSUME NEW i \in 1..n, NEW o \in Txs[b][i].ins PROVE u[i][o] = V[i - 1][o] /\ u[i][o] \in Coin
  <2>1. i - 1 \in 0..n /\ o \in Outpoint
    BY <1>0
  <2> QED
    BY <1>3, <1>4, <2>1 DEF Coins
<1>6. Undo(b, u)
  <2>1. ASSUME NEW i \in 1..n PROVE u[i] \in [Txs[b][i].ins -> Coin]
    BY <1>3, <1>5
  <2> QED
    BY Zenon, <1>0, <1>3, <2>1 DEF Undo
<1>7. r.coins \in Coins
  BY <1>0, <1>2, <1>4
<1>8. r.ok <=> \A i \in 1..n : \A o \in Txs[b][i].ins : V[i - 1][o] # NoCoin
  <2>1. r.ok <=> \A i \in 1..n : \A o \in Txs[b][i].ins : u[i][o] # NoCoin
    BY Zenon, <1>0, <1>2
  <2>2. \A i \in 1..n : \A o \in Txs[b][i].ins : u[i][o] = V[i - 1][o]
    BY Zenon, <1>5
  <2> QED
    BY <2>1, <2>2
<1>9. \A i \in 1..n : \A o \in Txs[b][i].ins : r.undo[i][o] = V[i - 1][o]
  BY Zenon, <1>2, <1>5
<1>10. r.coins = V[n] /\ Undo(b, r.undo)
  BY Zenon, <1>2, <1>6
<1> QED
  BY Zenon, <1>7, <1>8, <1>9, <1>10 DEF V, r, n, Connected

\* A block that connects had its paying inputs, its undo data is right and the
\* view afterwards holds its unspent outputs.
LEMMA ConnectBlockRight ==
  ASSUME NEW b \in Block \ {Genesis}, SoundBranch(Parent[b]), NEW c \in Coins, NEW skipped,
         SamePaying(c, Utxo[Parent[b]]), ConnectBlock(c, b, skipped).ok
  PROVE  /\ Sound(b) /\ UndoRight(b, ConnectBlock(c, b, skipped).undo)
         /\ SamePaying(ConnectBlock(c, b, skipped).coins, Utxo[b])
<1> DEFINE n == Len(Txs[b])
           V == Views(c, b, skipped)
           r == ConnectBlock(c, b, skipped)
           Q(i) == SamePaying(V[i], Mid(b, i)) /\ \A j \in 1..i : InputsPaid(b, j)
           T == {i \in 0..n : Q(i)}
<1>0. n \in Nat /\ b \in Block /\ \A i \in 1..n : Txs[b][i].ins \subseteq Outpoint
  BY TxsAre
<1>1. Connects(V, c, b, skipped)
  BY Zenon, <1>0, ViewsAre
<1>11. Connected(r, V, b) /\ r.ok
  BY Zenon, <1>0, ConnectBlockIs
<1> HIDE DEF V, r
<1>2. /\ r.coins = V[n]
      /\ \A i \in 1..n : \A o \in Txs[b][i].ins : r.undo[i][o] = V[i - 1][o] /\ V[i - 1][o] # NoCoin
  BY Zenon, <1>11 DEF Connected
<1>3. V[0] = c /\ \A i \in 1..n : V[i] = UpdateCoins(V[i - 1], Txs[b][i], Height[b], i \in skipped)
  BY Zenon, <1>1 DEF Connects
<1>4. 0 \in T
  <2>1. \A o \in Paying : Mid(b, 0)[o] = Utxo[Parent[b]][o]
    BY MidIs DEF Paying
  <2>2. SamePaying(V[0], Mid(b, 0))
    BY Zenon, <1>3, <2>1 DEF SamePaying
  <2> QED
    BY <1>0, <2>2
<1>5. ASSUME NEW i \in 1..n, i - 1 \in T PROVE i \in T
  <2>1. i \in 0..n /\ 1..i = (1..(i - 1)) \cup {i}
    BY <1>0
  <2>2. SamePaying(V[i - 1], Mid(b, i - 1)) /\ \A j \in 1..(i - 1) : InputsPaid(b, j)
    BY Zenon, <1>5
  <2>3. InputsPaid(b, i)
    BY <1>2, <2>2 DEF InputsPaid, SamePaying
  <2>4. \A j \in 1..i : InputsPaid(b, j)
    BY <2>1, <2>2, <2>3
  <2>5. Mixed(V[i], Mid(b, i), Nothing)
    BY Zenon, <1>3, <2>2, <2>4, ConnectStep, MixedExact
  <2> QED
    BY Zenon, <2>1, <2>4, <2>5, MixedExact
<1> HIDE DEF T, Q
<1>6. \A i \in 0..n : Q(i)
  <2>1. \A i \in 0..n : i \in T
    BY Zenon, <1>0, <1>4, <1>5, CountUp
  <2> QED
    BY Zenon, <2>1 DEF T
<1>7. Q(n)
  BY <1>0, <1>6
<1>8. Sound(b)
  BY Zenon, <1>7 DEF Q, Sound
<1>9. UndoRight(b, r.undo)
  <2>1. ASSUME NEW i \in 1..n, NEW o \in Txs[b][i].ins \cap Paying PROVE r.undo[i][o] = Mid(b, i - 1)[o]
    <3>1. i - 1 \in 0..n
      BY <1>0
    <3>2. SamePaying(V[i - 1], Mid(b, i - 1))
      BY Zenon, <1>6, <3>1 DEF Q
    <3> QED
      BY <1>2, <3>2 DEF SamePaying
  <2> QED
    BY Zenon, <2>1 DEF UndoRight
<1>10. SamePaying(r.coins, Utxo[b])
  <2>1. \A o \in Paying : Mid(b, n)[o] = Utxo[b][o]
    BY MidIs DEF Paying
  <2> QED
    BY Zenon, <1>2, <1>7, <2>1 DEF Q, SamePaying
<1> QED
  BY Zenon, <1>8, <1>9, <1>10 DEF r

\* InputsThere, of the paying inputs, is what makes a block sound.
LEMMA InputsThereSound ==
  ASSUME NEW b \in Block \ {Genesis}, InputsThere(b)
  PROVE  Sound(b)
<1>0. Parent[b] \in Block /\ b \in Block /\ DOMAIN Txs[b] = 1..Len(Txs[b])
  BY ParentInBlock, TxsAre
<1>1. ASSUME NEW i \in 1..Len(Txs[b]), NEW o \in Txs[b][i].ins \cap Paying
      PROVE  Mid(b, i - 1)[o] # NoCoin
  <2>1. o \in Outpoint
    BY DEF Paying
  <2>2. /\ Spenders(o, Parent[b]) = {}
        /\ Creators(o, Parent[b]) # {} \/ MadeBy(b, i - 1, o)
        /\ ~SpentBy(b, i - 1, o)
    BY <1>0 DEF InputsThere, MadeBy, SpentBy
  <2>3. Mid(b, i - 1)[o] = IF MadeBy(b, i - 1, o) THEN Height[b] ELSE Utxo[Parent[b]][o]
    BY <2>1, <2>2 DEF Mid
  <2>4. CASE MadeBy(b, i - 1, o)
    BY Zenon, <2>3, <2>4, CoinsAre
  <2>5. CASE ~MadeBy(b, i - 1, o)
    <3> DEFINE a == CHOOSE x \in Creators(o, Parent[b]) : TRUE
    <3>1. a \in Creators(o, Parent[b])
      BY <2>2, <2>5
    <3>2. Utxo[Parent[b]][o] = Height[a]
      BY Zenon, <1>0, <2>1, <2>2, <2>5, UtxoIs
    <3> HIDE DEF a
    <3>3. a \in Block /\ DOMAIN Txs[a] # {}
      BY <1>0, <3>1, AncestorsType DEF Creators
    <3>4. a # Genesis
      BY <3>3, TxsAre
    <3> QED
      BY Zenon, <2>3, <2>5, <3>2, <3>3, <3>4, CoinsAre
  <2> QED
    BY Zenon, <2>4, <2>5
<1> QED
  BY Zenon, <1>1 DEF Sound, InputsPaid

\* A block that does not connect is at fault.
LEMMA ConnectBlockRefuses ==
  ASSUME NEW b \in Block \ {Genesis}, SoundBranch(Parent[b]), NEW c \in Coins, NEW skipped,
         SamePaying(c, Utxo[Parent[b]]), ~ConnectBlock(c, b, skipped).ok
  PROVE  SpendsZeroValued(b) \/ ~InputsThere(b)
<1> DEFINE V == Views(c, b, skipped)
           r == ConnectBlock(c, b, skipped)
<1> SUFFICES ASSUME ~SpendsZeroValued(b), InputsThere(b) PROVE FALSE
  OBVIOUS
<1>0. /\ b \in Block /\ Len(Txs[b]) \in Nat /\ DOMAIN Txs[b] = 1..Len(Txs[b])
      /\ \A i \in 1..Len(Txs[b]) : Txs[b][i].ins \subseteq Outpoint
  BY TxsAre
<1>1. Connected(r, V, b) /\ ~r.ok
  BY Zenon, <1>0, ConnectBlockIs
<1>2. Sound(b)
  BY Zenon, InputsThereSound
<1>3. \A i \in 0..Len(Txs[b]) : Mixed(V[i], Mid(b, i), Nothing)
  BY Zenon, <1>2, ViewsMove, MixedExact
<1> HIDE DEF V, r
<1>4. PICK i \in 1..Len(Txs[b]) : \E o \in Txs[b][i].ins : V[i - 1][o] = NoCoin
  BY Zenon, <1>1 DEF Connected
<1>5. PICK o \in Txs[b][i].ins : V[i - 1][o] = NoCoin
  BY <1>4
<1>6. o \in Txs[b][i].ins \cap Paying
  BY <1>0 DEF SpendsZeroValued, Paying
<1>7. Mid(b, i - 1)[o] # NoCoin
  BY Zenon, <1>2, <1>6 DEF Sound, InputsPaid
<1>8. i - 1 \in 0..Len(Txs[b])
  BY <1>0
<1>9. V[i - 1][o] = Mid(b, i - 1)[o]
  BY <1>3, <1>6, <1>8, MixedExact DEF SamePaying
<1> QED
  BY Zenon, <1>5, <1>7, <1>9

\* Undoing a block, whether or not all of it was there.
LEMMA DisconnectBlockRight ==
  ASSUME NEW b \in Block \ {Genesis}, NEW c \in Coins, NEW undo, Undo(b, undo), UndoRight(b, undo),
         NEW other, Mixed(c, Utxo[b], other)
  PROVE  /\ DisconnectBlock(c, b, undo).coins \in Coins
         /\ Mixed(DisconnectBlock(c, b, undo).coins, Utxo[Parent[b]], other)
<1> DEFINE n == Len(Txs[b])
           V == Unwound(c, b, undo)
<1>0. b \in Block /\ n \in Nat /\ n \in 0..n /\ n - n = 0
  BY TxsAre
<1>1. DisconnectBlock(c, b, undo).coins = V[n]
  BY DEF DisconnectBlock
<1>2. Undoes(V, c, b, undo)
  BY Zenon, <1>0, UnwoundIs
<1>3. \A k \in 0..n : Mixed(V[k], Mid(b, n - k), other)
  BY Zenon, UnwoundMoves
<1> HIDE DEF V
<1>4. V[n] \in Coins
  BY Zenon, <1>0, <1>2 DEF Undoes
<1>5. Mixed(V[n], Mid(b, 0), other)
  BY Zenon, <1>0, <1>3
<1>6. Mixed(V[n], Utxo[Parent[b]], other)
  <2>1. \A o \in Paying : Mid(b, 0)[o] = Utxo[Parent[b]][o]
    BY MidIs DEF Paying
  <2> QED
    BY Zenon, <1>5, <2>1 DEF Mixed
<1> QED
  BY Zenon, <1>1, <1>4, <1>6

\* Undoing the tip of a sound branch finds everything as it expects it.
LEMMA DisconnectBlockClean ==
  ASSUME NEW b \in Block \ {Genesis}, SoundBranch(b), NEW c \in Coins, NEW undo,
         Undo(b, undo), UndoRight(b, undo), SamePaying(c, Utxo[b]), ~SpendsZeroValued(b)
  PROVE  DisconnectBlock(c, b, undo).clean
<1> DEFINE n == Len(Txs[b])
           V == Unwound(c, b, undo)
<1>0. /\ b \in Block /\ n \in Nat /\ DOMAIN Txs[b] = 1..n
      /\ \A i \in 1..n : Txs[b][i].ins \subseteq Outpoint /\ Txs[b][i].outs \subseteq Outpoint
  BY TxsAre
<1>1. DisconnectBlock(c, b, undo).clean
      <=> \A k \in 1..n : CleanTx(V[k - 1], Txs[b][n + 1 - k], Height[b])
  BY DEF DisconnectBlock
<1>3. \A k \in 0..n : Mixed(V[k], Mid(b, n - k), Nothing)
  BY Zenon, UnwoundMoves, MixedExact
<1>4. SoundBranch(Parent[b]) /\ Sound(b)
  BY Zenon, SoundBranchStep
<1> HIDE DEF V
<1>5. ASSUME NEW k \in 1..n PROVE CleanTx(V[k - 1], Txs[b][n + 1 - k], Height[b])
  <2> DEFINE i == n + 1 - k
             tx == Txs[b][i]
             v == V[k - 1]
  <2>1. i \in 1..n /\ n - (k - 1) = i /\ k - 1 \in 0..n /\ 1..i \subseteq 1..n
    BY <1>0
  <2> HIDE DEF i, v
  <2>2. SamePaying(v, Mid(b, i))
    BY Zenon, <1>3, <2>1, MixedExact DEF v
  <2>3. \A j \in 1..i : InputsPaid(b, j)
    BY Zenon, <1>4, <2>1 DEF Sound
  <2>4. ASSUME NEW o \in tx.outs \ ZeroValued PROVE v[o] = Height[b]
    <3>1. o \in Paying
      BY <1>0, <2>1 DEF Paying
    <3>2. Mid(b, i)[o] = Height[b]
      BY Zenon, <1>4, <2>1, <2>3, <2>4, <3>1, MadeIsThere
    <3> QED
      BY Zenon, <2>2, <3>1, <3>2 DEF SamePaying
  <2>5. ASSUME NEW o \in tx.ins PROVE v[o] = NoCoin
    <3>1. o \in Paying /\ o \in Outpoint
      BY <1>0, <2>1 DEF Paying, SpendsZeroValued
    <3>2. Mid(b, i)[o] = NoCoin
      BY Zenon, <2>1, <2>5, <3>1, MidStep
    <3> QED
      BY Zenon, <2>2, <3>1, <3>2 DEF SamePaying
  <2>6. CleanTx(v, tx, Height[b])
    BY Zenon, <2>4, <2>5 DEF CleanTx
  <2> QED
    BY Zenon, <2>6 DEF i, v
<1> QED
  BY Zenon, <1>1, <1>5

\* Rolling a block forward, whether or not some of it was there.
LEMMA RollforwardBlockRight ==
  ASSUME NEW b \in Block \ {Genesis}, SoundBranch(b), NEW c \in Coins,
         NEW other, Mixed(c, Utxo[Parent[b]], other)
  PROVE  RollforwardBlock(c, b) \in Coins /\ Mixed(RollforwardBlock(c, b), Utxo[b], other)
<1> DEFINE n == Len(Txs[b])
           V == Views(c, b, {})
<1>0. b \in Block /\ n \in Nat /\ n \in 0..n
  BY TxsAre
<1>1. Connects(V, c, b, {})
  BY Zenon, <1>0, ViewsAre
<1>2. \A i \in 0..n : Mixed(V[i], Mid(b, i), other)
  BY Zenon, SoundBranchStep, ViewsMove
<1>3. RollforwardBlock(c, b) = V[n]
  BY Zenon DEF RollforwardBlock
<1> HIDE DEF V
<1>4. V[n] \in Coins
  BY Zenon, <1>0, <1>1 DEF Connects
<1>5. \A o \in Paying : Mid(b, n)[o] = Utxo[b][o]
  BY MidIs DEF Paying
<1>6. Mixed(V[n], Utxo[b], other)
  BY Zenon, <1>0, <1>2, <1>5 DEF Mixed
<1> QED
  BY Zenon, <1>3, <1>4, <1>6
-----------------------------------------------------------------------------
(* Whole branches: ReplayBlocks. *)

\* GetAncestor finds every block of the branch by its height.
LEMMA AncestorOfHeight ==
  ASSUME NEW b \in Block, NEW a \in Ancestors[b]
  PROVE  GetAncestor(b, Height[a]) = a
<1>1. Height[a] \in 0..Height[b]
  BY AncestorsType, HeightGrows
<1>2. \A c \in Ancestors[b] : Height[c] = Height[a] => c = GetAncestor(b, Height[a])
  BY Zenon, <1>1, GetAncestorIs
<1> QED
  BY Zenon, <1>2

\* GetAncestor walks down one block at a time.
LEMMA AncestorAt ==
  ASSUME NEW b \in Block, NEW h \in 1..Height[b]
  PROVE  /\ GetAncestor(b, h) \in Block \ {Genesis} /\ GetAncestor(b, h) \in Ancestors[b]
         /\ Parent[GetAncestor(b, h)] = GetAncestor(b, h - 1)
<1> DEFINE a == GetAncestor(b, h)
<1>0. Height[b] \in Nat
  BY HeightGrows
<1>1. h \in 0..Height[b] /\ h - 1 \in 0..Height[b]
  BY <1>0
<1>2. a \in Ancestors[b] /\ Height[a] = h
  BY Zenon, <1>1, GetAncestorIs
<1>3. a \in Block \ {Genesis}
  BY <1>0, <1>2, AncestorsType, HeightStep
<1> HIDE DEF a
<1>4. Parent[a] \in Ancestors[b] /\ Parent[a] \in Block
  BY Zenon, <1>2, <1>3, NotBelowParent, AncestorsTransitive, ParentInBlock
<1>5. Height[a] = Height[Parent[a]] + 1 /\ Height[Parent[a]] \in Nat
  BY Zenon, <1>3, <1>4, HeightStep, HeightGrows
<1>6. Height[Parent[a]] = h - 1
  BY <1>2, <1>5
<1>7. Parent[a] = GetAncestor(b, h - 1)
  BY Zenon, <1>4, <1>6, AncestorOfHeight
<1> QED
  BY Zenon, <1>2, <1>3, <1>7 DEF a

\* The undo data of every block of a branch is right.
BranchUndo(b, undo) ==
  \A a \in Ancestors[b] \ {Genesis} : Undo(a, undo[a]) /\ UndoRight(a, undo[a])

\* V rolls c back, block by block down from old; d is the view n blocks down.
RollsBack(V, c, undo, old, n, d) ==
  /\ V \in [0..n -> Coins]
  /\ V[0] = c /\ V[n] = d
  /\ \A k \in 1..n :
       V[k] = DisconnectBlock(V[k - 1], GetAncestor(old, Height[old] + 1 - k),
                              undo[GetAncestor(old, Height[old] + 1 - k)]).coins

LEMMA DisconnectBlockIs ==
  ASSUME NEW b \in Block, NEW c \in Coins, NEW undo, Undo(b, undo)
  PROVE  DisconnectBlock(c, b, undo).coins \in Coins
<1> DEFINE n == Len(Txs[b])
           V == Unwound(c, b, undo)
<1>1. n \in 0..n
  BY TxsAre
<1>2. DisconnectBlock(c, b, undo).coins = V[n]
  BY DEF DisconnectBlock
<1>3. Undoes(V, c, b, undo)
  BY Zenon, UnwoundIs
<1> HIDE DEF V
<1> QED
  BY Zenon, <1>1, <1>2, <1>3 DEF Undoes

LEMMA RolledBackIs ==
  ASSUME NEW old \in Block, NEW fork \in Ancestors[old], NEW c \in Coins, NEW undo,
         BranchUndo(old, undo)
  PROVE  \E V : RollsBack(V, c, undo, old, Height[old] - Height[fork], RolledBack(c, undo, old, fork))
<1> DEFINE n == Height[old] - Height[fork]
           At(k) == GetAncestor(old, Height[old] + 1 - k)
           Step(d, k) == DisconnectBlock(d, At(k), undo[At(k)]).coins
           Def(v) == v = [k \in 0..n |-> IF k = 0 THEN c ELSE Step(v[k - 1], k)]
           F == [k \in 1..n |-> [d \in Coins |-> Step(d, k)]]
<1>a. Height[old] \in Nat /\ Height[fork] \in Nat /\ n \in Nat
  BY AncestorsType, HeightGrows
<1>0. n \in Nat
  BY <1>a
<1>1. ASSUME NEW k \in 1..n, NEW d \in Coins PROVE Step(d, k) \in Coins
  <2>1. Height[old] + 1 - k \in 1..Height[old]
    BY <1>a
  <2>2. At(k) \in Block \ {Genesis} /\ At(k) \in Ancestors[old]
    BY Zenon, <2>1, AncestorAt
  <2> HIDE DEF At
  <2>3. Undo(At(k), undo[At(k)])
    BY Zenon, <2>2 DEF BranchUndo
  <2> QED
    BY Zenon, <2>2, <2>3, DisconnectBlockIs
<1> DEFINE V == CHOOSE v : Def(v)
<1>2. RolledBack(c, undo, old, fork) = V[n]
  BY DEF RolledBack
<1> HIDE DEF Step, n
<1>3. F \in [1..n -> [Coins -> Coins]]
  BY <1>1
<1>4. \A k \in 1..n, d \in Coins : F[k][d] = Step(d, k)
  OBVIOUS
<1> HIDE DEF F
<1>5. PICK f : Iterates(f, n, Coins, c, F)
  BY Zenon, <1>0, <1>3, IterationExists
<1>6. ASSUME NEW k \in 0..n PROVE f[k] = IF k = 0 THEN c ELSE Step(f[k - 1], k)
  <2>1. CASE k = 0
    BY <1>5, <2>1 DEF Iterates
  <2>2. CASE k # 0
    <3>1. k \in 1..n /\ k - 1 \in 0..n
      BY <1>0, <2>2
    <3> QED
      BY <1>4, <1>5, <2>2, <3>1 DEF Iterates
  <2> QED
    BY <2>1, <2>2
<1>7. Def(f)
  BY <1>5, <1>6 DEF Iterates
<1>8. Def(V)
  <2> HIDE DEF Def
  <2> QED
    BY Zenon, <1>7
<1> HIDE DEF V
<1>9. V[0] = c /\ V = [k \in 0..n |-> V[k]]
  BY <1>0, <1>8
<1>10. ASSUME NEW k \in 1..n PROVE V[k] = Step(V[k - 1], k)
  <2>1. k \in 0..n /\ k # 0
    BY <1>0
  <2> QED
    BY Zenon, <1>8, <2>1
<1>11. Iterates(V, n, Coins, c, F)
  BY Zenon, <1>0, <1>3, <1>4, <1>9, <1>10, IterationStays
<1>12. RollsBack(V, c, undo, old, n, RolledBack(c, undo, old, fork))
  BY Zenon, <1>2, <1>9, <1>10, <1>11 DEF Step, Iterates, RollsBack
<1> QED
  BY Zenon, <1>12 DEF n

\* Rolling back the old branch takes a view from the outputs of its tip to
\* those of the fork.
LEMMA RolledBackMoves ==
  ASSUME NEW old \in Block, NEW fork \in Ancestors[old], NEW c \in Coins, NEW undo,
         BranchUndo(old, undo), NEW other, Mixed(c, Utxo[old], other)
  PROVE  /\ RolledBack(c, undo, old, fork) \in Coins
         /\ Mixed(RolledBack(c, undo, old, fork), Utxo[fork], other)
<1> DEFINE n == Height[old] - Height[fork]
           At(k) == GetAncestor(old, Height[old] - k)
<1>0. Height[old] \in Nat /\ Height[fork] \in Nat /\ n \in Nat /\ n \in 0..n
      /\ Height[old] - 0 = Height[old] /\ Height[old] - n = Height[fork]
  BY AncestorsType, HeightGrows
<1>1. PICK V : RollsBack(V, c, undo, old, n, RolledBack(c, undo, old, fork))
  BY Zenon, RolledBackIs
<1> DEFINE T == {k \in 0..n : Mixed(V[k], Utxo[At(k)], other)}
<1>2. At(0) = old /\ At(n) = fork
  BY Zenon, <1>0, AncestorsType, AncestorOfHeight
<1>3. 0 \in T
  <2>1. Mixed(V[0], Utxo[At(0)], other)
    BY Zenon, <1>1, <1>2 DEF RollsBack
  <2> QED
    BY <1>0, <2>1
<1>4. ASSUME NEW k \in 1..n, k - 1 \in T PROVE k \in T
  <2> DEFINE h == Height[old] + 1 - k
             b == GetAncestor(old, h)
  <2>1. /\ k \in 0..n /\ k - 1 \in 0..n /\ h \in 1..Height[old]
        /\ Height[old] - (k - 1) = h /\ h - 1 = Height[old] - k
    BY <1>0
  <2>2. V[k - 1] \in Coins /\ V[k] = DisconnectBlock(V[k - 1], b, undo[b]).coins
    BY Zenon, <1>1, <2>1 DEF RollsBack
  <2> HIDE DEF h
  <2>3. b \in Block \ {Genesis} /\ b \in Ancestors[old] /\ Parent[b] = GetAncestor(old, h - 1)
    BY Zenon, <2>1, AncestorAt
  <2>4. At(k - 1) = b /\ At(k) = Parent[b]
    BY Zenon, <2>1, <2>3
  <2> HIDE DEF b, At
  <2>5. Undo(b, undo[b]) /\ UndoRight(b, undo[b])
    BY Zenon, <2>3 DEF BranchUndo
  <2>6. Mixed(V[k - 1], Utxo[b], other)
    BY Zenon, <1>4, <2>4
  <2>7. Mixed(V[k], Utxo[At(k)], other)
    BY Zenon, <2>2, <2>3, <2>4, <2>5, <2>6, DisconnectBlockRight
  <2> QED
    BY Zenon, <2>1, <2>7
<1> HIDE DEF T
<1>5. n \in T
  BY Zenon, <1>0, <1>3, <1>4, CountUp
<1>6. V[n] \in Coins /\ V[n] = RolledBack(c, undo, old, fork)
  BY Zenon, <1>0, <1>1 DEF RollsBack
<1> QED
  BY Zenon, <1>2, <1>5, <1>6 DEF T

LEMMA SoundBelow ==
  ASSUME NEW b \in Block, SoundBranch(b), NEW a \in Ancestors[b]
  PROVE  SoundBranch(a)
BY Zenon, AncestorsTransitive DEF SoundBranch

\* V rolls c forward, block by block up from height h towards new; d is the
\* view n blocks up.
RollsForward(V, c, new, h, n, d) ==
  /\ V \in [0..n -> Coins]
  /\ V[0] = c /\ V[n] = d
  /\ \A k \in 1..n : V[k] = RollforwardBlock(V[k - 1], GetAncestor(new, h + k))

LEMMA RolledForwardIs ==
  ASSUME NEW new \in Block, NEW fork \in Ancestors[new], NEW c \in Coins
  PROVE  \E V : RollsForward(V, c, new, Height[fork], Height[new] - Height[fork],
                             RolledForward(c, new, fork))
<1> DEFINE n == Height[new] - Height[fork]
           At(k) == GetAncestor(new, Height[fork] + k)
           Step(d, k) == RollforwardBlock(d, At(k))
           Def(v) == v = [k \in 0..n |-> IF k = 0 THEN c ELSE Step(v[k - 1], k)]
           F == [k \in 1..n |-> [d \in Coins |-> Step(d, k)]]
<1>a. Height[new] \in Nat /\ Height[fork] \in Nat /\ n \in Nat
  BY AncestorsType, HeightGrows
<1>0. n \in Nat
  BY <1>a
<1>1. ASSUME NEW k \in 1..n, NEW d \in Coins PROVE Step(d, k) \in Coins
  <2> DEFINE b == At(k)
             V == Views(d, b, {})
  <2>1. Height[fork] + k \in 1..Height[new]
    BY <1>a
  <2>2. b \in Block
    BY Zenon, <2>1, AncestorAt
  <2> HIDE DEF b
  <2>3. Connects(V, d, b, {}) /\ Len(Txs[b]) \in 0..Len(Txs[b])
    <3>1. Len(Txs[b]) \in 0..Len(Txs[b])
      BY <2>2, TxsAre
    <3> QED
      BY Zenon, <2>2, <3>1, ViewsAre
  <2>4. RollforwardBlock(d, b) = V[Len(Txs[b])]
    BY Zenon DEF RollforwardBlock
  <2> HIDE DEF V
  <2>5. RollforwardBlock(d, b) \in Coins
    BY Zenon, <2>3, <2>4 DEF Connects
  <2> QED
    BY Zenon, <2>5 DEF b
<1> DEFINE V == CHOOSE v : Def(v)
<1>2. RolledForward(c, new, fork) = V[n]
  BY DEF RolledForward
<1> HIDE DEF Step, n
<1>3. F \in [1..n -> [Coins -> Coins]]
  BY <1>1
<1>4. \A k \in 1..n, d \in Coins : F[k][d] = Step(d, k)
  OBVIOUS
<1> HIDE DEF F
<1>5. PICK f : Iterates(f, n, Coins, c, F)
  BY Zenon, <1>0, <1>3, IterationExists
<1>6. ASSUME NEW k \in 0..n PROVE f[k] = IF k = 0 THEN c ELSE Step(f[k - 1], k)
  <2>1. CASE k = 0
    BY <1>5, <2>1 DEF Iterates
  <2>2. CASE k # 0
    <3>1. k \in 1..n /\ k - 1 \in 0..n
      BY <1>0, <2>2
    <3> QED
      BY <1>4, <1>5, <2>2, <3>1 DEF Iterates
  <2> QED
    BY <2>1, <2>2
<1>7. Def(f)
  BY <1>5, <1>6 DEF Iterates
<1>8. Def(V)
  <2> HIDE DEF Def
  <2> QED
    BY Zenon, <1>7
<1> HIDE DEF V
<1>9. V[0] = c /\ V = [k \in 0..n |-> V[k]]
  BY <1>0, <1>8
<1>10. ASSUME NEW k \in 1..n PROVE V[k] = Step(V[k - 1], k)
  <2>1. k \in 0..n /\ k # 0
    BY <1>0
  <2> QED
    BY Zenon, <1>8, <2>1
<1>11. Iterates(V, n, Coins, c, F)
  BY Zenon, <1>0, <1>3, <1>4, <1>9, <1>10, IterationStays
<1>12. RollsForward(V, c, new, Height[fork], n, RolledForward(c, new, fork))
  BY Zenon, <1>2, <1>9, <1>10, <1>11 DEF Step, Iterates, RollsForward
<1> QED
  BY Zenon, <1>12 DEF n

\* Rolling the new branch forward takes a view from the outputs of the fork to
\* those of its tip.
LEMMA RolledForwardMoves ==
  ASSUME NEW new \in Block, SoundBranch(new), NEW fork \in Ancestors[new], NEW c \in Coins,
         NEW other, Mixed(c, Utxo[fork], other)
  PROVE  /\ RolledForward(c, new, fork) \in Coins
         /\ Mixed(RolledForward(c, new, fork), Utxo[new], other)
<1> DEFINE n == Height[new] - Height[fork]
           At(k) == GetAncestor(new, Height[fork] + k)
<1>0. Height[new] \in Nat /\ Height[fork] \in Nat /\ n \in Nat /\ n \in 0..n
      /\ Height[fork] + 0 = Height[fork] /\ Height[fork] + n = Height[new]
  BY AncestorsType, HeightGrows
<1>1. PICK V : RollsForward(V, c, new, Height[fork], n, RolledForward(c, new, fork))
  BY Zenon, RolledForwardIs
<1> DEFINE T == {k \in 0..n : Mixed(V[k], Utxo[At(k)], other)}
<1>2. At(0) = fork /\ At(n) = new
  BY Zenon, <1>0, AncestorsType, AncestorOfHeight
<1>3. 0 \in T
  <2>1. Mixed(V[0], Utxo[At(0)], other)
    BY Zenon, <1>1, <1>2 DEF RollsForward
  <2> QED
    BY <1>0, <2>1
<1>4. ASSUME NEW k \in 1..n, k - 1 \in T PROVE k \in T
  <2> DEFINE h == Height[fork] + k
             b == GetAncestor(new, h)
  <2>1. /\ k \in 0..n /\ k - 1 \in 0..n /\ h \in 1..Height[new]
        /\ Height[fork] + (k - 1) = h - 1
    BY <1>0
  <2>2. V[k - 1] \in Coins /\ V[k] = RollforwardBlock(V[k - 1], b)
    BY Zenon, <1>1, <2>1 DEF RollsForward
  <2>3. At(k) = b
    OBVIOUS
  <2> HIDE DEF h
  <2>4. b \in Block \ {Genesis} /\ b \in Ancestors[new] /\ Parent[b] = GetAncestor(new, h - 1)
    BY Zenon, <2>1, AncestorAt
  <2>5. At(k - 1) = Parent[b]
    BY Zenon, <2>1, <2>4
  <2> HIDE DEF b, At
  <2>6. SoundBranch(b) /\ Mixed(V[k - 1], Utxo[Parent[b]], other)
    BY Zenon, <1>4, <2>4, <2>5, SoundBelow
  <2>7. Mixed(V[k], Utxo[At(k)], other)
    BY Zenon, <2>2, <2>3, <2>4, <2>6, RollforwardBlockRight
  <2> QED
    BY Zenon, <2>1, <2>7
<1> HIDE DEF T
<1>5. n \in T
  BY Zenon, <1>0, <1>3, <1>4, CountUp
<1>6. V[n] \in Coins /\ V[n] = RolledForward(c, new, fork)
  BY Zenon, <1>0, <1>1 DEF RollsForward
<1> QED
  BY Zenon, <1>2, <1>5, <1>6 DEF T

LEMMA LastCommonAncestorIs ==
  ASSUME NEW a \in Block, NEW b \in Block
  PROVE  LastCommonAncestor(a, b) \in Ancestors[a] /\ LastCommonAncestor(a, b) \in Ancestors[b]
<1> DEFINE S == Ancestors[a] \cap Ancestors[b]
           R == {p \in Block \X Block : Height[p[1]] <= Height[p[2]]}
<1>1. S \subseteq Block /\ S # {} /\ S \subseteq Ancestors[a]
  BY AncestorsType
<1>2. IsFiniteSet(S)
  BY Zenon, <1>1, AncestorsFinite, FS_Subset
<1>3. \A x \in S : Height[x] \in Nat
  BY <1>1, HeightGrows
<1>4. \A x, y \in S : <<x, y>> \in R <=> Height[x] <= Height[y]
  BY <1>1
<1> HIDE DEF S, R
<1>5. \A x, y \in S : <<x, y>> \in R \/ <<y, x>> \in R
  <2>1. \A x, y \in S : Height[x] <= Height[y] \/ Height[y] <= Height[x]
    BY <1>3
  <2> QED
    BY Zenon, <1>4, <2>1
<1>6. \A x, y, z \in S : <<x, y>> \in R /\ <<y, z>> \in R => <<x, z>> \in R
  <2>1. \A x, y, z \in S : Height[x] <= Height[y] /\ Height[y] <= Height[z] => Height[x] <= Height[z]
    BY <1>3
  <2> QED
    BY Zenon, <1>4, <2>1
<1>7. \E m \in S : \A x \in S : <<x, m>> \in R
  BY Zenon, <1>1, <1>2, <1>5, <1>6, LargestExists
<1>8. \E m \in S : \A x \in S : Height[x] <= Height[m]
  BY Zenon, <1>4, <1>7
<1>9. LastCommonAncestor(a, b) = CHOOSE m \in S : \A x \in S : Height[x] <= Height[m]
  BY DEF LastCommonAncestor, S
<1>10. LastCommonAncestor(a, b) \in S
  BY Zenon, <1>8, <1>9
<1> QED
  BY <1>10 DEF S

\* Genesis has no unspent outputs.
LEMMA UtxoOfGenesis == \A o \in Outpoint : Utxo[Genesis][o] = NoCoin /\ U(NoBlock)[o] = NoCoin
<1>1. Genesis \in Block /\ Ancestors[Genesis] = {Genesis} /\ DOMAIN Txs[Genesis] = {}
  BY AncestorsStep, ParentInBlock, TxsAssumption DEF TxsAssumption
<1>2. \A o : Creators(o, Genesis) = {}
  BY <1>1 DEF Creators
<1> QED
  BY <1>1, <1>2, UtxoIs DEF U, NoCoins

\* Each paying output is as in c or as in e.
Between(d, c, e) == \A o \in Paying : d[o] = c[o] \/ d[o] = e[o]

\* Whatever part of the batches from old to new is in the database, ReplayBlocks
\* turns it into the outputs of new.
LEMMA ReplayRight ==
  ASSUME NEW new \in Block, SoundBranch(new), NEW old \in Block \cup {NoBlock}, NEW undo,
         old # NoBlock => BranchUndo(old, undo), NEW c \in Coins, Between(c, U(old), U(new))
  PROVE  Replayed(c, undo, new, old) \in Coins /\ SamePaying(Replayed(c, undo, new, old), Utxo[new])
<1> DEFINE other == [o \in Outpoint |-> {Utxo[new][o]}]
           fork == Fork(new, old)
           back == IF old = NoBlock THEN c ELSE RolledBack(c, undo, old, fork)
<1>0. NoBlock \notin Block /\ new # NoBlock /\ U(new) = Utxo[new] /\ Genesis \in Block
  BY ParentInBlock DEF U
<1>1. Mixed(c, U(old), other)
  BY <1>0 DEF Between, Mixed, Paying
<1>2. fork \in Ancestors[new] /\ back \in Coins /\ Mixed(back, Utxo[fork], other)
  <2>1. CASE old = NoBlock
    <3>1. fork = Genesis /\ back = c
      BY <2>1 DEF Fork
    <3>2. \A o \in Paying : Utxo[Genesis][o] = U(old)[o]
      BY <2>1, UtxoOfGenesis DEF Paying
    <3> HIDE DEF fork, back, other
    <3> QED
      BY Zenon, <1>1, <3>1, <3>2, AncestorsType DEF Mixed
  <2>2. CASE old # NoBlock
    <3>1. old \in Block /\ U(old) = Utxo[old]
      BY <2>2 DEF U
    <3>2. fork = LastCommonAncestor(old, new) /\ back = RolledBack(c, undo, old, fork)
      BY <2>2 DEF Fork
    <3> HIDE DEF fork, back, other
    <3>3. fork \in Ancestors[old] /\ fork \in Ancestors[new]
      BY Zenon, <3>1, <3>2, LastCommonAncestorIs
    <3>4. Mixed(c, Utxo[old], other)
      BY Zenon, <1>1, <3>1
    <3> QED
      BY Zenon, <2>2, <3>1, <3>2, <3>3, <3>4, RolledBackMoves
  <2> QED
    BY Zenon, <2>1, <2>2
<1>3. Replayed(c, undo, new, old) = RolledForward(back, new, fork)
  BY DEF Replayed
<1>4. \A d : Mixed(d, Utxo[new], other) => SamePaying(d, Utxo[new])
  BY DEF Mixed, SamePaying, Paying
<1> HIDE DEF fork, back, other
<1> QED
  BY Zenon, <1>2, <1>3, <1>4, RolledForwardMoves
-----------------------------------------------------------------------------
(* What the unspent outputs pay. *)

\* What o pays, if it is in S.
Pays(S, o) == IF o \in S THEN Value[o] ELSE 0

LEMMA PaysIs ==
  ASSUME NEW S, NEW o \in Outpoint
  PROVE  Pays(S, o) \in Int /\ (o \notin Paying => Pays(S, o) = 0)
<1>1. Value[o] \in Nat
  BY TxsAssumption DEF TxsAssumption
<1> QED
  BY <1>1 DEF Pays, Paying, ZeroValued

LEMMA TotalIs ==
  ASSUME NEW S
  PROVE  /\ Total(S) = SumFunction([o \in Outpoint |-> Pays(S, o)])
         /\ [o \in Outpoint |-> Pays(S, o)] \in [Outpoint -> Int]
<1>1. [o \in Outpoint |-> Pays(S, o)] \in [Outpoint -> Int]
  BY PaysIs
<1>2. Total(S) = SumFunction([o \in Outpoint |-> Pays(S, o)])
  BY Zenon DEF Total, Pays
<1> QED
  BY <1>1, <1>2

\* Two pairs of sets that hold each paying output equally often pay the same.
LEMMA TotalsBalance ==
  ASSUME NEW A, NEW B, NEW C, NEW D,
         \A o \in Paying : Pays(A, o) + Pays(B, o) = Pays(C, o) + Pays(D, o)
  PROVE  /\ Total(A) \in Int /\ Total(B) \in Int /\ Total(C) \in Int /\ Total(D) \in Int
         /\ Total(A) + Total(B) = Total(C) + Total(D)
<1> DEFINE f(S) == [o \in Outpoint |-> Pays(S, o)]
           fA == f(A)  fB == f(B)  fC == f(C)  fD == f(D)
           g == [o \in Outpoint |-> Pays(A, o) + Pays(B, o)]
<1>1. \A o \in Outpoint : /\ Pays(A, o) \in Int /\ Pays(B, o) \in Int
                          /\ Pays(C, o) \in Int /\ Pays(D, o) \in Int
  BY Zenon, PaysIs
<1>2. \A o \in Outpoint : Pays(A, o) + Pays(B, o) = Pays(C, o) + Pays(D, o)
  <2>1. \A o \in Outpoint \ Paying : /\ Pays(A, o) = 0 /\ Pays(B, o) = 0
                                     /\ Pays(C, o) = 0 /\ Pays(D, o) = 0
    BY Zenon, PaysIs
  <2> QED
    BY <2>1
<1>3. /\ g \in [Outpoint -> Int]
      /\ \A o \in Outpoint : g[o] = fA[o] + fB[o]
      /\ \A o \in Outpoint : g[o] = fC[o] + fD[o]
  BY <1>1, <1>2
<1>4. \A S : f(S) \in [Outpoint -> Int] /\ Total(S) = SumFunction(f(S))
  BY Zenon, TotalIs
<1>5. /\ fA \in [Outpoint -> Int] /\ fB \in [Outpoint -> Int]
      /\ fC \in [Outpoint -> Int] /\ fD \in [Outpoint -> Int]
      /\ Total(A) = SumFunction(fA) /\ Total(B) = SumFunction(fB)
      /\ Total(C) = SumFunction(fC) /\ Total(D) = SumFunction(fD)
  BY Zenon, <1>4
<1>6. IsFiniteSet(Outpoint)
  BY TxsAssumption DEF TxsAssumption
<1> HIDE DEF fA, fB, fC, fD, g
<1>7. SumFunction(fA) \in Int /\ SumFunction(fB) \in Int
  BY <1>3, <1>5, <1>6, SumAdds
<1>8. SumFunction(g) = SumFunction(fA) + SumFunction(fB)
  BY <1>3, <1>5, <1>6, SumAdds
<1>9. SumFunction(fC) \in Int /\ SumFunction(fD) \in Int
  BY <1>3, <1>5, <1>6, SumAdds
<1>10. SumFunction(g) = SumFunction(fC) + SumFunction(fD)
  BY <1>3, <1>5, <1>6, SumAdds
<1> QED
  BY Zenon, <1>5, <1>7, <1>8, <1>9, <1>10

LEMMA TotalInt == ASSUME NEW S PROVE Total(S) \in Int
BY Zenon, TotalsBalance

\* The outputs that are there in a view.
There(c) == {o \in Outpoint : c[o] # NoCoin}

\* Views that agree on the paying outputs pay the same.
LEMMA TotalSame ==
  ASSUME NEW c, NEW d, SamePaying(c, d)
  PROVE  Total(There(c)) = Total(There(d))
<1>1. \A o \in Outpoint : Pays(There(c), o) = Pays(There(d), o)
  <2>1. \A o \in Outpoint \ Paying : Pays(There(c), o) = 0 /\ Pays(There(d), o) = 0
    BY Zenon, PaysIs
  <2>2. \A o \in Outpoint \cap Paying : Pays(There(c), o) = Pays(There(d), o)
    BY DEF Pays, There, SamePaying
  <2> QED
    BY Zenon, <2>1, <2>2
<1>2. [o \in Outpoint |-> Pays(There(c), o)] = [o \in Outpoint |-> Pays(There(d), o)]
  BY Zenon, <1>1
<1> QED
  BY Zenon, <1>2, TotalIs

\* A transaction adds what its outputs pay and takes away what its inputs pay.
LEMMA TotalStep ==
  ASSUME NEW b \in Block \ {Genesis}, SoundBranch(Parent[b]), NEW i \in 1..Len(Txs[b]),
         \A j \in 1..i : InputsPaid(b, j)
  PROVE  Total(There(Mid(b, i))) + Total(Txs[b][i].ins)
         = Total(There(Mid(b, i - 1))) + Total(Txs[b][i].outs)
<1> DEFINE A == There(Mid(b, i))
           B == There(Mid(b, i - 1))
           tx == Txs[b][i]
           I == tx.ins
           O == tx.outs
<1>0. i \in 1..i /\ i - 1 \in 0..(i - 1) /\ b \in Block
  BY TxsAre
<1>1. ASSUME NEW o \in Paying
      PROVE  Pays(A, o) + Pays(I, o) = Pays(B, o) + Pays(O, o)
  <2>1. o \in Outpoint /\ Value[o] \in Nat
    BY TxsAssumption DEF Paying, TxsAssumption
  <2>2. /\ o \in A <=> Mid(b, i)[o] # NoCoin
        /\ o \in B <=> Mid(b, i - 1)[o] # NoCoin
    BY <2>1 DEF There
  <2> HIDE DEF A, B
  <2>3. CASE o \in tx.outs
    <3>1. o \notin tx.ins /\ Mid(b, i)[o] = Height[b]
      BY Zenon, <2>3, MadeIsThere
    <3>2. Mid(b, i - 1)[o] = NoCoin
      BY Zenon, <1>0, <2>1, <2>3, MidStep
    <3>3. o \in A /\ o \notin B
      BY Zenon, <2>2, <3>1, <3>2, CoinsAre
    <3> QED
      BY <2>1, <2>3, <3>1, <3>3 DEF Pays
  <2>4. CASE o \notin tx.outs /\ o \in tx.ins
    <3>1. Mid(b, i)[o] = NoCoin
      BY Zenon, <2>1, <2>4, MidStep
    <3>2. Mid(b, i - 1)[o] # NoCoin
      BY Zenon, <1>0, <2>4 DEF InputsPaid
    <3>3. o \notin A /\ o \in B
      BY Zenon, <2>2, <3>1, <3>2
    <3> QED
      BY <2>1, <2>4, <3>3 DEF Pays
  <2>5. CASE o \notin tx.outs /\ o \notin tx.ins
    <3>1. Mid(b, i)[o] = Mid(b, i - 1)[o]
      BY Zenon, <2>1, <2>5, MidStep
    <3>2. o \in A <=> o \in B
      BY Zenon, <2>2, <3>1
    <3> QED
      BY <2>1, <2>5, <3>2 DEF Pays
  <2> QED
    BY Zenon, <2>3, <2>4, <2>5
<1> HIDE DEF A, B, I, O
<1>2. Total(A) + Total(I) = Total(B) + Total(O)
  BY <1>1, TotalsBalance
<1> QED
  BY Zenon, <1>2 DEF A, B, I, O

\* a and c are the same but for the summand k.
DifferAt(k, a, c, S) ==
  /\ IsFiniteSet(S) /\ k \in S /\ a \in [S -> Int] /\ c \in [S -> Int]
  /\ \A i \in S : i # k => c[i] = a[i]

LEMMA SumDiffers ==
  ASSUME NEW k, NEW a, NEW c, NEW S, DifferAt(k, a, c, S)
  PROVE  SumFunction(c) = SumFunction(a) - a[k] + c[k]
BY SumChange DEF DifferAt

\* The sum of the differences of a sequence is the last element less the first.
LEMMA SumTelescopes ==
  ASSUME NEW n \in Nat, NEW d \in [1..n -> Int], NEW m \in [0..n -> Int],
         \A i \in 1..n : m[i] = m[i - 1] + d[i]
  PROVE  SumFunction(d) = m[n] - m[0]
<1> DEFINE p(k) == [i \in 1..n |-> IF i <= k THEN d[i] ELSE 0]
           T == {k \in 0..n : SumFunction(p(k)) = m[k] - m[0]}
<1>0. IsFiniteSet(1..n)
  BY FS_Interval
<1>1. 0 \in T
  <2>1. \A i \in 1..n : p(0)[i] = 0
    OBVIOUS
  <2>2. p(0) \in [1..n -> Int]
    OBVIOUS
  <2> DEFINE q == p(0)
  <2> HIDE DEF q
  <2>3. SumFunction(q) = 0
    BY Zenon, <1>0, <2>1, <2>2, SumZero DEF q
  <2>4. SumFunction(p(0)) = m[0] - m[0] /\ 0 \in 0..n
    BY <2>3 DEF q
  <2> QED
    BY <2>4
<1>2. ASSUME NEW k \in 1..n, k - 1 \in T PROVE k \in T
  <2> DEFINE a == p(k - 1)
             c == p(k)
  <2>1. k \in 0..n /\ k - 1 \in 0..n /\ d[k] \in Int /\ m[k - 1] \in Int /\ m[0] \in Int
    OBVIOUS
  <2>2. a[k] = 0 /\ c[k] = d[k] /\ \A i \in 1..n : i # k => c[i] = a[i]
    OBVIOUS
  <2>3. a \in [1..n -> Int] /\ c \in [1..n -> Int]
    OBVIOUS
  <2>4. SumFunction(a) = m[k - 1] - m[0]
    BY Zenon, <1>2
  <2> HIDE DEF a, c
  <2>5. SumFunction(c) = SumFunction(a) - a[k] + c[k]
    <3>1. DifferAt(k, a, c, 1..n)
      BY Zenon, <1>0, <2>2, <2>3 DEF DifferAt
    <3> QED
      BY Zenon, <3>1, SumDiffers
  <2>6. SumFunction(c) = m[k] - m[0]
    BY <2>1, <2>2, <2>4, <2>5
  <2> QED
    BY Zenon, <2>1, <2>6 DEF c
<1> HIDE DEF T
<1>3. \A k \in 0..n : k \in T
  BY Zenon, <1>1, <1>2, CountUp
<1>4. p(n) = d
  OBVIOUS
<1>5. n \in 0..n
  OBVIOUS
<1> HIDE DEF p
<1> QED
  BY Zenon, <1>3, <1>4, <1>5 DEF T

LEMMA SupplyInt == \A b : Supply(b) \in Int
BY Zenon, TotalInt DEF Supply

\* What a sound block adds to the supply of its parent.
LEMMA SupplyStep ==
  ASSUME NEW b \in Block \ {Genesis}, SoundBranch(b)
  PROVE  Supply(Parent[b]) + Minted(b) = Supply(b)
<1> DEFINE n == Len(Txs[b])
           d == [i \in 1..n |-> Total(Txs[b][i].outs) - Total(Txs[b][i].ins)]
           m == [i \in 0..n |-> Total(There(Mid(b, i)))]
<1>0. n \in Nat /\ DOMAIN Txs[b] = 1..n
  BY TxsAre
<1>1. SoundBranch(Parent[b]) /\ Sound(b)
  BY Zenon, SoundBranchStep
<1>2. \A S : Total(S) \in Int
  BY Zenon, TotalInt
<1> HIDE DEF n
<1>3. d \in [1..n -> Int] /\ m \in [0..n -> Int]
  BY <1>2
<1>4. ASSUME NEW i \in 1..n PROVE m[i] = m[i - 1] + d[i]
  <2>1. 1..i \subseteq 1..n /\ i \in 0..n /\ i - 1 \in 0..n
    BY <1>0
  <2>2. \A j \in 1..i : InputsPaid(b, j)
    BY Zenon, <1>1, <2>1 DEF Sound, n
  <2> DEFINE w == Total(There(Mid(b, i)))
             x == Total(Txs[b][i].ins)
             y == Total(There(Mid(b, i - 1)))
             z == Total(Txs[b][i].outs)
  <2>3. w + x = y + z
    BY Zenon, <1>1, <2>2, TotalStep DEF n
  <2>4. m[i] = w /\ m[i - 1] = y /\ d[i] = z - x
    BY <2>1
  <2>5. w \in Int /\ x \in Int /\ y \in Int /\ z \in Int
    BY Zenon, <1>2
  <2> HIDE DEF w, x, y, z, m, d
  <2> QED
    BY <2>3, <2>4, <2>5
<1>5. Minted(b) = SumFunction(d)
  BY Zenon, <1>0 DEF Minted
<1>6. /\ There(Mid(b, 0)) = {o \in Outpoint : Utxo[Parent[b]][o] # NoCoin}
      /\ There(Mid(b, n)) = {o \in Outpoint : Utxo[b][o] # NoCoin}
  BY MidIs DEF There, n
<1>7. m[0] = Supply(Parent[b]) /\ m[n] = Supply(b)
  <2>1. m[0] = Total(There(Mid(b, 0))) /\ m[n] = Total(There(Mid(b, n)))
    BY <1>0
  <2> QED
    BY Zenon, <1>6, <2>1 DEF Supply
<1> HIDE DEF d, m
<1>8. SumFunction(d) = m[n] - m[0]
  BY Zenon, <1>0, <1>3, <1>4, SumTelescopes
<1> QED
  BY <1>5, <1>7, <1>8, SupplyInt

LEMMA SupplyOfGenesis == Supply(Genesis) = 0
<1> DEFINE S == {o \in Outpoint : Utxo[Genesis][o] # NoCoin}
           f == [o \in Outpoint |-> Pays(S, o)]
<1>1. \A o \in Outpoint : f[o] = 0
  BY UtxoOfGenesis DEF Pays
<1>2. f \in [Outpoint -> Int] /\ Total(S) = SumFunction(f)
  BY Zenon, TotalIs
<1>3. Supply(Genesis) = Total(S)
  BY DEF Supply
<1> HIDE DEF S, f
<1> QED
  BY <1>1, <1>2, <1>3, SumZero, TxsAssumption DEF TxsAssumption
-----------------------------------------------------------------------------
(* The inductive invariant. *)

\* b is stored and every block of its branch was connected once.
Recorded(idx, b) == b \in idx.data /\ Ancestors[b] \ {Genesis} \subseteq DOMAIN idx.undo

\* What the index says of a block with undo data is right: it was connected on
\* a branch that was.
EntrySound(idx, b) ==
  /\ b # Genesis
  /\ Recorded(idx, b) /\ Sound(b)
  /\ UndoRight(b, idx.undo[b])
  /\ idx.supply[b] = Supply(b)

Faulty(b) == SpendsZeroValued(b) \/ ~InputsThere(b)

IndexSound(idx) ==
  /\ Index(idx)
  /\ idx.supply[Genesis] = 0
  /\ \A b \in DOMAIN idx.undo : EntrySound(idx, b)
  /\ \A b \in idx.failed : Faulty(b)

\* The index on disk covers the blocks that the coins database names, and each
\* paying output in it is as of one of these.
DiskSound ==
  /\ IndexSound(diskIndex)
  /\ best # NoBlock => Recorded(diskIndex, best)
  /\ heads = <<>> => SamePaying(db, U(best))
  /\ heads # <<>> => /\ Recorded(diskIndex, heads[1])
                     /\ heads[2] # NoBlock => Recorded(diskIndex, heads[2])
                     /\ Between(db, U(heads[2]), U(heads[1]))

\* The coins are those of the tip; the index has all that the disk has, and in
\* a flush the disk has all that the new tip needs.
MemorySound ==
  /\ Recorded(index, tip)
  /\ SamePaying(coins, Utxo[tip])
  /\ diskIndex.data \subseteq index.data
  /\ DOMAIN diskIndex.undo \subseteq DOMAIN index.undo
  /\ mode = "up" => heads = <<>>
  /\ mode = "flush" => Recorded(diskIndex, tip) /\ (heads # <<>> => heads[1] = tip)

Inv ==
  /\ TypeOK
  /\ IndexSound(index) /\ Genesis \in index.data
  /\ DiskSound
  /\ mode # "down" => MemorySound
  /\ DisconnectClean

\* What a sound index says of a recorded branch.
LEMMA RecordedIs ==
  ASSUME NEW idx, IndexSound(idx), NEW b \in Block, Recorded(idx, b)
  PROVE  SoundBranch(b) /\ BranchUndo(b, idx.undo) /\ idx.supply[b] = Supply(b)
<1>1. ASSUME NEW a \in Ancestors[b] \ {Genesis}
      PROVE  Sound(a) /\ Undo(a, idx.undo[a]) /\ UndoRight(a, idx.undo[a]) /\ idx.supply[a] = Supply(a)
  <2>1. a \in DOMAIN idx.undo
    BY DEF Recorded
  <2>2. EntrySound(idx, a) /\ Undo(a, idx.undo[a])
    BY Zenon, <2>1 DEF IndexSound, Index
  <2> QED
    BY Zenon, <2>2 DEF EntrySound
<1>2. SoundBranch(b) /\ BranchUndo(b, idx.undo)
  BY Zenon, <1>1 DEF SoundBranch, BranchUndo
<1>3. idx.supply[b] = Supply(b)
  <2>1. CASE b = Genesis
    BY Zenon, <2>1, SupplyOfGenesis DEF IndexSound
  <2>2. CASE b # Genesis
    <3>1. b \in Ancestors[b] \ {Genesis}
      BY <2>2, AncestorsType
    <3> QED
      BY Zenon, <1>1, <3>1
  <2> QED
    BY Zenon, <2>1, <2>2
<1> QED
  BY Zenon, <1>2, <1>3

LEMMA RecordedBelow ==
  ASSUME NEW idx, IndexSound(idx), Genesis \in idx.data, NEW b \in Block \ {Genesis}, Recorded(idx, b)
  PROVE  Recorded(idx, Parent[b])
<1>1. Ancestors[Parent[b]] \subseteq Ancestors[b] /\ Parent[b] \in Ancestors[b]
  BY AncestorsStep, AncestorsType, ParentInBlock
<1>2. DOMAIN idx.undo \subseteq idx.data
  BY DEF IndexSound, Index
<1> QED
  BY <1>1, <1>2 DEF Recorded

LEMMA RecordedGenesis ==
  ASSUME NEW idx, Genesis \in idx.data
  PROVE  Recorded(idx, Genesis)
BY AncestorsStep DEF Recorded

\* An index keeps what it recorded when it grows.
LEMMA RecordedMore ==
  ASSUME NEW idx, NEW new, idx.data \subseteq new.data, DOMAIN idx.undo \subseteq DOMAIN new.undo,
         NEW b, Recorded(idx, b)
  PROVE  Recorded(new, b)
BY DEF Recorded

\* The index with fields d, f, u and s.
Fields(idx, d, f, u, s) == idx = [data |-> d, failed |-> f, undo |-> u, supply |-> s]

LEMMA FieldsAre ==
  ASSUME NEW idx, NEW d, NEW f, NEW u, NEW s, Fields(idx, d, f, u, s)
  PROVE  idx.data = d /\ idx.failed = f /\ idx.undo = u /\ idx.supply = s
BY DEF Fields

LEMMA FieldsWithData ==
  ASSUME NEW idx, NEW d, NEW f, NEW u, NEW s, Fields(idx, d, f, u, s), NEW e
  PROVE  Fields([idx EXCEPT !.data = e], e, f, u, s)
BY DEF Fields

\* A sound index stays so when it gets more block data, ...
LEMMA MoreData ==
  ASSUME NEW idx, IndexSound(idx), NEW S \in SUBSET Block, NEW new,
         new = [idx EXCEPT !.data = @ \cup S]
  PROVE  IndexSound(new) /\ new.data = idx.data \cup S /\ new.undo = idx.undo
<1>1. Index(idx)
  BY Zenon DEF IndexSound
<1>2. /\ new = [data |-> new.data, failed |-> new.failed, undo |-> new.undo, supply |-> new.supply]
      /\ new.data = idx.data \cup S /\ new.failed = idx.failed
      /\ new.undo = idx.undo /\ new.supply = idx.supply
  BY <1>1 DEF Index
<1>3. Index(new)
  BY <1>1, <1>2 DEF Index
<1>4. ASSUME NEW b \in DOMAIN new.undo PROVE EntrySound(new, b)
  <2>1. EntrySound(idx, b)
    BY Zenon, <1>2 DEF IndexSound
  <2>2. Recorded(new, b)
    BY <1>2, <2>1 DEF EntrySound, Recorded
  <2> QED
    BY Zenon, <1>2, <2>1, <2>2 DEF EntrySound
<1> QED
  BY Zenon, <1>2, <1>3, <1>4 DEF IndexSound

\* ... when a block at fault is marked, ...
LEMMA MoreFailed ==
  ASSUME NEW idx, IndexSound(idx), NEW x \in idx.data, Faulty(x), NEW new,
         new = [idx EXCEPT !.failed = @ \cup {x}]
  PROVE  IndexSound(new) /\ new.data = idx.data /\ new.undo = idx.undo
<1>1. Index(idx)
  BY Zenon DEF IndexSound
<1>2. /\ new = [data |-> new.data, failed |-> new.failed, undo |-> new.undo, supply |-> new.supply]
      /\ new.failed = idx.failed \cup {x} /\ new.data = idx.data
      /\ new.undo = idx.undo /\ new.supply = idx.supply
  BY <1>1 DEF Index
<1>3. Index(new)
  BY <1>1, <1>2 DEF Index
<1>4. ASSUME NEW b \in DOMAIN new.undo PROVE EntrySound(new, b)
  <2>1. EntrySound(idx, b)
    BY Zenon, <1>2 DEF IndexSound
  <2> QED
    BY Zenon, <1>2, <2>1 DEF EntrySound, Recorded
<1>5. \A b \in new.failed : Faulty(b)
  BY <1>2 DEF IndexSound
<1> QED
  BY Zenon, <1>2, <1>3, <1>4, <1>5 DEF IndexSound

\* ... and when a block is connected to a recorded one.
LEMMA MoreUndo ==
  ASSUME NEW idx, IndexSound(idx), Genesis \in idx.data,
         NEW x \in Block \ {Genesis}, x \in idx.data, Recorded(idx, Parent[x]), Sound(x),
         NEW undo, Undo(x, undo), UndoRight(x, undo), NEW new,
         new = [idx EXCEPT !.undo = WriteUndoData(@, x, undo),
                           !.supply[x] = idx.supply[Parent[x]] + Minted(x)]
  PROVE  /\ IndexSound(new) /\ new.data = idx.data /\ DOMAIN new.undo = DOMAIN idx.undo \cup {x}
         /\ Recorded(new, x)
<1> DEFINE n == idx.supply[Parent[x]] + Minted(x)
<1>1. Index(idx) /\ Parent[x] \in Block /\ x \in Block
  BY Zenon, ParentInBlock DEF IndexSound
<1>2. /\ new = [data |-> new.data, failed |-> new.failed, undo |-> new.undo, supply |-> new.supply]
      /\ new.data = idx.data /\ new.failed = idx.failed
      /\ new.undo = WriteUndoData(idx.undo, x, undo)
      /\ new.supply = [idx.supply EXCEPT ![x] = n]
  <2> DEFINE w == WriteUndoData(idx.undo, x, undo)
             s == [idx.supply EXCEPT ![x] = n]
  <2>1. new = [data |-> idx.data, failed |-> idx.failed, undo |-> w, supply |-> s]
    BY Zenon, <1>1 DEF Index
  <2> HIDE DEF n, w, s
  <2>2. Fields(new, idx.data, idx.failed, w, s)
    BY Zenon, <2>1 DEF Fields
  <2>3. new.data = idx.data /\ new.failed = idx.failed /\ new.undo = w /\ new.supply = s
    BY Zenon, <2>2, FieldsAre
  <2> QED
    BY Zenon, <2>1, <2>3 DEF w, s
<1>3. /\ DOMAIN new.undo = DOMAIN idx.undo \cup {x}
      /\ \A a \in DOMAIN idx.undo : new.undo[a] = idx.undo[a]
      /\ x \notin DOMAIN idx.undo => new.undo[x] = undo
  BY <1>2 DEF WriteUndoData
<1>4. Recorded(new, x)
  BY <1>2, <1>3, AncestorsStep DEF Recorded
<1>5. SoundBranch(Parent[x]) /\ idx.supply[Parent[x]] = Supply(Parent[x])
  BY Zenon, <1>1, RecordedIs
<1>6. SoundBranch(x)
  BY Zenon, <1>5, SoundBranchStep
<1>7. n = Supply(x)
  BY Zenon, <1>5, <1>6, SupplyStep
<1> HIDE DEF n
<1>8. /\ new.supply[x] = Supply(x) /\ new.supply \in [Block -> Int]
      /\ \A a \in Block \ {x} : new.supply[a] = idx.supply[a]
  <2>1. n \in Int
    BY Zenon, <1>7, SupplyInt
  <2> QED
    BY <1>1, <1>2, <1>7, <2>1 DEF Index
<1>9. Undo(x, new.undo[x]) /\ UndoRight(x, new.undo[x])
  <2>1. CASE x \in DOMAIN idx.undo
    <3>1. EntrySound(idx, x) /\ Undo(x, idx.undo[x]) /\ new.undo[x] = idx.undo[x]
      BY Zenon, <1>3, <2>1 DEF IndexSound, Index
    <3> QED
      BY Zenon, <3>1 DEF EntrySound
  <2>2. CASE x \notin DOMAIN idx.undo
    BY Zenon, <1>3, <2>2
  <2> QED
    BY Zenon, <2>1, <2>2
<1>10. Index(new)
  <2>1. \A a \in DOMAIN new.undo : Undo(a, new.undo[a])
    BY <1>1, <1>3, <1>9 DEF Index
  <2>2. DOMAIN new.undo \subseteq new.data
    BY <1>1, <1>2, <1>3 DEF Index
  <2>3. new.data \subseteq Block /\ new.failed \subseteq new.data
    BY <1>1, <1>2 DEF Index
  <2> QED
    BY Zenon, <1>2, <1>8, <2>1, <2>2, <2>3 DEF Index
<1>11. ASSUME NEW b \in DOMAIN new.undo PROVE EntrySound(new, b)
  <2>1. CASE b = x
    BY Zenon, <1>4, <1>8, <1>9, <2>1 DEF EntrySound
  <2>2. CASE b # x
    <3>1. b \in DOMAIN idx.undo /\ b \in Block \ {x}
      BY <1>1, <1>3, <2>2 DEF Index
    <3>2. EntrySound(idx, b) /\ new.undo[b] = idx.undo[b] /\ new.supply[b] = idx.supply[b]
      BY Zenon, <1>3, <1>8, <3>1 DEF IndexSound
    <3>3. Recorded(new, b)
      BY <1>2, <1>3, <3>2 DEF EntrySound, Recorded
    <3> QED
      BY Zenon, <3>2, <3>3 DEF EntrySound
  <2> QED
    BY Zenon, <2>1, <2>2
<1>12. new.supply[Genesis] = 0
  BY <1>8, ParentInBlock DEF IndexSound
<1>13. \A b \in new.failed : Faulty(b)
  BY Zenon, <1>2 DEF IndexSound
<1> QED
  BY Zenon, <1>2, <1>3, <1>4, <1>10, <1>11, <1>12, <1>13 DEF IndexSound
-----------------------------------------------------------------------------
(* The steps. *)

LEMMA FreshSound ==
  /\ IndexSound(FreshIndex) /\ Genesis \in FreshIndex.data
  /\ IndexSound([FreshIndex EXCEPT !.data = {}])
<1> DEFINE zero == [b \in Block |-> 0]
<1>0. Genesis \in Block /\ zero[Genesis] = 0 /\ zero \in [Block -> Int] /\ DOMAIN <<>> = {}
  BY ParentInBlock
<1>1. Fields(FreshIndex, {Genesis}, {}, <<>>, zero)
  BY DEF Fields, FreshIndex
<1>2. Fields([FreshIndex EXCEPT !.data = {}], {}, {}, <<>>, zero)
  BY Zenon, <1>1, FieldsWithData
<1> HIDE DEF zero
<1>3. ASSUME NEW idx, NEW data \in SUBSET {Genesis}, Fields(idx, data, {}, <<>>, zero)
      PROVE  IndexSound(idx) /\ idx.data = data
  <2>1. idx.data = data /\ idx.failed = {} /\ idx.undo = <<>> /\ idx.supply = zero
    BY Zenon, <1>3, FieldsAre
  <2>2. idx = [data |-> idx.data, failed |-> idx.failed, undo |-> idx.undo, supply |-> idx.supply]
    BY Zenon, <1>3, <2>1 DEF Fields
  <2>3. Index(idx)
    BY <1>0, <2>1, <2>2 DEF Index
  <2> QED
    BY <1>0, <2>1, <2>3 DEF IndexSound
<1>4. {Genesis} \in SUBSET {Genesis} /\ {} \in SUBSET {Genesis}
  OBVIOUS
<1>5. IndexSound(FreshIndex) /\ FreshIndex.data = {Genesis}
  BY Zenon, <1>1, <1>3, <1>4
<1>6. IndexSound([FreshIndex EXCEPT !.data = {}])
  BY Zenon, <1>2, <1>3, <1>4
<1> QED
  BY Zenon, <1>5, <1>6

LEMMA InvInit == Init => Inv
<1> SUFFICES ASSUME Init PROVE Inv
  OBVIOUS
<1>1. Genesis \in Block /\ NoBlock \notin Block
  BY ParentInBlock
<1>2. /\ IndexSound(index) /\ Genesis \in index.data
      /\ IndexSound(diskIndex) /\ Index(index) /\ Index(diskIndex)
  BY Zenon, FreshSound DEF Init, IndexSound
<1>3. coins \in Coins /\ db \in Coins
  BY CoinsAre DEF Init, NoCoins, Coins
<1>4. TypeOK
  BY <1>1, <1>2, <1>3, TxsAssumption DEF TypeOK, Init, TxsAssumption
<1>5. DiskSound
  BY <1>2 DEF Init, DiskSound, SamePaying, U
<1>6. MemorySound
  <2>1. Recorded(index, tip)
    BY Zenon, <1>2, RecordedGenesis DEF Init
  <2>2. SamePaying(coins, Utxo[tip])
    BY UtxoOfGenesis DEF Init, SamePaying, Paying, NoCoins
  <2>3. diskIndex.data \subseteq index.data /\ DOMAIN diskIndex.undo \subseteq DOMAIN index.undo
    BY DEF Init, FreshIndex
  <2> QED
    BY <2>1, <2>2, <2>3 DEF Init, MemorySound
<1> QED
  BY <1>2, <1>4, <1>5, <1>6 DEF Inv, Init, DisconnectClean

\* What is left alone when only memory and the index in it grow.
LEMMA MemoryGrows ==
  ASSUME Inv, mode = "up", UNCHANGED <<diskIndex, db, best, heads, mode, crashes>>,
         IndexSound(index'), index.data \subseteq index'.data,
         DOMAIN index.undo \subseteq DOMAIN index'.undo,
         tip' \in Block, Recorded(index', tip'), coins' \in Coins, SamePaying(coins', Utxo[tip']),
         unclean' \subseteq Block, DisconnectClean'
  PROVE  Inv'
<1>1. TypeOK'
  BY DEF Inv, TypeOK, IndexSound
<1>2. DiskSound'
  BY Zenon DEF Inv, DiskSound
<1>3. MemorySound /\ Genesis \in index'.data
  BY DEF Inv
<1>4. diskIndex.data \subseteq index'.data /\ DOMAIN diskIndex.undo \subseteq DOMAIN index'.undo
  BY <1>3 DEF MemorySound
<1>5. MemorySound'
  BY Zenon, <1>3, <1>4 DEF MemorySound
<1> QED
  BY Zenon, <1>1, <1>2, <1>3, <1>5 DEF Inv

LEMMA InvAcceptBlock ==
  ASSUME Inv, NEW b \in Block \ {Genesis}, AcceptBlock(b)
  PROVE  Inv'
<1>1. /\ mode = "up" /\ index' = [index EXCEPT !.data = @ \cup {b}]
      /\ UNCHANGED <<diskIndex, db, best, heads, mode, crashes>>
      /\ UNCHANGED <<tip, coins, unclean>>
  BY DEF AcceptBlock, disk
<1>2. IndexSound(index') /\ index'.data = index.data \cup {b} /\ index'.undo = index.undo
  <2>1. {b} \in SUBSET Block /\ IndexSound(index)
    BY DEF Inv
  <2> QED
    BY Zenon, <1>1, <2>1, MoreData
<1>3. /\ MemorySound /\ index.data \subseteq index'.data
      /\ DOMAIN index.undo \subseteq DOMAIN index'.undo
  BY <1>1, <1>2 DEF Inv
<1>4. Recorded(index', tip') /\ SamePaying(coins', Utxo[tip'])
  BY Zenon, <1>1, <1>3, RecordedMore DEF MemorySound
<1>5. tip' \in Block /\ coins' \in Coins /\ unclean' \subseteq Block /\ DisconnectClean'
  BY Zenon, <1>1 DEF Inv, TypeOK, DisconnectClean
<1> QED
  BY Zenon, <1>1, <1>2, <1>3, <1>4, <1>5, MemoryGrows

LEMMA InvConnectTip ==
  ASSUME Inv, NEW b \in Block \ {Genesis}, ConnectTip(b)
  PROVE  Inv'
<1>1. /\ mode = "up" /\ b \in index.data /\ Parent[b] = tip
      /\ UNCHANGED <<diskIndex, db, best, heads, mode, crashes>>
      /\ unclean' = unclean
  BY DEF ConnectTip, disk
<1>2. PICK skipped :
        LET r == ConnectBlock(coins, b, skipped)
        IN  \/ /\ r.ok
               /\ coins' = r.coins
               /\ tip' = b
               /\ index' = [index EXCEPT !.undo = WriteUndoData(@, b, r.undo),
                                         !.supply[b] = index.supply[tip] + Minted(b)]
            \/ /\ ~r.ok
               /\ index' = [index EXCEPT !.failed = @ \cup {b}]
               /\ UNCHANGED <<coins, tip>>
  BY Zenon DEF ConnectTip
<1> DEFINE r == ConnectBlock(coins, b, skipped)
<1>3. /\ IndexSound(index) /\ Genesis \in index.data /\ Recorded(index, Parent[b])
      /\ SamePaying(coins, Utxo[Parent[b]]) /\ coins \in Coins /\ b \in Block
      /\ unclean' \subseteq Block /\ DisconnectClean' /\ tip \in Block
  BY Zenon, <1>1 DEF Inv, MemorySound, TypeOK, DisconnectClean
<1>4. SoundBranch(Parent[b])
  BY Zenon, <1>3, ParentInBlock, RecordedIs
<1>5. CASE r.ok
  <2>1. /\ coins' = r.coins /\ tip' = b
        /\ index' = [index EXCEPT !.undo = WriteUndoData(@, b, r.undo),
                                  !.supply[b] = index.supply[Parent[b]] + Minted(b)]
    BY Zenon, <1>1, <1>2, <1>5
  <2>2. Sound(b) /\ UndoRight(b, r.undo) /\ SamePaying(r.coins, Utxo[b])
    BY Zenon, <1>3, <1>4, <1>5, ConnectBlockRight
  <2>3. Undo(b, r.undo) /\ r.coins \in Coins
    <3>1. Connected(r, Views(coins, b, skipped), b)
      BY Zenon, <1>3, ConnectBlockIs
    <3> QED
      BY Zenon, <3>1 DEF Connected
  <2> HIDE DEF r
  <2>4. /\ IndexSound(index') /\ index'.data = index.data
        /\ DOMAIN index'.undo = DOMAIN index.undo \cup {b} /\ Recorded(index', b)
    BY Zenon, <1>1, <1>3, <2>1, <2>2, <2>3, MoreUndo
  <2>5. index.data \subseteq index'.data /\ DOMAIN index.undo \subseteq DOMAIN index'.undo
    BY <2>4
  <2> QED
    BY Zenon, <1>1, <1>3, <2>1, <2>2, <2>3, <2>4, <2>5, MemoryGrows
<1>6. CASE ~r.ok
  <2>1. index' = [index EXCEPT !.failed = @ \cup {b}] /\ coins' = coins /\ tip' = tip
    BY Zenon, <1>2, <1>6
  <2>2. Faulty(b)
    BY Zenon, <1>3, <1>4, <1>6, ConnectBlockRefuses DEF Faulty
  <2> HIDE DEF r
  <2>3. IndexSound(index') /\ index'.data = index.data /\ index'.undo = index.undo
    BY Zenon, <1>1, <1>3, <2>1, <2>2, MoreFailed
  <2>4. Recorded(index', tip') /\ SamePaying(coins', Utxo[tip'])
    BY Zenon, <1>1, <1>3, <2>1, <2>3 DEF Recorded
  <2>5. index.data \subseteq index'.data /\ DOMAIN index.undo \subseteq DOMAIN index'.undo
    BY <2>3
  <2> QED
    BY Zenon, <1>1, <1>3, <2>1, <2>3, <2>4, <2>5, MemoryGrows
<1> QED
  BY Zenon, <1>5, <1>6

LEMMA InvDisconnectTip ==
  ASSUME Inv, DisconnectTip
  PROVE  Inv'
<1> DEFINE r == DisconnectBlock(coins, tip, index.undo[tip])
<1>1. /\ mode = "up" /\ tip # Genesis /\ index' = index
      /\ UNCHANGED <<diskIndex, db, best, heads, mode, crashes>>
      /\ IF tip \in DOMAIN index.undo /\ r.clean
         THEN coins' = r.coins /\ tip' = Parent[tip] /\ UNCHANGED unclean
         ELSE unclean' = unclean \cup {tip} /\ UNCHANGED <<coins, tip>>
  BY Zenon DEF DisconnectTip, disk
<1>2. /\ IndexSound(index) /\ Genesis \in index.data /\ Recorded(index, tip) /\ DisconnectClean
      /\ SamePaying(coins, Utxo[tip]) /\ coins \in Coins /\ tip \in Block /\ unclean \subseteq Block
  BY Zenon, <1>1 DEF Inv, MemorySound, TypeOK
<1>3. tip \in Block \ {Genesis} /\ tip \in Ancestors[tip] \ {Genesis} /\ Parent[tip] \in Block
  BY <1>1, <1>2, AncestorsType, ParentInBlock
<1>4. SoundBranch(tip) /\ Undo(tip, index.undo[tip]) /\ UndoRight(tip, index.undo[tip])
  BY Zenon, <1>2, <1>3, RecordedIs DEF BranchUndo
<1>5. tip \in DOMAIN index.undo /\ Recorded(index, Parent[tip])
  BY Zenon, <1>2, <1>3, RecordedBelow DEF Recorded
<1>6. index.data \subseteq index'.data /\ DOMAIN index.undo \subseteq DOMAIN index'.undo /\ IndexSound(index')
  BY Zenon, <1>1, <1>2
<1>7. CASE r.clean
  <2>1. coins' = r.coins /\ tip' = Parent[tip] /\ unclean' = unclean
    BY Zenon, <1>1, <1>5, <1>7
  <2>2. r.coins \in Coins /\ SamePaying(r.coins, Utxo[Parent[tip]])
    BY Zenon, <1>2, <1>3, <1>4, DisconnectBlockRight, MixedExact
  <2> HIDE DEF r
  <2>3. Recorded(index', tip') /\ unclean' \subseteq Block /\ DisconnectClean'
    BY Zenon, <1>1, <1>2, <1>5, <2>1 DEF DisconnectClean
  <2> QED
    BY Zenon, <1>1, <1>3, <1>6, <2>1, <2>2, <2>3, MemoryGrows
<1>8. CASE ~r.clean
  <2>1. coins' = coins /\ tip' = tip /\ unclean' = unclean \cup {tip}
    BY Zenon, <1>1, <1>8
  <2>2. SpendsZeroValued(tip)
    BY Zenon, <1>2, <1>3, <1>4, <1>8, DisconnectBlockClean
  <2> HIDE DEF r
  <2>3. unclean' \subseteq Block /\ DisconnectClean'
    BY <1>2, <2>1, <2>2 DEF DisconnectClean
  <2> QED
    BY Zenon, <1>1, <1>2, <1>6, <2>1, <2>3, MemoryGrows
<1> QED
  BY Zenon, <1>7, <1>8

\* What is left alone when only the index on disk is replaced by that of memory.
LEMMA IndexWritten ==
  ASSUME Inv, mode = "up", diskIndex' = index, UNCHANGED <<index, tip, coins, db, best, heads, crashes, unclean>>,
         mode' \in {"up", "flush"}
  PROVE  Inv'
<1>1. MemorySound /\ heads = <<>> /\ IndexSound(index) /\ Index(index) /\ Recorded(index, tip)
  BY Zenon DEF Inv, MemorySound, IndexSound
<1>2. TypeOK'
  BY <1>1 DEF Inv, TypeOK
<1>3. best # NoBlock => Recorded(index, best)
  BY Zenon, <1>1, RecordedMore DEF Inv, DiskSound, MemorySound
<1>4. DiskSound'
  BY Zenon, <1>1, <1>3 DEF Inv, DiskSound
<1>5. MemorySound'
  BY Zenon, <1>1 DEF MemorySound
<1>6. DisconnectClean' /\ IndexSound(index') /\ Genesis \in index'.data
  BY Zenon, <1>1 DEF Inv, DisconnectClean
<1> QED
  BY Zenon, <1>2, <1>4, <1>5, <1>6 DEF Inv

LEMMA InvPartialBatch ==
  ASSUME Inv, PartialBatch
  PROVE  Inv'
<1>1. /\ mode = "flush" /\ heads' = <<tip, OldTip>> /\ best' = NoBlock
      /\ UNCHANGED <<index, diskIndex, tip, coins, mode, crashes, unclean>>
  BY DEF PartialBatch
<1>2. PICK S \in SUBSET Outpoint : db' = [o \in Outpoint |-> IF o \in S THEN coins[o] ELSE db[o]]
  BY DEF PartialBatch, Written
<1>3. /\ MemorySound /\ DiskSound /\ coins \in Coins /\ db \in Coins /\ tip \in Block
      /\ heads = <<>> \/ heads \in Block \X (Block \cup {NoBlock})
      /\ best \in Block \cup {NoBlock}
  BY <1>1 DEF Inv, TypeOK
<1>4. OldTip \in Block \cup {NoBlock} /\ (OldTip # NoBlock => Recorded(diskIndex, OldTip))
  BY <1>3 DEF OldTip, DiskSound
<1>5. SamePaying(coins, U(tip)) /\ Recorded(diskIndex, tip)
  BY <1>1, <1>3, ParentInBlock DEF MemorySound, U
<1>6. Between(db, U(OldTip), U(tip))
  <2>1. CASE heads = <<>>
    BY <1>3, <2>1 DEF DiskSound, OldTip, Between, SamePaying
  <2>2. CASE heads # <<>>
    BY Zenon, <1>1, <1>3, <2>2 DEF DiskSound, MemorySound, OldTip
  <2> QED
    BY Zenon, <2>1, <2>2
<1>7. Between(db', U(OldTip), U(tip))
  BY <1>2, <1>5, <1>6 DEF Between, SamePaying, Paying
<1>8. db' \in Coins
  BY <1>2, <1>3 DEF Coins
<1>9. heads' \in Block \X (Block \cup {NoBlock}) /\ heads'[1] = tip /\ heads'[2] = OldTip /\ heads' # <<>>
  BY <1>1, <1>3, <1>4
<1>10. TypeOK'
  BY <1>1, <1>8, <1>9 DEF Inv, TypeOK
<1>11. DiskSound'
  BY Zenon, <1>1, <1>3, <1>4, <1>5, <1>7, <1>9 DEF DiskSound
<1>12. MemorySound'
  BY <1>1, <1>3, <1>9 DEF MemorySound
<1>13. DisconnectClean' /\ IndexSound(index') /\ Genesis \in index'.data
  BY Zenon, <1>1 DEF Inv, DisconnectClean
<1> QED
  BY Zenon, <1>10, <1>11, <1>12, <1>13 DEF Inv

LEMMA InvFinalBatch ==
  ASSUME Inv, FinalBatch
  PROVE  Inv'
<1>1. /\ mode = "flush" /\ heads' = <<>> /\ best' = tip /\ mode' = "up"
      /\ UNCHANGED <<index, diskIndex, tip, coins, crashes, unclean>>
  BY DEF FinalBatch
<1>2. MemorySound /\ DiskSound /\ coins \in Coins /\ tip \in Block
  BY <1>1 DEF Inv, TypeOK
<1>3. db' = coins
  BY <1>2 DEF FinalBatch, Written, Coins
<1>4. SamePaying(db', U(tip)) /\ Recorded(diskIndex, tip)
  BY <1>1, <1>2, <1>3, ParentInBlock DEF MemorySound, U
<1>5. TypeOK'
  BY <1>1, <1>2, <1>3 DEF Inv, TypeOK
<1>6. DiskSound'
  BY Zenon, <1>1, <1>2, <1>4 DEF DiskSound
<1>7. MemorySound'
  BY Zenon, <1>1, <1>2 DEF MemorySound
<1>8. DisconnectClean' /\ IndexSound(index') /\ Genesis \in index'.data
  BY Zenon, <1>1 DEF Inv, DisconnectClean
<1> QED
  BY Zenon, <1>5, <1>6, <1>7, <1>8 DEF Inv

LEMMA InvCrash ==
  ASSUME Inv, Crash
  PROVE  Inv'
<1>1. /\ mode' = "down" /\ crashes < MaxCrashes /\ crashes' = crashes + 1
      /\ index' = FreshIndex /\ tip' = Genesis /\ coins' = NoCoins
      /\ UNCHANGED <<diskIndex, db, best, heads, unclean>>
  BY DEF Crash, disk
<1>2. IndexSound(index') /\ Genesis \in index'.data /\ Index(index')
  BY Zenon, <1>1, FreshSound DEF IndexSound
<1>3. NoCoins \in Coins /\ Genesis \in Block
  BY CoinsAre, ParentInBlock DEF NoCoins, Coins
<1>4. TypeOK'
  <2>1. crashes' \in 0..MaxCrashes
    BY <1>1, TxsAssumption DEF Inv, TypeOK, TxsAssumption
  <2> QED
    BY <1>1, <1>2, <1>3, <2>1 DEF Inv, TypeOK
<1>5. DiskSound' /\ DisconnectClean'
  BY Zenon, <1>1 DEF Inv, DiskSound, DisconnectClean
<1> QED
  BY <1>1, <1>2, <1>4, <1>5 DEF Inv

\* What is left alone when a node starts.
LEMMA Started ==
  ASSUME Inv, UNCHANGED <<diskIndex, db, best, heads, crashes, unclean>>, LoadBlockIndex,
         tip' \in Block, tip' = Genesis \/ Recorded(diskIndex, tip'),
         coins' \in Coins, SamePaying(coins', Utxo[tip']),
         \/ mode' = "up" /\ heads = <<>>
         \/ mode' = "flush" /\ heads # <<>> /\ heads[1] = tip' /\ Recorded(diskIndex, tip')
  PROVE  Inv'
<1>1. IndexSound(diskIndex) /\ {Genesis} \in SUBSET Block
  BY ParentInBlock DEF Inv, DiskSound
<1>2. /\ IndexSound(index') /\ index'.data = diskIndex.data \cup {Genesis}
      /\ index'.undo = diskIndex.undo
  BY Zenon, <1>1, MoreData DEF LoadBlockIndex
<1>3. /\ Genesis \in index'.data /\ diskIndex.data \subseteq index'.data
      /\ DOMAIN diskIndex.undo \subseteq DOMAIN index'.undo
  BY <1>2
<1>4. Recorded(index', tip')
  BY Zenon, <1>3, RecordedMore, RecordedGenesis
<1>5. TypeOK'
  BY <1>2 DEF Inv, TypeOK, IndexSound
<1>6. DiskSound' /\ DisconnectClean'
  BY Zenon DEF Inv, DiskSound, DisconnectClean
<1>7. MemorySound'
  BY <1>3, <1>4 DEF MemorySound
<1> QED
  BY Zenon, <1>2, <1>3, <1>5, <1>6, <1>7 DEF Inv

LEMMA InvLoadChainTip ==
  ASSUME Inv, LoadChainTip
  PROVE  Inv'
<1>1. /\ heads = <<>> /\ LoadBlockIndex /\ coins' = db /\ mode' = "up"
      /\ tip' = IF best = NoBlock THEN Genesis ELSE best
      /\ UNCHANGED <<diskIndex, db, best, heads, crashes, unclean>>
  BY DEF LoadChainTip, disk
<1>2. /\ best \in Block \cup {NoBlock} /\ db \in Coins /\ SamePaying(db, U(best))
      /\ best # NoBlock => Recorded(diskIndex, best)
  BY <1>1 DEF Inv, TypeOK, DiskSound
<1>3. tip' \in Block /\ (tip' = Genesis \/ Recorded(diskIndex, tip'))
  BY <1>1, <1>2, ParentInBlock
<1>4. SamePaying(coins', Utxo[tip'])
  <2>1. CASE best = NoBlock
    BY <1>1, <1>2, <2>1, UtxoOfGenesis DEF SamePaying, Paying
  <2>2. CASE best # NoBlock
    BY <1>1, <1>2, <2>2 DEF U
  <2> QED
    BY Zenon, <2>1, <2>2
<1> QED
  BY Zenon, <1>1, <1>2, <1>3, <1>4, Started

\* What the marker stands for.
LEMMA HeadsAre ==
  ASSUME Inv, heads # <<>>
  PROVE  /\ heads[1] \in Block /\ heads[2] \in Block \cup {NoBlock}
         /\ Recorded(diskIndex, heads[1]) /\ (heads[2] # NoBlock => Recorded(diskIndex, heads[2]))
         /\ Replayed(db, diskIndex.undo, heads[1], heads[2]) \in Coins
         /\ SamePaying(Replayed(db, diskIndex.undo, heads[1], heads[2]), Utxo[heads[1]])
<1> DEFINE new == heads[1]
           old == heads[2]
<1>1. new \in Block /\ old \in Block \cup {NoBlock}
  BY DEF Inv, TypeOK
<1>2. /\ Recorded(diskIndex, new) /\ (old # NoBlock => Recorded(diskIndex, old))
      /\ Between(db, U(old), U(new)) /\ IndexSound(diskIndex) /\ db \in Coins
  BY Zenon DEF Inv, TypeOK, DiskSound
<1> HIDE DEF new, old
<1>3. SoundBranch(new)
  BY Zenon, <1>1, <1>2, RecordedIs
<1>4. old # NoBlock => BranchUndo(old, diskIndex.undo)
  <2>1. ASSUME old # NoBlock PROVE old \in Block
    BY <1>1, <2>1
  <2> QED
    BY Zenon, <1>2, <2>1, RecordedIs
<1>5. /\ Replayed(db, diskIndex.undo, new, old) \in Coins
      /\ SamePaying(Replayed(db, diskIndex.undo, new, old), Utxo[new])
  BY Zenon, <1>1, <1>2, <1>3, <1>4, ReplayRight
<1> QED
  BY Zenon, <1>1, <1>2, <1>5 DEF new, old

LEMMA InvReplayBlocks ==
  ASSUME Inv, ReplayBlocks
  PROVE  Inv'
<1>1. /\ heads # <<>> /\ LoadBlockIndex /\ tip' = heads[1] /\ mode' = "flush"
      /\ coins' = Replayed(db, diskIndex.undo, heads[1], heads[2])
      /\ UNCHANGED <<diskIndex, db, best, heads, crashes, unclean>>
  BY DEF ReplayBlocks, disk
<1>2. /\ tip' \in Block /\ Recorded(diskIndex, tip')
      /\ coins' \in Coins /\ SamePaying(coins', Utxo[tip'])
  BY Zenon, <1>1, HeadsAre
<1> QED
  BY Zenon, <1>1, <1>2, Started

LEMMA InvStutter ==
  ASSUME Inv, UNCHANGED vars
  PROVE  Inv'
<1>1. UNCHANGED <<index, diskIndex, tip, coins, db, best, heads, mode, crashes, unclean>>
  BY DEF vars
<1>2. TypeOK'
  BY Zenon, <1>1 DEF Inv, TypeOK
<1>3. DiskSound' /\ DisconnectClean' /\ (mode' # "down" => MemorySound')
  BY Zenon, <1>1 DEF Inv, DiskSound, DisconnectClean, MemorySound
<1> QED
  BY Zenon, <1>1, <1>2, <1>3 DEF Inv

LEMMA InvNext == Inv /\ [Next]_vars => Inv'
<1> SUFFICES ASSUME Inv, [Next]_vars PROVE Inv'
  OBVIOUS
<1>1. CASE \E b \in Block \ {Genesis} : AcceptBlock(b) \/ ConnectTip(b)
  BY Zenon, <1>1, InvAcceptBlock, InvConnectTip
<1>2. CASE DisconnectTip
  BY Zenon, <1>2, InvDisconnectTip
<1>3. CASE WriteBlockIndex
  <2>1. /\ mode = "up" /\ diskIndex' = index /\ mode' \in {"up", "flush"}
        /\ UNCHANGED <<index, tip, coins, db, best, heads, crashes, unclean>>
    BY <1>3 DEF WriteBlockIndex
  <2> QED
    BY Zenon, <2>1, IndexWritten
<1>4. CASE FlushStateToDisk
  <2>1. /\ mode = "up" /\ diskIndex' = index /\ mode' \in {"up", "flush"}
        /\ UNCHANGED <<index, tip, coins, db, best, heads, crashes, unclean>>
    BY <1>4 DEF FlushStateToDisk
  <2> QED
    BY Zenon, <2>1, IndexWritten
<1>5. CASE PartialBatch
  BY Zenon, <1>5, InvPartialBatch
<1>6. CASE FinalBatch
  BY Zenon, <1>6, InvFinalBatch
<1>7. CASE Crash
  BY Zenon, <1>7, InvCrash
<1>8. CASE LoadChainTip
  BY Zenon, <1>8, InvLoadChainTip
<1>9. CASE ReplayBlocks
  BY Zenon, <1>9, InvReplayBlocks
<1>10. CASE UNCHANGED vars
  BY Zenon, <1>10, InvStutter
<1> QED
  BY Zenon, <1>1, <1>2, <1>3, <1>4, <1>5, <1>6, <1>7, <1>8, <1>9, <1>10 DEF Next
-----------------------------------------------------------------------------
(* The theorems. *)

LEMMA InvInvariant == Spec => []Inv
BY InvInit, InvNext, PTL DEF Spec

\* ReplayBlocks does not stop for want of block data or undo data.
LEMMA MarkerReplayable ==
  ASSUME Inv, heads # <<>>
  PROVE  Replayable(diskIndex, heads[1], heads[2])
<1> DEFINE new == heads[1]
           old == heads[2]
           fork == Fork(new, old)
<1>1. /\ new \in Block /\ old \in Block \cup {NoBlock} /\ Recorded(diskIndex, new)
      /\ old # NoBlock => Recorded(diskIndex, old)
  BY Zenon, HeadsAre
<1>2. DOMAIN diskIndex.undo \subseteq diskIndex.data
  BY DEF Inv, DiskSound, IndexSound, Index
<1> HIDE DEF new, old
<1>3. fork \in Block
  <2>1. CASE old = NoBlock
    BY <2>1, ParentInBlock DEF Fork
  <2>2. CASE old # NoBlock
    <3>1. old \in Block /\ fork = LastCommonAncestor(old, new)
      BY <1>1, <2>2 DEF Fork
    <3> HIDE DEF fork
    <3> QED
      BY Zenon, <1>1, <3>1, LastCommonAncestorIs, AncestorsType
  <2> QED
    BY Zenon, <2>1, <2>2
<1>4. Genesis \in Ancestors[fork]
  BY Zenon, <1>3, AncestorsType
<1>5. Ancestors[new] \ Ancestors[fork] \subseteq diskIndex.data
  BY <1>1, <1>2, <1>4 DEF Recorded
<1>6. old # NoBlock => Ancestors[old] \ Ancestors[fork] \subseteq DOMAIN diskIndex.undo
  BY <1>1, <1>4 DEF Recorded
<1>7. {new, old} \subseteq diskIndex.data \cup {NoBlock}
  BY <1>1 DEF Recorded
<1>8. Replayable(diskIndex, new, old)
  BY Zenon, <1>5, <1>6, <1>7 DEF Replayable
<1> QED
  BY Zenon, <1>8 DEF new, old

(* One of the two ways up is open to a node that is down: the guards of
   LoadChainTip, or those of ReplayBlocks. *)
CanStart ==
  mode = "down" => IF heads = <<>> THEN best \in diskIndex.data \cup {NoBlock}
                   ELSE Replayable(diskIndex, heads[1], heads[2])

(* The block index, the coins, the markers and the counters keep their types,
   whatever is connected, disconnected, written, lost or replayed. *)
THEOREM TypesCorrect == Spec => []TypeOK
<1>1. Inv => TypeOK
  BY Zenon DEF Inv
<1> QED
  BY <1>1, InvInvariant, PTL

(* The coins of a running node are the unspent paying outputs of its tip, for
   every tree of blocks, every choice of transactions and any number of
   reorganisations, flushes, crashes and replays (ConnectBlock, DisconnectBlock,
   ReplayBlocks). *)
THEOREM TipCoinsRight == Spec => []TipCoinsExact
<1>1. Inv => TipCoinsExact
  BY Zenon DEF Inv, MemorySound, TipCoinsExact
<1> QED
  BY <1>1, InvInvariant, PTL

(* Whichever batches of however many interrupted flushes and replays reached
   the disk, ReplayBlocks has the block data and the undo data that it needs and
   turns the coins database into the outputs of the marker's new tip; without a
   marker the database is that of its best block (BatchWrite, ReplayBlocks). *)
THEOREM DiskCanBeRepaired == Spec => []DiskRecoverable
<1>1. ASSUME Inv, heads = <<>> PROVE DiskRecoverable
  BY <1>1 DEF Inv, DiskSound, DiskRecoverable, U
<1>2. ASSUME Inv, heads # <<>> PROVE DiskRecoverable
  <2>1. Replayable(diskIndex, heads[1], heads[2])
    BY Zenon, <1>2, MarkerReplayable
  <2> QED
    BY Zenon, <1>2, <2>1, HeadsAre DEF DiskRecoverable
<1>3. Inv => DiskRecoverable
  BY Zenon, <1>1, <1>2
<1> QED
  BY <1>3, InvInvariant, PTL

(* A node that is down finds one of its two ways up open: LoadChainTip when the
   database has no marker, as its best block is in the index that was written
   before it, or else ReplayBlocks. *)
THEOREM StartNeverRefused == Spec => []CanStart
<1>1. ASSUME Inv PROVE CanStart
  BY <1>1, MarkerReplayable DEF Inv, TypeOK, DiskSound, Recorded, CanStart
<1> QED
  BY <1>1, InvInvariant, PTL

(* nMoneySupply of the tip is what the UTXO set pays, for all transactions and
   values: neither a reorganisation, nor a figure read back from disk, nor a
   zero-valued output left behind makes them differ (ConnectBlock). *)
THEOREM SupplyRight == Spec => []SupplyExact
<1>1. ASSUME Inv, mode # "down" PROVE index.supply[tip] = Total({o \in Outpoint : coins[o] # NoCoin})
  <2>1. IndexSound(index) /\ Recorded(index, tip) /\ SamePaying(coins, Utxo[tip]) /\ tip \in Block
    BY Zenon, <1>1 DEF Inv, MemorySound, TypeOK
  <2>2. index.supply[tip] = Supply(tip)
    BY Zenon, <2>1, RecordedIs
  <2>3. Total(There(coins)) = Total(There(Utxo[tip]))
    BY Zenon, <2>1, TotalSame
  <2> QED
    BY Zenon, <2>2, <2>3 DEF Supply, There
<1> QED
  BY <1>1, InvInvariant, PTL DEF SupplyExact

(* DisconnectTip finds undo data, its block's own outputs and none of its
   inputs, for every block that spends no zero-valued output (DisconnectBlock,
   ApplyTxInUndo). *)
THEOREM DisconnectsCleanly == Spec => []DisconnectClean
<1>1. Inv => DisconnectClean
  BY Zenon DEF Inv
<1> QED
  BY <1>1, InvInvariant, PTL

(* No block is marked failed, in memory or on disk, that its own branch lets
   connect, unless it spends a zero-valued output (ConnectBlock,
   InvalidBlockFound). *)
THEOREM FailuresAreDeserved == Spec => []OnlyInvalidFails
<1>1. Inv => OnlyInvalidFails
  BY DEF Inv, DiskSound, IndexSound, Faulty, OnlyInvalidFails
<1> QED
  BY <1>1, InvInvariant, PTL
=============================================================================
