-------------------------- MODULE TxDownloadProofs --------------------------
(***************************************************************************)
(* Safety of TxDownload, for every set of transactions, peers and blocks   *)
(* and any ranking of the peers, with the limits whatever they are.        *)
(*                                                                         *)
(* The argument goes bottom up.  Each operation on the announcements of    *)
(* one transaction keeps its row well selected (RowOK); a row put in the   *)
(* tracker changes the counters of every peer by what it adds and removes  *)
(* (TrackerOK); the orphanage's list and positions stay inverse to each    *)
(* other (Listed).  A handler is then a step of the node m (NodeStep): it  *)
(* keeps both structures, announces nothing the node has, and leaves no    *)
(* orphan behind.  Inductive is that both structures are in order and name *)
(* no peer that has left (IInv); the two action properties follow from it. *)
(*                                                                         *)
(* The constants of the block tree come with the shared lemmas and are not *)
(* used.                                                                   *)
(***************************************************************************)
EXTENDS TxDownload, CommonProofs

-----------------------------------------------------------------------------
(* The announcements of one transaction. *)

Row == [Peer -> Announcement]
RowOK(r, t) == r \in Row /\ WellSelected(r, t)

\* No announcement appears.
Keeps(r, r2) == \A q \in Peer : r[q].st = "none" => r2[q].st = "none"

\* A transaction nobody has announced.
LEMMA NoRowOK ==
    ASSUME NEW t \in Tx
    PROVE  RowOK(NoRow, t)
  <1>1. NoRow \in Row /\ \A q \in Peer : NoRow[q].st = "none"
    BY Zenon DEF NoRow, None, Row, Announcement
  <1> HIDE DEF NoRow
  <1> QED
    BY Zenon, <1>1 DEF RowOK, WellSelected, In, Selected, Open, Candidate

\* SetState changes the announcement of one peer.
LEMMA SetStateIs ==
    ASSUME NEW r \in Row, NEW p \in Peer, NEW st \in Open \cup {"none", "completed"}
    PROVE  /\ SetState(r, p, st) \in Row
           /\ SetState(r, p, st)[p].st = st
           /\ \A q \in Peer \ {p} : SetState(r, p, st)[q] = r[q]
  BY Zenon DEF SetState, Row, Announcement

\* A candidate that comes due is selected, or waits behind the selected one.
LEMMA PromoteOK ==
    ASSUME NEW t \in Tx, NEW r, RowOK(r, t), NEW p \in Peer, r[p].st = "delayed"
    PROVE  RowOK(PromoteCandidateReady(r, t, p), t) /\ Keeps(r, PromoteCandidateReady(r, t, p))
  <1> DEFINE c == PromoteCandidateReady(r, t, p)
  <1>0. r \in Row /\ WellSelected(r, t)
    BY Zenon DEF RowOK
  <1>1. CASE \/ \E q \in In(r, Selectable) : Rank[t][q] > Rank[t][p]
             \/ In(r, {"requested"}) # {}
    <2>1. c = SetState(r, p, "ready")
      BY Zenon, <1>1 DEF PromoteCandidateReady
    <2> HIDE DEF c
    <2>2. c \in Row /\ c[p].st = "ready" /\ \A q \in Peer \ {p} : c[q] = r[q]
      <3>1. "ready" \in Open \cup {"none", "completed"}
        BY Zenon DEF Open, Candidate
      <3> QED
        BY Zenon, <1>0, <2>1, <3>1, SetStateIs
    <2>3. WellSelected(c, t)
      <3>1. In(c, Selected) = In(r, Selected) /\ In(c, {"best"}) = In(r, {"best"})
            /\ In(c, {"completed"}) = In(r, {"completed"})
        BY Zenon, <2>2 DEF In, Selected
      <3>2. In(c, {"ready"}) = In(r, {"ready"}) \cup {p} /\ p \in In(c, Open)
        BY Zenon, <2>2 DEF In, Open, Candidate
      <3>3. In(r, Selected) # {}
        BY Zenon, <1>0, <1>1 DEF WellSelected, In, Selected, Selectable
      <3>4. ASSUME NEW b \in In(r, {"best"}) PROVE Rank[t][b] > Rank[t][p]
        <4>1. In(r, {"requested"}) = {}
          BY <1>0 DEF WellSelected, In, Selected
        <4>2. PICK q \in In(r, Selectable) : Rank[t][q] > Rank[t][p]
          BY Zenon, <1>1, <4>1
        <4>3. q = b \/ Rank[t][b] > Rank[t][q]
          BY Zenon, <1>0 DEF WellSelected, In, Selected, Selectable
        <4>4. Rank[t][b] \in Nat /\ Rank[t][p] \in Nat /\ Rank[t][q] \in Nat
          BY Zenon, RankAssumption DEF RankAssumption, In
        <4> QED
          BY <4>2, <4>3, <4>4
      <3> QED
        BY Zenon, <1>0, <3>1, <3>2, <3>3, <3>4 DEF WellSelected
    <2> QED
      BY Zenon, <1>0, <2>2, <2>3 DEF RowOK, Keeps, c
  <1>2. CASE ~(\/ \E q \in In(r, Selectable) : Rank[t][q] > Rank[t][p]
               \/ In(r, {"requested"}) # {})
    <2>1. c = [q \in Peer |-> CASE q = p -> [r[q] EXCEPT !.st = "best"]
                                [] q # p /\ r[q].st = "best" -> [r[q] EXCEPT !.st = "ready"]
                                [] OTHER -> r[q]]
      BY Zenon, <1>2 DEF PromoteCandidateReady
    <2>2. /\ c \in Row /\ c[p].st = "best"
          /\ \A q \in Peer \ {p} : c[q].st = IF r[q].st = "best" THEN "ready" ELSE r[q].st
      BY <1>0, <2>1 DEF Row, Announcement, Open, Candidate
    <2> HIDE DEF c
    <2>3. \A q \in Peer : r[q].st # "requested"
      BY Zenon, <1>2 DEF In
    <2>4. In(c, Selected) = {p} /\ In(c, {"best"}) = {p} /\ p \in In(c, Open)
      BY Zenon, <2>2, <2>3 DEF In, Selected, Open, Candidate
    <2>5. ASSUME NEW q \in In(c, {"ready"}) PROVE Rank[t][p] > Rank[t][q]
      <3>1. q \in Peer /\ q # p /\ q \in In(r, Selectable)
        BY Zenon, <2>2 DEF In, Selectable
      <3>2. ~(Rank[t][q] > Rank[t][p]) /\ Rank[t][q] # Rank[t][p]
            /\ Rank[t][p] \in Nat /\ Rank[t][q] \in Nat
        BY Zenon, <1>2, <3>1, RankAssumption DEF RankAssumption
      <3> QED
        BY <3>2
    <2>6. WellSelected(c, t)
      BY Zenon, <2>4, <2>5 DEF WellSelected
    <2>7. Keeps(r, c)
      BY Zenon, <2>2 DEF Keeps
    <2> QED
      BY Zenon, <2>2, <2>6, <2>7 DEF RowOK, c
  <1> QED
    BY Zenon, <1>1, <1>2

\* The CANDIDATE_READY that ChangeAndReselect picks.
BestOf(t, ready) == CHOOSE q \in ready : \A x \in ready : Rank[t][q] >= Rank[t][x]

\* No two peers have the same priority for a transaction.
LEMMA RanksDiffer ==
    ASSUME NEW t \in Tx, NEW p \in Peer, NEW q \in Peer
    PROVE  /\ Rank[t][p] \in Nat /\ Rank[t][q] \in Nat
           /\ p # q /\ Rank[t][p] >= Rank[t][q] => Rank[t][p] > Rank[t][q]
  <1>1. Rank[t][p] \in Nat /\ Rank[t][q] \in Nat
    BY Zenon, RankAssumption DEF RankAssumption
  <1>2. p # q => Rank[t][p] # Rank[t][q]
    BY Zenon, RankAssumption DEF RankAssumption
  <1> QED
    BY <1>1, <1>2

\* It exists and ranks above the others.
LEMMA BestReady ==
    ASSUME NEW t \in Tx, NEW ready \in SUBSET Peer, ready # {}
    PROVE  BestOf(t, ready) \in ready
           /\ \A x \in ready \ {BestOf(t, ready)} : Rank[t][BestOf(t, ready)] > Rank[t][x]
  <1> DEFINE R == {e \in Peer \X Peer : Rank[t][e[2]] >= Rank[t][e[1]]}
             b == BestOf(t, ready)
  <1>1. IsFiniteSet(ready)
    BY Zenon, RankAssumption, FS_Subset DEF RankAssumption
  <1>2. \A x \in Peer : Rank[t][x] \in Nat
    BY Zenon, RanksDiffer
  <1>3. \A x, y \in ready : <<x, y>> \in R <=> Rank[t][y] >= Rank[t][x]
    BY Zenon
  <1> HIDE DEF R, b
  <1>4. /\ \A x, y \in ready : <<x, y>> \in R \/ <<y, x>> \in R
        /\ \A x, y, z \in ready : <<x, y>> \in R /\ <<y, z>> \in R => <<x, z>> \in R
    BY <1>2, <1>3
  <1>5. \E q \in ready : \A x \in ready : Rank[t][q] >= Rank[t][x]
    <2>1. \E q \in ready : \A x \in ready : <<x, q>> \in R
      BY Zenon, <1>1, <1>4, LargestExists
    <2> QED
      BY Zenon, <1>3, <2>1
  <1>6. b \in ready /\ \A x \in ready : Rank[t][b] >= Rank[t][x]
    BY Zenon, <1>5 DEF b, BestOf
  <1>7. ASSUME NEW x \in ready \ {b} PROVE Rank[t][b] > Rank[t][x]
    BY Zenon, <1>6, RanksDiffer
  <1> QED
    BY Zenon, <1>6, <1>7 DEF b

\* An announcement that is open and not the only one gives way.
LEMMA ChangeOK ==
    ASSUME NEW t \in Tx, NEW r, RowOK(r, t), NEW p \in Peer, r[p].st \in Open,
           NEW st \in {"delayed", "completed"},
           st = "completed" => \E q \in Peer \ {p} : r[q].st \in Open
    PROVE  /\ RowOK(ChangeAndReselect(r, t, p, st), t)
           /\ Keeps(r, ChangeAndReselect(r, t, p, st))
           /\ ChangeAndReselect(r, t, p, st)[p].st = st
  <1> DEFINE c == ChangeAndReselect(r, t, p, st)
             ready == In(r, {"ready"})
             b == BestOf(t, ready)
  <1>0. r \in Row /\ WellSelected(r, t) /\ st \in Open \cup {"none", "completed"}
    BY Zenon DEF RowOK, Open, Candidate
  <1>1. CASE r[p].st \in Selected /\ ready # {}
    <2>1. c = SetState(SetState(r, b, "best"), p, st)
      BY Zenon, <1>1 DEF ChangeAndReselect, BestOf
    <2>2. b \in ready /\ \A x \in ready \ {b} : Rank[t][b] > Rank[t][x]
      <3>1. ready \in SUBSET Peer
        BY Zenon DEF In
      <3> QED
        BY Zenon, <1>1, <3>1, BestReady
    <2> HIDE DEF b, c
    <2> DEFINE s == SetState(r, b, "best")
    <2>3. b \in Peer /\ b # p /\ r[b].st = "ready"
      BY Zenon, <1>1, <2>2 DEF In, Selected
    <2>4. s \in Row /\ s[b].st = "best" /\ \A q \in Peer \ {b} : s[q] = r[q]
      <3>1. "best" \in Open \cup {"none", "completed"}
        BY Zenon DEF Open, Candidate
      <3> QED
        BY <1>0, <2>3, <3>1, SetStateIs
    <2> HIDE DEF s
    <2>5. c \in Row /\ c[p].st = st /\ \A q \in Peer \ {p} : c[q] = s[q]
      BY Zenon, <1>0, <2>1, <2>4, SetStateIs DEF s
    <2>6. c[b].st = "best" /\ \A q \in Peer \ {b, p} : c[q].st = r[q].st
      BY Zenon, <2>3, <2>4, <2>5
    <2>7. \A q \in Peer \ {p} : r[q].st \notin Selected
      BY Zenon, <1>0, <1>1 DEF WellSelected, In
    <2>8. In(c, Selected) = {b} /\ In(c, {"best"}) = {b} /\ b \in In(c, Open)
      BY <2>3, <2>5, <2>6, <2>7 DEF In, Selected, Open, Candidate
    <2>9. In(c, {"ready"}) \subseteq ready \ {b}
      BY Zenon, <2>3, <2>5, <2>6 DEF In
    <2>10. WellSelected(c, t)
      BY Zenon, <2>2, <2>8, <2>9 DEF WellSelected
    <2>11. Keeps(r, c)
      BY Zenon, <2>3, <2>6, <1>1 DEF Keeps, Selected
    <2> QED
      BY Zenon, <2>5, <2>10, <2>11 DEF RowOK, c
  <1>2. CASE ~(r[p].st \in Selected /\ ready # {})
    <2>1. c = SetState(r, p, st)
      BY Zenon, <1>2 DEF ChangeAndReselect
    <2> HIDE DEF c
    <2>2. c \in Row /\ c[p].st = st /\ \A q \in Peer \ {p} : c[q] = r[q]
      BY Zenon, <1>0, <2>1, SetStateIs
    <2>3. In(c, Selected) \subseteq In(r, Selected) \ {p}
          /\ In(c, {"best"}) \subseteq In(r, {"best"})
          /\ In(c, {"ready"}) \subseteq ready
      BY Zenon, <2>2 DEF In, Selected
    <2>4. In(c, {"ready"}) # {} => In(c, Selected) # {}
      <3>1. SUFFICES ASSUME In(c, {"ready"}) # {} PROVE In(c, Selected) # {}
        BY Zenon
      <3>2. PICK q \in Peer : r[q].st \in Selected
        BY Zenon, <1>0, <2>3, <3>1 DEF WellSelected, In
      <3>3. q # p
        BY Zenon, <1>2, <2>3, <3>1, <3>2
      <3> QED
        BY Zenon, <2>2, <3>2, <3>3 DEF In
    <2>5. In(c, Open) # {}
      <3>1. CASE st = "delayed"
        BY Zenon, <2>2, <3>1 DEF In, Open, Candidate
      <3>2. CASE st = "completed"
        BY Zenon, <2>2, <3>2 DEF In
      <3> QED
        BY Zenon, <3>1, <3>2
    <2>6. WellSelected(c, t)
      BY Zenon, <1>0, <2>3, <2>4, <2>5 DEF WellSelected
    <2>7. Keeps(r, c)
      BY Zenon, <2>2 DEF Keeps, Open, Candidate
    <2> QED
      BY Zenon, <2>2, <2>6, <2>7 DEF RowOK, c
  <1> QED
    BY Zenon, <1>1, <1>2

\* MakeCompleted of an announcement that exists: p's is completed, or all are gone.
LEMMA MakeCompletedOK ==
    ASSUME NEW t \in Tx, NEW r, RowOK(r, t), NEW p \in Peer, r[p].st # "none"
    PROVE  /\ RowOK(MakeCompleted(r, t, p), t) /\ Keeps(r, MakeCompleted(r, t, p))
           /\ MakeCompleted(r, t, p)[p].st \notin Open
  <1>0. r \in Row /\ r[p].st \in Open \cup {"completed"}
    BY Zenon DEF RowOK, Row, Announcement
  <1>1. CASE r[p].st = "completed"
    BY Zenon, <1>1 DEF MakeCompleted, Keeps, Open, Candidate
  <1>2. CASE r[p].st # "completed" /\ IsOnlyNonCompleted(r, p)
    <2>1. MakeCompleted(r, t, p) = NoRow
      BY Zenon, <1>2 DEF MakeCompleted
    <2>2. \A q \in Peer : NoRow[q].st = "none"
      BY Zenon DEF NoRow, None
    <2> QED
      BY Zenon, <2>1, <2>2, NoRowOK DEF Keeps, Open, Candidate
  <1>3. CASE r[p].st # "completed" /\ ~IsOnlyNonCompleted(r, p)
    <2>1. MakeCompleted(r, t, p) = ChangeAndReselect(r, t, p, "completed")
      BY Zenon, <1>3 DEF MakeCompleted
    <2>2. \E q \in Peer \ {p} : r[q].st \in Open
      BY Zenon, <1>0, <1>3 DEF IsOnlyNonCompleted, In
    <2>3. r[p].st \in Open /\ "completed" \in {"delayed", "completed"} /\ "completed" \notin Open
      BY Zenon, <1>0, <1>3 DEF Open, Candidate
    <2> DEFINE c == ChangeAndReselect(r, t, p, "completed")
    <2>4. RowOK(c, t) /\ Keeps(r, c) /\ c[p].st = "completed"
      BY Zenon, <2>2, <2>3, ChangeOK
    <2> HIDE DEF c
    <2> QED
      BY Zenon, <2>1, <2>3, <2>4 DEF c
  <1> QED
    BY Zenon, <1>1, <1>2, <1>3

\* One step of Due and one of Early.
DueStep(t, p, v) == CASE v[p].st = "delayed" -> PromoteCandidateReady(v, t, p)
                      [] v[p].st = "requested" -> MakeCompleted(v, t, p)
                      [] OTHER -> v
EarlyStep(t, p, v) == IF v[p].st \in Selectable THEN ChangeAndReselect(v, t, p, "delayed") ELSE v

\* V is closed under the steps.
DueCloses(t, S, V) == \A p \in S, v \in V : DueStep(t, p, v) \in V
EarlyCloses(t, S, V) == \A p \in S, v \in V : EarlyStep(t, p, v) \in V

\* What the promotions and timeouts preserve, Due preserves.
LEMMA DueStays ==
    ASSUME NEW t, NEW S, IsFiniteSet(S), NEW V, NEW r \in V, S = Passed(r, Waiting), DueCloses(t, S, V)
    PROVE  Due(r, t) \in V
  <1> DEFINE F == [x \in S |-> [v \in V |-> DueStep(t, x, v)]]
             Runs(g) == g = [s \in SUBSET S |-> IF s = {} THEN r
                                                ELSE DueStep(t, Pick(s), g[s \ {Pick(s)}])]
             h == CHOOSE g : Runs(g)
  <1>1. Due(r, t) = h[S]
    BY Zenon DEF Due, DueStep, FoldSet, MapThenFoldSet, Pick
  <1>2. F \in [S -> [V -> V]] /\ \A x \in S, v \in V : F[x][v] = DueStep(t, x, v)
    BY Zenon DEF DueCloses
  <1> HIDE DEF F
  <1>3. PICK g \in [SUBSET S -> V] : FoldOf(g, F, r, S)
    BY Zenon, <1>2, FoldExists
  <1>4. ASSUME NEW s \in SUBSET S
        PROVE  (IF s = {} THEN r ELSE F[Pick(s)][g[s \ {Pick(s)}]])
                 = IF s = {} THEN r ELSE DueStep(t, Pick(s), g[s \ {Pick(s)}])
    <2>1. CASE s # {}
      <3>1. Pick(s) \in S /\ g[s \ {Pick(s)}] \in V
        BY Zenon, <2>1 DEF Pick
      <3> QED
        BY Zenon, <1>2, <2>1, <3>1
    <2> QED
      BY Zenon, <2>1
  <1>5. Runs(g)
    <2>1. [s \in SUBSET S |-> IF s = {} THEN r ELSE F[Pick(s)][g[s \ {Pick(s)}]]]
            = [s \in SUBSET S |-> IF s = {} THEN r
                                   ELSE DueStep(t, Pick(s), g[s \ {Pick(s)}])]
      BY Zenon, <1>4
    <2> QED
      BY Zenon, <1>3, <2>1 DEF FoldOf
  <1>6. Runs(h)
    <2> HIDE DEF Runs
    <2> QED
      BY Zenon, <1>5
  <1> HIDE DEF h
  <1>7. /\ DOMAIN h = SUBSET S /\ h[{}] = r
        /\ \A s \in (SUBSET S) \ {{}} : h[s] = DueStep(t, Pick(s), h[s \ {Pick(s)}])
    BY Zenon, <1>6
  <1>8. h \in [SUBSET S -> V]
    <2> DEFINE T == {s \in SUBSET S : h[s] \in V}
    <2>1. Inductive(T, S)
      <3>1. ASSUME NEW s \in SUBSET S, s # {}, s \ {Pick(s)} \in T PROVE h[s] \in V
        <4>1. Pick(s) \in S
          BY Zenon, <3>1 DEF Pick
        <4>2. h[s \ {Pick(s)}] \in V /\ h[s] = DueStep(t, Pick(s), h[s \ {Pick(s)}])
          BY Zenon, <1>7, <3>1
        <4>3. DueStep(t, Pick(s), h[s \ {Pick(s)}]) \in V
          BY Zenon, <4>1, <4>2 DEF DueCloses
        <4> QED
          BY Zenon, <4>2, <4>3
      <3> QED
        BY Zenon, <1>7, <3>1 DEF Inductive
    <2>2. h = [s \in SUBSET S |-> h[s]]
      BY Zenon, <1>6
    <2> HIDE DEF T
    <2>3. T = SUBSET S
      BY <2>1, SubsetInduction, Zenon
    <2> QED
      BY Zenon, <2>2, <2>3 DEF T
  <1> QED
    BY Zenon, <1>1, <1>8

\* What the demotions preserve, Early preserves.
LEMMA EarlyStays ==
    ASSUME NEW t, NEW S, IsFiniteSet(S), NEW V, NEW r \in V, S = Ahead(r, Selectable), EarlyCloses(t, S, V)
    PROVE  Early(r, t) \in V
  <1> DEFINE F == [x \in S |-> [v \in V |-> EarlyStep(t, x, v)]]
             Runs(g) == g = [s \in SUBSET S |-> IF s = {} THEN r
                                                ELSE EarlyStep(t, Pick(s), g[s \ {Pick(s)}])]
             h == CHOOSE g : Runs(g)
  <1>1. Early(r, t) = h[S]
    BY Zenon DEF Early, EarlyStep, FoldSet, MapThenFoldSet, Pick
  <1>2. F \in [S -> [V -> V]] /\ \A x \in S, v \in V : F[x][v] = EarlyStep(t, x, v)
    BY Zenon DEF EarlyCloses
  <1> HIDE DEF F
  <1>3. PICK g \in [SUBSET S -> V] : FoldOf(g, F, r, S)
    BY Zenon, <1>2, FoldExists
  <1>4. ASSUME NEW s \in SUBSET S
        PROVE  (IF s = {} THEN r ELSE F[Pick(s)][g[s \ {Pick(s)}]])
                 = IF s = {} THEN r ELSE EarlyStep(t, Pick(s), g[s \ {Pick(s)}])
    <2>1. CASE s # {}
      <3>1. Pick(s) \in S /\ g[s \ {Pick(s)}] \in V
        BY Zenon, <2>1 DEF Pick
      <3> QED
        BY Zenon, <1>2, <2>1, <3>1
    <2> QED
      BY Zenon, <2>1
  <1>5. Runs(g)
    <2>1. [s \in SUBSET S |-> IF s = {} THEN r ELSE F[Pick(s)][g[s \ {Pick(s)}]]]
            = [s \in SUBSET S |-> IF s = {} THEN r
                                   ELSE EarlyStep(t, Pick(s), g[s \ {Pick(s)}])]
      BY Zenon, <1>4
    <2> QED
      BY Zenon, <1>3, <2>1 DEF FoldOf
  <1>6. Runs(h)
    <2> HIDE DEF Runs
    <2> QED
      BY Zenon, <1>5
  <1> HIDE DEF h
  <1>7. /\ DOMAIN h = SUBSET S /\ h[{}] = r
        /\ \A s \in (SUBSET S) \ {{}} : h[s] = EarlyStep(t, Pick(s), h[s \ {Pick(s)}])
    BY Zenon, <1>6
  <1>8. h \in [SUBSET S -> V]
    <2> DEFINE T == {s \in SUBSET S : h[s] \in V}
    <2>1. Inductive(T, S)
      <3>1. ASSUME NEW s \in SUBSET S, s # {}, s \ {Pick(s)} \in T PROVE h[s] \in V
        <4>1. Pick(s) \in S
          BY Zenon, <3>1 DEF Pick
        <4>2. h[s \ {Pick(s)}] \in V /\ h[s] = EarlyStep(t, Pick(s), h[s \ {Pick(s)}])
          BY Zenon, <1>7, <3>1
        <4>3. EarlyStep(t, Pick(s), h[s \ {Pick(s)}]) \in V
          BY Zenon, <4>1, <4>2 DEF EarlyCloses
        <4> QED
          BY Zenon, <4>2, <4>3
      <3> QED
        BY Zenon, <1>7, <3>1 DEF Inductive
    <2>2. h = [s \in SUBSET S |-> h[s]]
      BY Zenon, <1>6
    <2> HIDE DEF T
    <2>3. T = SUBSET S
      BY <2>1, SubsetInduction, Zenon
    <2> QED
      BY Zenon, <2>2, <2>3 DEF T
  <1> QED
    BY Zenon, <1>1, <1>8

\* Timed-out requests and due candidates are all dealt with.
LEMMA DueOK ==
    ASSUME NEW t \in Tx, NEW r, RowOK(r, t)
    PROVE  RowOK(Due(r, t), t) /\ Keeps(r, Due(r, t))
  <1> DEFINE V == {v \in Row : RowOK(v, t) /\ Keeps(r, v)}
             S == Passed(r, Waiting)
  <1>1. IsFiniteSet(S) /\ S \subseteq Peer
    BY Zenon, RankAssumption, FS_Subset DEF RankAssumption, Passed
  <1>2. r \in V
    BY Zenon DEF RowOK, Keeps
  <1>3. ASSUME NEW p \in Peer, NEW v \in V PROVE DueStep(t, p, v) \in V
    <2>0. RowOK(v, t) /\ Keeps(r, v)
      BY Zenon
    <2> DEFINE d == DueStep(t, p, v)
    <2>1. RowOK(d, t) /\ Keeps(v, d)
      <3>1. CASE v[p].st = "delayed"
        BY Zenon, <2>0, <3>1, PromoteOK DEF DueStep
      <3>2. CASE v[p].st = "requested"
        BY Zenon, <2>0, <3>2, MakeCompletedOK DEF DueStep
      <3>3. CASE v[p].st \notin {"delayed", "requested"}
        BY Zenon, <2>0, <3>3 DEF DueStep, Keeps
      <3> QED
        BY Zenon, <3>1, <3>2, <3>3
    <2> HIDE DEF d
    <2>2. Keeps(r, d)
      BY Zenon, <2>0, <2>1 DEF Keeps
    <2> QED
      BY Zenon, <2>1, <2>2 DEF RowOK, d
  <1>4. DueCloses(t, S, V)
    BY Zenon, <1>1, <1>3 DEF DueCloses
  <1>5. \A v \in V : RowOK(v, t) /\ Keeps(r, v)
    BY Zenon
  <1> HIDE DEF V, S
  <1>6. Due(r, t) \in V
    BY <1>1, <1>2, <1>4, DueStays, Zenon DEF S
  <1> QED
    BY Zenon, <1>5, <1>6

\* After a setback of the clock, candidates that are early again wait.
LEMMA EarlyOK ==
    ASSUME NEW t \in Tx, NEW r, RowOK(r, t)
    PROVE  RowOK(Early(r, t), t) /\ Keeps(r, Early(r, t))
  <1> DEFINE V == {v \in Row : RowOK(v, t) /\ Keeps(r, v)}
             S == Ahead(r, Selectable)
  <1>1. IsFiniteSet(S) /\ S \subseteq Peer
    BY Zenon, RankAssumption, FS_Subset DEF RankAssumption, Ahead
  <1>2. r \in V
    BY Zenon DEF RowOK, Keeps
  <1>3. ASSUME NEW p \in Peer, NEW v \in V PROVE EarlyStep(t, p, v) \in V
    <2>0. RowOK(v, t) /\ Keeps(r, v)
      BY Zenon
    <2> DEFINE d == EarlyStep(t, p, v)
    <2>1. RowOK(d, t) /\ Keeps(v, d)
      <3>1. CASE v[p].st \in Selectable
        <4>1. v[p].st \in Open
          BY Zenon, <3>1 DEF Selectable, Open, Candidate
        <4> QED
          BY Zenon, <2>0, <3>1, <4>1, ChangeOK DEF EarlyStep
      <3>2. CASE v[p].st \notin Selectable
        BY Zenon, <2>0, <3>2 DEF EarlyStep, Keeps
      <3> QED
        BY Zenon, <3>1, <3>2
    <2> HIDE DEF d
    <2>2. Keeps(r, d)
      BY Zenon, <2>0, <2>1 DEF Keeps
    <2> QED
      BY Zenon, <2>1, <2>2 DEF RowOK, d
  <1>4. EarlyCloses(t, S, V)
    BY Zenon, <1>1, <1>3 DEF EarlyCloses
  <1>5. \A v \in V : RowOK(v, t) /\ Keeps(r, v)
    BY Zenon
  <1> HIDE DEF V, S
  <1>6. Early(r, t) \in V
    BY <1>1, <1>2, <1>4, EarlyStays, Zenon DEF S
  <1> QED
    BY Zenon, <1>5, <1>6

\* RequestedTx of a candidate.
LEMMA RequestedOK ==
    ASSUME NEW t \in Tx, NEW r, RowOK(r, t), NEW p \in Peer, NEW expiry \in Nat
    PROVE  RowOK(RequestedTx(r, p, expiry), t) /\ Keeps(r, RequestedTx(r, p, expiry))
  <1> DEFINE c == RequestedTx(r, p, expiry)
  <1>0. r \in Row /\ WellSelected(r, t)
    BY Zenon DEF RowOK
  <1>1. CASE r[p].st \notin Candidate
    BY Zenon, <1>1 DEF RequestedTx, Keeps
  <1>2. CASE r[p].st \in Candidate
    <2>1. c = [q \in Peer |-> CASE q = p -> [st |-> "requested", wait |-> expiry]
                                [] q # p /\ r[q].st = "best" -> [r[q] EXCEPT !.st = "ready"]
                                [] q # p /\ r[q].st = "requested" -> [st |-> "completed", wait |-> 0]
                                [] OTHER -> r[q]]
      BY Zenon, <1>2 DEF RequestedTx
    <2>2. /\ c \in Row /\ c[p].st = "requested"
          /\ \A q \in Peer \ {p} : c[q].st = CASE r[q].st = "best" -> "ready"
                                               [] r[q].st = "requested" -> "completed"
                                               [] OTHER -> r[q].st
      BY <1>0, <2>1 DEF Row, Announcement, Open, Candidate
    <2> HIDE DEF c
    <2>3. In(c, Selected) = {p} /\ In(c, {"best"}) = {} /\ p \in In(c, Open)
      BY Zenon, <2>2 DEF In, Selected, Open, Candidate
    <2>4. WellSelected(c, t)
      BY Zenon, <2>3 DEF WellSelected
    <2>5. Keeps(r, c)
      BY Zenon, <1>2, <2>2 DEF Keeps, Candidate
    <2> QED
      BY Zenon, <2>2, <2>4, <2>5 DEF RowOK, c
  <1> QED
    BY Zenon, <1>1, <1>2

\* A new announcement.
LEMMA AnnouncedOK ==
    ASSUME NEW t \in Tx, NEW r, RowOK(r, t), NEW p \in Peer, r[p].st = "none", NEW delay \in Nat
    PROVE  RowOK([r EXCEPT ![p] = [st |-> "delayed", wait |-> delay]], t)
  <1> DEFINE c == [r EXCEPT ![p] = [st |-> "delayed", wait |-> delay]]
  <1>0. r \in Row /\ WellSelected(r, t)
    BY Zenon DEF RowOK
  <1>1. c \in Row /\ c[p].st = "delayed" /\ \A q \in Peer \ {p} : c[q] = r[q]
    BY Zenon, <1>0 DEF Row, Announcement, Open, Candidate
  <1> HIDE DEF c
  <1>2. /\ In(c, Selected) = In(r, Selected) /\ In(c, {"best"}) = In(r, {"best"})
        /\ In(c, {"ready"}) = In(r, {"ready"}) /\ p \in In(c, Open)
    BY Zenon, <1>1 DEF In, Selected, Open, Candidate
  <1>3. WellSelected(c, t)
    BY Zenon, <1>0, <1>2 DEF WellSelected
  <1> QED
    BY Zenon, <1>1, <1>3 DEF RowOK, c

\* The announcements that DisconnectedPeer leaves.
RowWithout(r, t, p) == [MakeCompleted(r, t, p) EXCEPT ![p] = None]

\* The row once p has left.
LEMMA DisconnectedOK ==
    ASSUME NEW t \in Tx, NEW r, RowOK(r, t), NEW p \in Peer, r[p].st # "none"
    PROVE  /\ RowOK(RowWithout(r, t, p), t) /\ Keeps(r, RowWithout(r, t, p))
           /\ RowWithout(r, t, p)[p].st = "none"
  <1> DEFINE v == MakeCompleted(r, t, p)
             c == [v EXCEPT ![p] = None]
  <1>0. RowOK(v, t) /\ Keeps(r, v) /\ v[p].st \notin Open
    BY Zenon, MakeCompletedOK
  <1> HIDE DEF v
  <1>1. c \in Row /\ c[p].st = "none" /\ \A q \in Peer \ {p} : c[q] = v[q]
    BY Zenon, <1>0 DEF RowOK, Row, Announcement, None
  <1> HIDE DEF c
  <1>2. /\ In(c, Selected) = In(v, Selected) /\ In(c, {"best"}) = In(v, {"best"})
        /\ In(c, {"ready"}) = In(v, {"ready"}) /\ In(c, Open) = In(v, Open)
        /\ In(c, {"completed"}) \subseteq In(v, {"completed"})
    BY Zenon, <1>0, <1>1 DEF In, Selected, Open, Candidate
  <1>3. WellSelected(c, t)
    BY Zenon, <1>0, <1>2 DEF WellSelected, RowOK
  <1>4. Keeps(r, c)
    BY Zenon, <1>0, <1>1 DEF Keeps
  <1> QED
    BY Zenon, <1>1, <1>3, <1>4 DEF RowOK, RowWithout, c, v

-----------------------------------------------------------------------------
(* The tracker. *)

TrackerOK(k) ==
    /\ k \in Tracker
    /\ \A t \in Tx : RowOK(k.ann[t], t)
    /\ \A p \in Peer : k.info[p] = Recounted(k.ann, p)

\* The transactions p announced whose announcement is in a state of S.
Having(ann, p, S) == {t \in Tx : ann[t][p].st \in S}

RowSet(ann2, ann, t, r) == ann \in [Tx -> Row] /\ r \in Row /\ ann2 = [ann EXCEPT ![t] = r]
Bit(st, S) == IF st \in S THEN 1 ELSE 0

\* One row changes: so does what p has in S.
LEMMA CountChange ==
    ASSUME NEW ann, NEW t \in Tx, NEW r, NEW p \in Peer, NEW S,
           NEW ann2, RowSet(ann2, ann, t, r)
    PROVE  /\ Cardinality(Having(ann, p, S)) \in Nat /\ Cardinality(Having(ann2, p, S)) \in Nat
           /\ Cardinality(Having(ann2, p, S)) = Cardinality(Having(ann, p, S))
                + Bit(r[p].st, S) - Bit(ann[t][p].st, S)
  <1> DEFINE A == Having(ann, p, S)
             B == Having(ann2, p, S)
  <1>1. A \in SUBSET Tx /\ B \in SUBSET Tx /\ (t \in A <=> ann[t][p].st \in S)
    BY Zenon DEF Having
  <1>2. B = IF r[p].st \in S THEN A \cup {t} ELSE A \ {t}
    <2>1. \A u \in Tx : ann2[u] = IF u = t THEN r ELSE ann[u]
      BY Zenon DEF RowSet
    <2>2. \A u \in Tx : u \in B <=> IF u = t THEN r[p].st \in S ELSE u \in A
      BY Zenon, <2>1 DEF Having
    <2> QED
      BY Zenon, <1>1, <2>2
  <1> HIDE DEF A, B
  <1>3. IsFiniteSet(A) /\ Cardinality(A) \in Nat /\ Cardinality(B) \in Nat
    BY Zenon, <1>1, FS_Subset, FS_CardinalityType, RankAssumption DEF RankAssumption
  <1>4. /\ Cardinality(A \cup {t}) = IF t \in A THEN Cardinality(A) ELSE Cardinality(A) + 1
        /\ Cardinality(A \ {t}) = IF t \in A THEN Cardinality(A) - 1 ELSE Cardinality(A)
    BY Zenon, <1>3, FS_AddElement, FS_RemoveElement
  <1>5. Cardinality(B) = Cardinality(A)
          + Bit(r[p].st, S) - Bit(ann[t][p].st, S)
    <2>1. CASE r[p].st \in S
      <3>1. Cardinality(B) = Cardinality(A \cup {t})
        BY Zenon, <1>2, <2>1
      <3> QED
        BY <1>1, <1>3, <1>4, <2>1, <3>1 DEF Bit
    <2>2. CASE r[p].st \notin S
      <3>1. Cardinality(B) = Cardinality(A \ {t})
        BY Zenon, <1>2, <2>2
      <3> QED
        BY <1>1, <1>3, <1>4, <2>2, <3>1 DEF Bit
    <2> QED
      BY Zenon, <2>1, <2>2
  <1> QED
    BY Zenon, <1>3, <1>5 DEF A, B

\* Recounted, by what Having collects.
LEMMA RecountedIs ==
    ASSUME NEW ann, NEW p
    PROVE  Recounted(ann, p) = [total     |-> Cardinality(Having(ann, p, Open \cup {"completed"})),
                                requested |-> Cardinality(Having(ann, p, {"requested"})),
                                completed |-> Cardinality(Having(ann, p, {"completed"}))]
  BY Zenon DEF Recounted, Having

\* Recount follows the change of a row.
LEMMA RecountExact ==
    ASSUME NEW ann, NEW t \in Tx, NEW r, NEW p \in Peer,
           NEW ann2, RowSet(ann2, ann, t, r)
    PROVE  /\ Recount(Recounted(ann, p), ann[t][p].st, r[p].st) = Recounted(ann2, p)
           /\ Recounted(ann2, p) \in [total : Nat, requested : Nat, completed : Nat]
  <1> DEFINE N(a, S) == Cardinality(Having(a, p, S))
             All == Open \cup {"completed"}
             from == ann[t][p].st
             to == r[p].st
  <1>1. from \in All \cup {"none"} /\ to \in All \cup {"none"}
    BY DEF RowSet, Row, Announcement
  <1>2. Bit(from, {"none"}) = 1 - Bit(from, All) /\ Bit(to, {"none"}) = 1 - Bit(to, All)
    BY <1>1 DEF Open, Candidate, Bit
  <1>3. \A S : /\ N(ann, S) \in Nat /\ N(ann2, S) \in Nat
               /\ N(ann2, S) = N(ann, S) + Bit(to, S) - Bit(from, S)
    BY CountChange
  <1>4. /\ N(ann, All) + Bit(from, {"none"}) - Bit(to, {"none"}) = N(ann2, All)
        /\ N(ann2, All) \in Nat
    <2>1. /\ N(ann, All) \in Nat /\ N(ann2, All) \in Nat
          /\ N(ann2, All) = N(ann, All) + Bit(to, All) - Bit(from, All)
      BY Zenon, <1>3
    <2> HIDE DEF N, All
    <2> QED
      BY <1>2, <2>1 DEF Bit
  <1>5. /\ Recounted(ann, p) = [total |-> N(ann, All), requested |-> N(ann, {"requested"}),
                                completed |-> N(ann, {"completed"})]
        /\ Recounted(ann2, p) = [total |-> N(ann2, All), requested |-> N(ann2, {"requested"}),
                                 completed |-> N(ann2, {"completed"})]
    BY Zenon, RecountedIs
  <1>6. Recount(Recounted(ann, p), from, to)
          = [total     |-> N(ann, All) + Bit(from, {"none"}) - Bit(to, {"none"}),
             requested |-> N(ann, {"requested"}) + Bit(to, {"requested"}) - Bit(from, {"requested"}),
             completed |-> N(ann, {"completed"}) + Bit(to, {"completed"}) - Bit(from, {"completed"})]
    <2> HIDE DEF N, All, from, to
    <2> QED
      BY <1>5 DEF Recount, Bit
  <1>7. /\ N(ann2, {"requested"}) \in Nat /\ N(ann2, {"completed"}) \in Nat
        /\ N(ann, {"requested"}) + Bit(to, {"requested"}) - Bit(from, {"requested"})
             = N(ann2, {"requested"})
        /\ N(ann, {"completed"}) + Bit(to, {"completed"}) - Bit(from, {"completed"})
             = N(ann2, {"completed"})
    BY Zenon, <1>3
  <1> HIDE DEF N, All, from, to
  <1>8. Recount(Recounted(ann, p), from, to) = Recounted(ann2, p)
    BY Zenon, <1>4, <1>5, <1>6, <1>7
  <1>9. Recounted(ann2, p) \in [total : Nat, requested : Nat, completed : Nat]
    <2>1. \A x, y, z \in Nat : [total |-> x, requested |-> y, completed |-> z]
                                 \in [total : Nat, requested : Nat, completed : Nat]
      BY Zenon
    <2> QED
      BY Zenon, <1>4, <1>5, <1>7, <2>1
  <1> QED
    BY Zenon, <1>8, <1>9 DEF from, to

\* The parts of a good tracker have their types.
LEMMA TrackerRows ==
    ASSUME NEW k, TrackerOK(k)
    PROVE  /\ k \in Tracker /\ k.ann \in [Tx -> Row]
           /\ \A t \in Tx : RowOK(k.ann[t], t) /\ k.ann[t] \in Row
           /\ \A p \in Peer : k.info[p] = Recounted(k.ann, p)
  BY Zenon DEF TrackerOK, Tracker, Row

\* Modify, Erase and emplace keep the counters exact.
LEMMA SetOK ==
    ASSUME NEW k, TrackerOK(k), NEW t \in Tx, NEW r, RowOK(r, t)
    PROVE  TrackerOK(Set(k, t, r)) /\ Set(k, t, r).ann = [k.ann EXCEPT ![t] = r]
  <1> DEFINE s == Set(k, t, r)
             ann2 == [k.ann EXCEPT ![t] = r]
             info2 == [p \in Peer |-> Recount(k.info[p], k.ann[t][p].st, r[p].st)]
  <1>1. s = [ann |-> ann2, info |-> info2]
    BY Zenon DEF Set
  <1>2. /\ k.ann \in [Tx -> Row] /\ r \in Row
        /\ \A u \in Tx : RowOK(k.ann[u], u)
        /\ \A p \in Peer : k.info[p] = Recounted(k.ann, p)
    BY Zenon, TrackerRows DEF RowOK
  <1>3. \A p \in Peer : /\ info2[p] = Recounted(ann2, p)
                        /\ info2[p] \in [total : Nat, requested : Nat, completed : Nat]
    <2> TAKE p \in Peer
    <2>1. info2[p] = Recount(Recounted(k.ann, p), k.ann[t][p].st, r[p].st)
      BY Zenon, <1>2
    <2>2. RowSet(ann2, k.ann, t, r)
      BY Zenon, <1>2 DEF RowSet
    <2> HIDE DEF info2, ann2
    <2> QED
      BY <2>1, <2>2, RecountExact
  <1>4. ann2 \in [Tx -> Row] /\ \A u \in Tx : RowOK(ann2[u], u)
    BY Zenon, <1>2
  <1>5. info2 \in [Peer -> [total : Nat, requested : Nat, completed : Nat]]
    <2>1. info2 = [p \in Peer |-> info2[p]]
      BY Zenon
    <2> HIDE DEF info2
    <2> QED
      BY Zenon, <1>3, <2>1
  <1> HIDE DEF s, ann2, info2
  <1>6. s \in Tracker /\ s.ann = ann2 /\ s.info = info2
    BY Zenon, <1>1, <1>4, <1>5 DEF Tracker, Row
  <1>7. TrackerOK(s)
    BY Zenon, <1>3, <1>4, <1>6 DEF TrackerOK
  <1> QED
    BY Zenon, <1>6, <1>7 DEF s, ann2

\* V is closed under the steps of SetAll, and h holds what it passes through.
SetCloses(V, S, rows) == \A t \in S, v \in V : Set(v, t, rows[t]) \in V
SetSteps(h, k, S, rows) ==
    /\ SetAll(k, S, rows) = h[S] /\ h[{}] = k
    /\ \A s \in (SUBSET S) \ {{}} : h[s] = Set(h[s \ {Pick(s)}], Pick(s), rows[Pick(s)])

\* SetAll is a fold of Set.
LEMMA SetAllUnfolds ==
    ASSUME NEW S, IsFiniteSet(S), NEW V, NEW k \in V, NEW rows, SetCloses(V, S, rows)
    PROVE  \E h \in [SUBSET S -> V] : SetSteps(h, k, S, rows)
  <1> DEFINE F == [x \in S |-> [v \in V |-> Set(v, x, rows[x])]]
             Runs(g) == g = [s \in SUBSET S |-> IF s = {} THEN k
                                                ELSE Set(g[s \ {Pick(s)}], Pick(s), rows[Pick(s)])]
             h == CHOOSE g : Runs(g)
  <1>1. SetAll(k, S, rows) = h[S]
    BY Zenon DEF SetAll, FoldSet, MapThenFoldSet, Pick
  <1>2. F \in [S -> [V -> V]] /\ \A x \in S, v \in V : F[x][v] = Set(v, x, rows[x])
    BY Zenon DEF SetCloses
  <1> HIDE DEF F
  <1>3. PICK g \in [SUBSET S -> V] : FoldOf(g, F, k, S)
    BY Zenon, <1>2, FoldExists
  <1>4. ASSUME NEW s \in SUBSET S
        PROVE  (IF s = {} THEN k ELSE F[Pick(s)][g[s \ {Pick(s)}]])
                 = IF s = {} THEN k ELSE Set(g[s \ {Pick(s)}], Pick(s), rows[Pick(s)])
    <2>1. CASE s # {}
      <3>1. Pick(s) \in S /\ g[s \ {Pick(s)}] \in V
        BY Zenon, <2>1 DEF Pick
      <3> QED
        BY Zenon, <1>2, <2>1, <3>1
    <2> QED
      BY Zenon, <2>1
  <1>5. Runs(g)
    <2>1. [s \in SUBSET S |-> IF s = {} THEN k ELSE F[Pick(s)][g[s \ {Pick(s)}]]]
            = [s \in SUBSET S |-> IF s = {} THEN k
                                   ELSE Set(g[s \ {Pick(s)}], Pick(s), rows[Pick(s)])]
      BY Zenon, <1>4
    <2> QED
      BY Zenon, <1>3, <2>1 DEF FoldOf
  <1>6. Runs(h)
    <2> HIDE DEF Runs
    <2> QED
      BY Zenon, <1>5
  <1> HIDE DEF h
  <1>7. /\ DOMAIN h = SUBSET S /\ h[{}] = k
        /\ \A s \in (SUBSET S) \ {{}} : h[s] = Set(h[s \ {Pick(s)}], Pick(s), rows[Pick(s)])
    BY Zenon, <1>6
  <1>8. h \in [SUBSET S -> V]
    <2> DEFINE T == {s \in SUBSET S : h[s] \in V}
    <2>1. Inductive(T, S)
      <3>1. ASSUME NEW s \in SUBSET S, s # {}, s \ {Pick(s)} \in T PROVE h[s] \in V
        <4>1. Pick(s) \in S
          BY Zenon, <3>1 DEF Pick
        <4>2. h[s \ {Pick(s)}] \in V /\ h[s] = Set(h[s \ {Pick(s)}], Pick(s), rows[Pick(s)])
          BY Zenon, <1>7, <3>1
        <4>3. Set(h[s \ {Pick(s)}], Pick(s), rows[Pick(s)]) \in V
          BY Zenon, <4>1, <4>2 DEF SetCloses
        <4> QED
          BY Zenon, <4>2, <4>3
      <3> QED
        BY Zenon, <1>7, <3>1 DEF Inductive
    <2>2. h = [s \in SUBSET S |-> h[s]]
      BY Zenon, <1>6
    <2> HIDE DEF T
    <2>3. T = SUBSET S
      BY <2>1, SubsetInduction, Zenon
    <2> QED
      BY Zenon, <2>2, <2>3 DEF T
  <1> QED
    BY Zenon, <1>1, <1>7, <1>8 DEF SetSteps

RowsOK(rows, S) == \A t \in S : RowOK(rows[t], t)
RowsSet(k2, k, rows, S) == \A t \in Tx : k2.ann[t] = IF t \in S THEN rows[t] ELSE k.ann[t]

\* SetAll puts the rows of S in place.
LEMMA SetAllOK ==
    ASSUME NEW k, TrackerOK(k), NEW S \in SUBSET Tx, NEW rows, RowsOK(rows, S)
    PROVE  TrackerOK(SetAll(k, S, rows)) /\ RowsSet(SetAll(k, S, rows), k, rows, S)
  <1> DEFINE V == {v \in Tracker : TrackerOK(v)}
  <1>0. IsFiniteSet(S)
    BY Zenon, FS_Subset, RankAssumption DEF RankAssumption
  <1>1. k \in V /\ SetCloses(V, S, rows)
    <2>1. k \in V
      BY Zenon DEF TrackerOK
    <2>2. ASSUME NEW t \in S, NEW v \in V PROVE Set(v, t, rows[t]) \in V
      <3>1. TrackerOK(Set(v, t, rows[t]))
        BY Zenon, SetOK DEF RowsOK
      <3> QED
        BY Zenon, <3>1 DEF TrackerOK
    <2> HIDE DEF V
    <2> QED
      BY Zenon, <2>1, <2>2 DEF SetCloses
  <1>2. \A v \in V : TrackerOK(v)
    BY Zenon
  <1> HIDE DEF V
  <1>3. PICK h \in [SUBSET S -> V] : SetSteps(h, k, S, rows)
    BY <1>0, <1>1, SetAllUnfolds, Zenon
  <1> DEFINE Done(s) == \A t \in Tx : h[s].ann[t] = IF t \in s THEN rows[t] ELSE k.ann[t]
             T == {s \in SUBSET S : Done(s)}
  <1>4. {} \in T
    BY Zenon, <1>3 DEF SetSteps
  <1>5. ASSUME NEW s \in SUBSET S, s # {}, s \ {Pick(s)} \in T PROVE s \in T
    <2> DEFINE x == Pick(s)
               w == h[s \ {x}]
    <2>1. x \in s
      BY Zenon, <1>5 DEF Pick
    <2>2. h[s] = Set(w, x, rows[x]) /\ TrackerOK(w)
      BY Zenon, <1>2, <1>3, <1>5 DEF SetSteps
    <2>3. \A t \in Tx : w.ann[t] = IF t \in s \ {x} THEN rows[t] ELSE k.ann[t]
      BY Zenon, <1>5
    <2> HIDE DEF w, x
    <2>4. h[s].ann = [w.ann EXCEPT ![x] = rows[x]] /\ w.ann \in [Tx -> Row]
      BY <2>1, <2>2, SetOK, TrackerRows DEF RowsOK
    <2>5. Done(s)
      BY Zenon, <2>1, <2>3, <2>4
    <2> QED
      BY Zenon, <2>5
  <1>6. T = SUBSET S
    <2>1. Inductive(T, S)
      <3>1. T \subseteq SUBSET S
        BY Zenon
      <3> HIDE DEF T
      <3> QED
        BY Zenon, <1>4, <1>5, <3>1 DEF Inductive
    <2> HIDE DEF T
    <2> QED
      BY <1>0, <2>1, SubsetInduction, Zenon
  <1>7. S \in T
    BY Zenon, <1>6
  <1> QED
    BY Zenon, <1>2, <1>3, <1>7 DEF SetSteps, RowsSet

-----------------------------------------------------------------------------
(* The operations of the tracker, C being the connected peers. *)

\* No peer outside C has announced anything.
TrackerGood(k, C) == TrackerOK(k) /\ \A t \in Tx, p \in Peer \ C : k.ann[t][p].st = "none"

\* No announcement appears.
NoneAdded(k, k2) == \A t \in Tx : Keeps(k.ann[t], k2.ann[t])

\* In terms of who announced t.
LEMMA NoneAddedIs ==
    ASSUME NEW k, NEW k2, NoneAdded(k, k2), NEW t \in Tx
    PROVE  Tracked(k2, t) \subseteq Tracked(k, t)
  BY Zenon DEF NoneAdded, Keeps, Tracked

\* A step that adds no announcement keeps the tracker good.
LEMMA NoneAddedGood ==
    ASSUME NEW k, NEW C, TrackerGood(k, C), NEW k2, TrackerOK(k2), NoneAdded(k, k2)
    PROVE  TrackerGood(k2, C)
  BY Zenon DEF TrackerGood, NoneAdded, Keeps

\* The tracker of a node that starts.
LEMMA NoTrackerGood == TrackerGood(NoTracker, Peer)
  <1>1. /\ NoTracker \in Tracker /\ \A t \in Tx : NoTracker.ann[t] = NoRow
        /\ \A p \in Peer : NoTracker.info[p] = NoInfo
    BY Zenon, NoRowOK DEF NoTracker, Tracker, RowOK, Row, NoInfo
  <1>2. ASSUME NEW p \in Peer PROVE Recounted(NoTracker.ann, p) = NoInfo
    <2>1. \A t \in Tx : NoTracker.ann[t][p].st = "none"
      BY <1>1 DEF NoRow, None
    <2>2. /\ Having(NoTracker.ann, p, Open \cup {"completed"}) = {}
          /\ Having(NoTracker.ann, p, {"requested"}) = {}
          /\ Having(NoTracker.ann, p, {"completed"}) = {}
      BY Zenon, <2>1 DEF Having, Open, Candidate
    <2> QED
      BY Zenon, <2>2, RecountedIs, FS_EmptySet DEF NoInfo
  <1> HIDE DEF NoTracker
  <1> QED
    BY Zenon, <1>1, <1>2, NoRowOK DEF TrackerGood, TrackerOK

\* ForgetTxHash leaves no announcement of t.
LEMMA ForgetTxHashGood ==
    ASSUME NEW k, NEW C, TrackerGood(k, C), NEW t \in Tx
    PROVE  /\ TrackerGood(ForgetTxHash(k, t), C) /\ NoneAdded(k, ForgetTxHash(k, t))
           /\ Tracked(ForgetTxHash(k, t), t) = {}
  <1> DEFINE f == ForgetTxHash(k, t)
  <1>1. TrackerOK(f) /\ f.ann = [k.ann EXCEPT ![t] = NoRow] /\ k.ann \in [Tx -> Row]
    BY NoRowOK, SetOK, TrackerRows DEF ForgetTxHash, TrackerGood
  <1> HIDE DEF f
  <1>2. \A q \in Peer : NoRow[q].st = "none"
    BY Zenon DEF NoRow, None
  <1>3. NoneAdded(k, f) /\ Tracked(f, t) = {}
    BY Zenon, <1>1, <1>2 DEF NoneAdded, Keeps, Tracked
  <1> QED
    BY Zenon, <1>1, <1>3, NoneAddedGood DEF f

\* BlockConnected forgets every transaction of a block.
LEMMA ForgetAllGood ==
    ASSUME NEW k, NEW C, TrackerGood(k, C), NEW S \in SUBSET Tx
    PROVE  /\ TrackerGood(ForgetAll(k, S), C) /\ NoneAdded(k, ForgetAll(k, S))
           /\ \A t \in S : Tracked(ForgetAll(k, S), t) = {}
  <1> DEFINE f == ForgetAll(k, S)
             rows == [t \in Tx |-> NoRow]
  <1>0. \A t \in S : rows[t] = NoRow /\ RowOK(rows[t], t)
    BY Zenon, NoRowOK
  <1>1. f = SetAll(k, S, rows)
    BY Zenon DEF ForgetAll
  <1> HIDE DEF rows, f
  <1>2. TrackerOK(f) /\ \A t \in Tx : f.ann[t] = IF t \in S THEN rows[t] ELSE k.ann[t]
    <2>1. RowsOK(rows, S)
      BY Zenon, <1>0 DEF RowsOK
    <2> QED
      BY <1>1, <2>1, SetAllOK DEF TrackerGood, RowsSet
  <1>3. \A q \in Peer : NoRow[q].st = "none"
    BY Zenon DEF NoRow, None
  <1>4. NoneAdded(k, f) /\ \A t \in S : Tracked(f, t) = {}
    BY Zenon, <1>0, <1>2, <1>3 DEF NoneAdded, Keeps, Tracked
  <1> QED
    BY Zenon, <1>2, <1>4, NoneAddedGood DEF f

\* SetTimePoint announces nothing.
LEMMA SetTimePointGood ==
    ASSUME NEW k, NEW C, TrackerGood(k, C)
    PROVE  TrackerGood(SetTimePoint(k), C) /\ NoneAdded(k, SetTimePoint(k))
  <1> DEFINE f == SetTimePoint(k)
             rows == [t \in Tx |-> Early(Due(k.ann[t], t), t)]
  <1>0. ASSUME NEW t \in Tx PROVE RowOK(rows[t], t) /\ Keeps(k.ann[t], rows[t])
    <2>1. RowOK(k.ann[t], t)
      BY Zenon, TrackerRows DEF TrackerGood
    <2>2. RowOK(Due(k.ann[t], t), t) /\ Keeps(k.ann[t], Due(k.ann[t], t))
      BY Zenon, <2>1, DueOK
    <2>3. RowOK(rows[t], t) /\ Keeps(Due(k.ann[t], t), rows[t])
      BY Zenon, <2>2, EarlyOK
    <2> QED
      BY Zenon, <2>2, <2>3 DEF Keeps
  <1>1. f = SetAll(k, Tx, rows)
    BY Zenon DEF SetTimePoint
  <1> HIDE DEF rows, f
  <1>2. TrackerOK(f) /\ \A t \in Tx : f.ann[t] = rows[t]
    <2>1. RowsOK(rows, Tx)
      BY Zenon, <1>0 DEF RowsOK
    <2> QED
      BY <1>1, <2>1, SetAllOK DEF TrackerGood, RowsSet
  <1>3. NoneAdded(k, f)
    BY Zenon, <1>0, <1>2 DEF NoneAdded
  <1> QED
    BY Zenon, <1>2, <1>3, NoneAddedGood DEF f

\* DisconnectedPeer leaves no announcement of p.
LEMMA DisconnectedPeerGood ==
    ASSUME NEW k, NEW C, TrackerGood(k, C), NEW p \in Peer
    PROVE  TrackerGood(DisconnectedPeer(k, p), C \ {p}) /\ NoneAdded(k, DisconnectedPeer(k, p))
  <1> DEFINE f == DisconnectedPeer(k, p)
             S == {t \in Tx : k.ann[t][p].st # "none"}
             rows == [t \in Tx |-> [MakeCompleted(k.ann[t], t, p) EXCEPT ![p] = None]]
  <1>0. ASSUME NEW t \in S
        PROVE  RowOK(rows[t], t) /\ Keeps(k.ann[t], rows[t]) /\ rows[t][p].st = "none"
    <2>1. RowOK(k.ann[t], t) /\ k.ann[t][p].st # "none" /\ t \in Tx
      BY Zenon, TrackerRows DEF TrackerGood
    <2>2. rows[t] = RowWithout(k.ann[t], t, p)
      BY Zenon, <2>1 DEF RowWithout
    <2> HIDE DEF rows
    <2> QED
      BY <2>1, <2>2, DisconnectedOK
  <1>1. f = SetAll(k, S, rows) /\ S \in SUBSET Tx
    BY Zenon DEF DisconnectedPeer
  <1> HIDE DEF rows, f
  <1>2. TrackerOK(f) /\ \A t \in Tx : f.ann[t] = IF t \in S THEN rows[t] ELSE k.ann[t]
    <2>1. RowsOK(rows, S)
      BY Zenon, <1>0 DEF RowsOK
    <2> HIDE DEF S
    <2> QED
      BY <1>1, <2>1, SetAllOK DEF TrackerGood, RowsSet
  <1>3. NoneAdded(k, f)
    BY <1>0, <1>2 DEF NoneAdded, Keeps
  <1>4. \A t \in Tx : f.ann[t][p].st = "none"
    BY Zenon, <1>0, <1>2
  <1>5. TrackerGood(f, C)
    BY Zenon, <1>2, <1>3, NoneAddedGood
  <1> QED
    BY Zenon, <1>3, <1>4, <1>5 DEF f, TrackerGood

\* ReceivedResponse announces nothing.
LEMMA ReceivedResponseGood ==
    ASSUME NEW k, NEW C, TrackerGood(k, C), NEW p \in Peer, NEW t \in Tx
    PROVE  TrackerGood(ReceivedResponse(k, p, t), C) /\ NoneAdded(k, ReceivedResponse(k, p, t))
  <1> DEFINE f == ReceivedResponse(k, p, t)
             r == MakeCompleted(k.ann[t], t, p)
  <1>1. CASE k.ann[t][p].st = "none"
    BY Zenon, <1>1 DEF ReceivedResponse, NoneAdded, Keeps
  <1>2. CASE k.ann[t][p].st # "none"
    <2>1. RowOK(k.ann[t], t) /\ k.ann \in [Tx -> Row]
      BY Zenon, TrackerRows DEF TrackerGood
    <2>2. RowOK(r, t) /\ Keeps(k.ann[t], r)
      BY Zenon, <1>2, <2>1, MakeCompletedOK
    <2>3. f = Set(k, t, r)
      BY Zenon, <1>2 DEF ReceivedResponse
    <2> HIDE DEF f, r
    <2>4. TrackerOK(f) /\ f.ann = [k.ann EXCEPT ![t] = r]
      BY Zenon, <2>2, <2>3, SetOK DEF TrackerGood
    <2>5. NoneAdded(k, f)
      BY Zenon, <2>1, <2>2, <2>4 DEF NoneAdded, Keeps
    <2> QED
      BY Zenon, <2>4, <2>5, NoneAddedGood DEF f
  <1> QED
    BY Zenon, <1>1, <1>2

\* Only the row of t changes, and only p is added to it.
AddsOnly(k, k2, p, t) ==
    /\ \A u \in Tx \ {t} : k2.ann[u] = k.ann[u]
    /\ \A q \in Peer \ {p} : k2.ann[t][q] = k.ann[t][q]

\* ReceivedInv adds at most the announcement of t by p.
LEMMA ReceivedInvGood ==
    ASSUME NEW k, NEW C, TrackerGood(k, C), NEW p \in Peer \cap C, NEW t \in Tx, NEW delay \in Nat
    PROVE  TrackerGood(ReceivedInv(k, p, t, delay), C) /\ AddsOnly(k, ReceivedInv(k, p, t, delay), p, t)
  <1> DEFINE f == ReceivedInv(k, p, t, delay)
             r == [k.ann[t] EXCEPT ![p] = [st |-> "delayed", wait |-> delay]]
  <1>1. CASE k.ann[t][p].st # "none"
    BY Zenon, <1>1 DEF ReceivedInv, AddsOnly
  <1>2. CASE k.ann[t][p].st = "none"
    <2>1. RowOK(k.ann[t], t) /\ k.ann \in [Tx -> Row] /\ k.ann[t] \in Row
      BY Zenon, TrackerRows DEF TrackerGood
    <2>2. RowOK(r, t) /\ \A q \in Peer \ {p} : r[q] = k.ann[t][q]
      BY <1>2, <2>1, AnnouncedOK
    <2>3. f = Set(k, t, r)
      BY Zenon, <1>2 DEF ReceivedInv
    <2> HIDE DEF f, r
    <2>4. TrackerOK(f) /\ f.ann = [k.ann EXCEPT ![t] = r]
      BY <2>2, <2>3, SetOK DEF TrackerGood
    <2>5. AddsOnly(k, f, p, t)
      BY Zenon, <2>1, <2>2, <2>4 DEF AddsOnly
    <2>6. TrackerGood(f, C)
      BY <2>4, <2>5 DEF TrackerGood, AddsOnly
    <2> QED
      BY Zenon, <2>5, <2>6 DEF f
  <1> QED
    BY Zenon, <1>1, <1>2

\* AddTxAnnouncement: the same, unless p has too many.
LEMMA AddTxAnnouncementGood ==
    ASSUME NEW k, NEW C, TrackerGood(k, C), NEW p \in Peer \cap C, NEW t \in Tx,
           NEW txid \in BOOLEAN
    PROVE  /\ TrackerGood(AddTxAnnouncement(k, p, t, txid), C)
           /\ AddsOnly(k, AddTxAnnouncement(k, p, t, txid), p, t)
  <1> DEFINE One(cond) == IF cond THEN 1 ELSE 0
             delay == One(p \notin Preferred) + One(txid /\ WtxidRelay \cap conn # {})
                      + One(CountInFlight(k, p) >= MaxInFlight)
  <1>1. delay \in Nat
    <2>1. /\ One(p \notin Preferred) \in Nat /\ One(txid /\ WtxidRelay \cap conn # {}) \in Nat
          /\ One(CountInFlight(k, p) >= MaxInFlight) \in Nat
      BY Zenon
    <2> HIDE DEF One
    <2> QED
      BY <2>1
  <1>2. CASE Count(k, p) >= MaxAnnouncements
    BY Zenon, <1>2 DEF AddTxAnnouncement, AddsOnly
  <1>3. CASE ~(Count(k, p) >= MaxAnnouncements)
    <2>1. AddTxAnnouncement(k, p, t, txid) = ReceivedInv(k, p, t, delay)
      BY Zenon, <1>3 DEF AddTxAnnouncement
    <2> HIDE DEF delay
    <2> QED
      BY Zenon, <1>1, <2>1, ReceivedInvGood
  <1> QED
    BY Zenon, <1>2, <1>3

\* The clock does not touch the states.
LEMMA ShiftGood ==
    ASSUME NEW k, NEW C, TrackerGood(k, C), NEW waits \in [Tx -> [Peer -> Nat]]
    PROVE  TrackerGood(Shift(k, waits), C) /\ NoneAdded(k, Shift(k, waits))
  <1> DEFINE ann2 == [t \in Tx |-> [p \in Peer |->
                        IF k.ann[t][p].st \in Open
                          THEN [st |-> k.ann[t][p].st, wait |-> waits[t][p]] ELSE k.ann[t][p]]]
             f == Shift(k, waits)
  <1>0. /\ k \in Tracker /\ k.ann \in [Tx -> Row] /\ \A t \in Tx : RowOK(k.ann[t], t)
        /\ \A p \in Peer : k.info[p] = Recounted(k.ann, p)
    BY Zenon, TrackerRows DEF TrackerGood
  <1>1. f = [k EXCEPT !.ann = ann2]
    BY Zenon DEF Shift
  <1>2. ASSUME NEW t \in Tx, NEW p \in Peer
        PROVE  ann2[t][p] \in Announcement /\ ann2[t][p].st = k.ann[t][p].st
    <2>1. k.ann[t][p] \in Announcement /\ waits[t][p] \in Nat
      BY Zenon, <1>0 DEF Row
    <2>2. ann2[t][p] = IF k.ann[t][p].st \in Open
                         THEN [st |-> k.ann[t][p].st, wait |-> waits[t][p]] ELSE k.ann[t][p]
      BY Zenon
    <2> HIDE DEF ann2
    <2> QED
      BY <2>1, <2>2 DEF Announcement
  <1>3. ann2 \in [Tx -> Row]
    <2>1. ann2 = [t \in Tx |-> [p \in Peer |-> ann2[t][p]]]
      BY Zenon
    <2> HIDE DEF ann2
    <2> QED
      BY Zenon, <1>2, <2>1 DEF Row
  <1> HIDE DEF ann2, f
  <1>4. f \in Tracker /\ f.ann = ann2 /\ f.info = k.info
    BY Zenon, <1>0, <1>1, <1>3 DEF Tracker, Row
  <1>5. ASSUME NEW t \in Tx PROVE RowOK(ann2[t], t)
    <2>1. \A S : In(ann2[t], S) = In(k.ann[t], S)
      BY Zenon, <1>2 DEF In
    <2>2. WellSelected(k.ann[t], t) /\ ann2[t] \in Row
      BY Zenon, <1>0, <1>3 DEF RowOK
    <2> QED
      BY Zenon, <2>1, <2>2 DEF RowOK, WellSelected
  <1>6. ASSUME NEW p \in Peer PROVE Recounted(ann2, p) = Recounted(k.ann, p)
    <2>1. \A S : Having(ann2, p, S) = Having(k.ann, p, S)
      BY Zenon, <1>2 DEF Having
    <2> QED
      BY Zenon, <2>1, RecountedIs
  <1>7. TrackerOK(f)
    BY Zenon, <1>0, <1>4, <1>5, <1>6 DEF TrackerOK
  <1>8. NoneAdded(k, f)
    BY Zenon, <1>2, <1>4 DEF NoneAdded, Keeps
  <1> QED
    BY Zenon, <1>7, <1>8, NoneAddedGood DEF f

\* The clock moves, forward or back.
LEMMA ClockGood ==
    ASSUME NEW k, NEW C, TrackerGood(k, C), NEW again
    PROVE  /\ TrackerGood(Forward(k), C) /\ NoneAdded(k, Forward(k))
           /\ TrackerGood(Backward(k, again), C) /\ NoneAdded(k, Backward(k, again))
  <1> DEFINE f == [t \in Tx |-> [p \in Peer |->
                     IF k.ann[t][p].wait = 0 THEN 0 ELSE k.ann[t][p].wait - 1]]
             b == [t \in Tx |-> [p \in Peer |->
                     IF k.ann[t][p].wait > 0 \/ <<t, p>> \in again THEN k.ann[t][p].wait + 1 ELSE 0]]
  <1>1. \A t \in Tx, p \in Peer : k.ann[t][p].wait \in Nat
    BY TrackerRows DEF TrackerGood, Row, Announcement
  <1>2. f \in [Tx -> [Peer -> Nat]] /\ b \in [Tx -> [Peer -> Nat]]
    BY <1>1
  <1>3. Forward(k) = Shift(k, f) /\ Backward(k, again) = Shift(k, b)
    BY Zenon DEF Forward, Backward
  <1> HIDE DEF f, b
  <1> QED
    BY Zenon, <1>2, <1>3, ShiftGood

-----------------------------------------------------------------------------
(* The orphanage. *)

\* The list and the positions in it are inverse to each other.
Listed(from, pos, list) ==
    /\ DOMAIN from \in SUBSET Tx /\ from \in [DOMAIN from -> Peer]
    /\ list \in Seq(Tx) /\ Len(list) = Cardinality(DOMAIN from)
    /\ pos \in [DOMAIN from -> 1 .. Len(list)]
    /\ \A t \in DOMAIN from : list[pos[t]] = t
    /\ \A k \in 1 .. Len(list) : list[k] \in DOMAIN from /\ pos[list[k]] = k

\* The outpoint index of a set of orphans.
Index(S) == [i \in UNION {Inputs[t] : t \in S} |-> {t \in S : i \in Inputs[t]}]

OrphanageOK(o) ==
    /\ o = [from |-> o.from, pos |-> o.pos, list |-> o.list, prev |-> o.prev]
    /\ Listed(o.from, o.pos, o.list)
    /\ o.prev = Index(DOMAIN o.from)

\* The transactions are finitely many.
LEMMA OrphansFinite ==
    ASSUME NEW S \in SUBSET Tx
    PROVE  IsFiniteSet(S) /\ Cardinality(S) \in Nat /\ Cardinality(S) <= Cardinality(Tx)
  BY Zenon, RankAssumption, FS_Subset, FS_CardinalityType DEF RankAssumption

\* An orphan at the end of the list.
LEMMA AddListed ==
    ASSUME NEW from, NEW pos, NEW list, Listed(from, pos, list),
           NEW t \in Tx \ DOMAIN from, NEW p \in Peer
    PROVE  Listed(Put(from, t, p), Put(pos, t, Len(list) + 1), Append(list, t))
  <1> DEFINE D == DOMAIN from
             from2 == Put(from, t, p)
             pos2 == Put(pos, t, Len(list) + 1)
             list2 == Append(list, t)
  <1>1. /\ D \in SUBSET Tx /\ from \in [D -> Peer] /\ list \in Seq(Tx)
        /\ pos \in [D -> 1 .. Len(list)] /\ Len(list) \in Nat /\ Len(list) = Cardinality(D)
        /\ \A u \in D : list[pos[u]] = u
        /\ \A k \in 1 .. Len(list) : list[k] \in D /\ pos[list[k]] = k
    BY DEF Listed
  <1>2. DOMAIN from2 = D \cup {t} /\ from2 \in [D \cup {t} -> Peer] /\ D \cup {t} \in SUBSET Tx
    BY <1>1 DEF Put
  <1>3. /\ list2 \in Seq(Tx) /\ Len(list2) = Len(list) + 1 /\ list2[Len(list) + 1] = t
        /\ \A k \in 1 .. Len(list) : list2[k] = list[k]
    BY <1>1
  <1>4. Cardinality(D \cup {t}) = Cardinality(D) + 1
    BY Zenon, <1>1, FS_AddElement, OrphansFinite
  <1>5. /\ pos2 \in [D \cup {t} -> 1 .. Len(list) + 1] /\ pos2[t] = Len(list) + 1
        /\ \A u \in D : pos2[u] = pos[u]
    BY <1>1 DEF Put
  <1> HIDE DEF from2, pos2, list2
  <1>6. \A u \in D \cup {t} : list2[pos2[u]] = u
    BY <1>1, <1>3, <1>5
  <1>7. ASSUME NEW k \in 1 .. Len(list2) PROVE list2[k] \in D \cup {t} /\ pos2[list2[k]] = k
    <2>1. CASE k = Len(list) + 1
      BY Zenon, <1>3, <1>5, <2>1
    <2>2. CASE k \in 1 .. Len(list)
      BY <1>1, <1>3, <1>5, <2>2
    <2> QED
      BY <1>1, <1>3, <2>1, <2>2
  <1>8. Listed(from2, pos2, list2)
    <2> HIDE DEF D
    <2> QED
      BY Zenon, <1>1, <1>2, <1>3, <1>4, <1>5, <1>6, <1>7 DEF Listed
  <1> QED
    BY Zenon, <1>8 DEF from2, pos2, list2

\* What EraseTx leaves of the list and of the positions.
ListWithout(pos, list, t) ==
    [k \in 1 .. Len(list) - 1 |-> IF k = pos[t] THEN list[Len(list)] ELSE list[k]]
PosWithout(pos, list, t) == Restrict(Put(pos, list[Len(list)], pos[t]), DOMAIN pos \ {t})

\* An orphan's place is taken by the last one, as EraseTx does.
LEMMA EraseListed ==
    ASSUME NEW from, NEW pos, NEW list, Listed(from, pos, list), NEW t \in DOMAIN from
    PROVE  Listed(Restrict(from, DOMAIN from \ {t}),
                  PosWithout(pos, list, t), ListWithout(pos, list, t))
  <1> DEFINE D == DOMAIN from
             l == Len(list)
             last == list[l]
             from2 == Restrict(from, DOMAIN from \ {t})
             pos2 == Restrict(Put(pos, last, pos[t]), DOMAIN pos \ {t})
             list2 == [k \in 1 .. l - 1 |-> IF k = pos[t] THEN last ELSE list[k]]
  <1>1. /\ D \in SUBSET Tx /\ from \in [D -> Peer] /\ list \in Seq(Tx)
        /\ pos \in [D -> 1 .. l] /\ l \in Nat /\ l = Cardinality(D)
        /\ \A u \in D : list[pos[u]] = u
        /\ \A k \in 1 .. l : list[k] \in D /\ pos[list[k]] = k
    BY DEF Listed
  <1>2. Cardinality(D \ {t}) = l - 1
    BY <1>1, FS_RemoveElement, OrphansFinite
  <1>3. DOMAIN from2 = D \ {t} /\ from2 \in [D \ {t} -> Peer] /\ D \ {t} \in SUBSET Tx
    BY Zenon, <1>1 DEF Restrict
  <1>4. l \in 1 .. l /\ last \in D /\ pos[last] = l /\ pos[t] \in 1 .. l
    BY <1>1
  <1>5. DOMAIN pos2 = D \ {t} /\ \A u \in D \ {t} : pos2[u] = IF u = last THEN pos[t] ELSE pos[u]
    BY Zenon, <1>1, <1>4 DEF Restrict, Put
  <1>6. /\ l - 1 \in Nat /\ list2 \in Seq(Tx) /\ Len(list2) = l - 1
        /\ \A k \in 1 .. l - 1 : list2[k] = IF k = pos[t] THEN last ELSE list[k]
    <2>1. l - 1 \in Nat /\ last \in Tx /\ \A k \in 1 .. l - 1 : list[k] \in Tx
      BY <1>1, <1>4
    <2>2. list2 \in [1 .. l - 1 -> Tx]
      BY Zenon, <2>1
    <2> HIDE DEF l, last
    <2>3. list2 \in Seq(Tx) /\ Len(list2) = l - 1
      BY <2>1, <2>2
    <2> QED
      BY Zenon, <2>1, <2>3
  <1>7. pos2 = [u \in D \ {t} |-> pos2[u]]
    BY Zenon, <1>1 DEF Restrict
  <1> HIDE DEF from2, pos2, list2, D, l
  <1>8. ASSUME NEW u \in D \ {t} PROVE pos2[u] \in 1 .. l - 1 /\ list2[pos2[u]] = u
    <2>1. CASE u = last
      <3>1. pos[t] # l
        BY Zenon, <1>1, <1>4, <2>1
      <3> QED
        BY <1>4, <1>5, <1>6, <2>1, <3>1
    <2>2. CASE u # last
      <3>1. pos[u] # l /\ pos[u] # pos[t] /\ pos[u] \in 1 .. l
        BY Zenon, <1>1, <1>4, <2>2 DEF l
      <3> QED
        BY <1>1, <1>5, <1>6, <2>2, <3>1
    <2> QED
      BY Zenon, <2>1, <2>2
  <1>9. ASSUME NEW k \in 1 .. l - 1 PROVE list2[k] \in D \ {t} /\ pos2[list2[k]] = k
    <2>1. k \in 1 .. l /\ k # l
      BY <1>1
    <2>2. CASE k = pos[t]
      <3>1. last # t
        BY Zenon, <1>4, <2>1, <2>2
      <3> QED
        BY Zenon, <1>4, <1>5, <1>6, <2>2, <3>1
    <2>3. CASE k # pos[t]
      <3>1. list[k] \in D /\ pos[list[k]] = k /\ list[k] # t /\ list[k] # last
        BY Zenon, <1>1, <1>4, <2>1, <2>3
      <3> QED
        BY Zenon, <1>5, <1>6, <2>3, <3>1
    <2> QED
      BY Zenon, <2>2, <2>3
  <1>10. pos2 \in [D \ {t} -> 1 .. l - 1]
    BY Zenon, <1>7, <1>8
  <1>11. Listed(from2, pos2, list2)
    BY Zenon, <1>2, <1>3, <1>6, <1>8, <1>9, <1>10 DEF Listed
  <1> QED
    BY Zenon, <1>11 DEF from2, pos2, list2, l, PosWithout, ListWithout

\* AddTx adds t, from p, unless it is there, and keeps the orphanage exact.
LEMMA AddTxExact ==
    ASSUME NEW o, OrphanageOK(o), NEW t \in Tx, NEW p \in Peer
    PROVE  /\ OrphanageOK(AddTx(o, t, p))
           /\ DOMAIN AddTx(o, t, p).from = DOMAIN o.from \cup {t}
           /\ \A u \in DOMAIN o.from : AddTx(o, t, p).from[u] = o.from[u]
           /\ t \notin DOMAIN o.from => AddTx(o, t, p).from[t] = p
  <1>1. CASE HaveTx(o, t)
    BY Zenon, <1>1 DEF AddTx, HaveTx
  <1>2. CASE ~HaveTx(o, t)
    <2> DEFINE a == AddTx(o, t, p)
               D == DOMAIN o.from
               prev2 == [i \in DOMAIN o.prev \cup Inputs[t] |->
                          (IF i \in DOMAIN o.prev THEN o.prev[i] ELSE {})
                          \cup (IF i \in Inputs[t] THEN {t} ELSE {})]
    <2>1. a = [from |-> Put(o.from, t, p), pos |-> Put(o.pos, t, Len(o.list) + 1),
               list |-> Append(o.list, t), prev |-> prev2]
      BY Zenon, <1>2 DEF AddTx
    <2>2. /\ a.from = Put(o.from, t, p) /\ a.pos = Put(o.pos, t, Len(o.list) + 1)
          /\ a.list = Append(o.list, t) /\ a.prev = prev2
      BY <2>1
    <2>3. t \in Tx \ D
      BY Zenon, <1>2 DEF HaveTx
    <2>4. DOMAIN Put(o.from, t, p) = D \cup {t} /\ Put(o.from, t, p)[t] = p
          /\ \A u \in D : Put(o.from, t, p)[u] = o.from[u]
      BY Zenon, <2>3 DEF Put
    <2>5. Listed(Put(o.from, t, p), Put(o.pos, t, Len(o.list) + 1), Append(o.list, t))
      <3> HIDE DEF a, prev2
      <3> QED
        BY Zenon, <2>3, AddListed DEF OrphanageOK
    <2>6. prev2 = Index(D \cup {t})
      <3>1. o.prev = Index(D)
        BY Zenon DEF OrphanageOK
      <3>2. DOMAIN o.prev = UNION {Inputs[u] : u \in D}
        BY Zenon, <3>1 DEF Index
      <3>3. \A i \in DOMAIN o.prev : o.prev[i] = {u \in D : i \in Inputs[u]}
        BY Zenon, <3>1 DEF Index
      <3> DEFINE E == DOMAIN o.prev \cup Inputs[t]
                 Old(i) == (IF i \in DOMAIN o.prev THEN o.prev[i] ELSE {})
                           \cup (IF i \in Inputs[t] THEN {t} ELSE {})
                 New(i) == {u \in D \cup {t} : i \in Inputs[u]}
      <3>4. UNION {Inputs[u] : u \in D \cup {t}} = E
        BY Zenon, <3>2
      <3>5. ASSUME NEW i \in E PROVE Old(i) = New(i)
        <4>1. i \notin DOMAIN o.prev => \A u \in D : i \notin Inputs[u]
          BY Zenon, <3>2
        <4> QED
          BY Zenon, <3>3, <4>1
      <3> HIDE DEF E
      <3>6. [i \in E |-> Old(i)] = [i \in E |-> New(i)]
        BY Zenon, <3>5
      <3> QED
        BY Zenon, <3>4, <3>6 DEF Index, E
    <2> HIDE DEF a, prev2
    <2>7. a = [from |-> a.from, pos |-> a.pos, list |-> a.list, prev |-> a.prev]
      BY Zenon, <2>1, <2>2
    <2>8. OrphanageOK(a)
      BY Zenon, <2>2, <2>4, <2>5, <2>6, <2>7 DEF OrphanageOK
    <2> QED
      BY Zenon, <2>2, <2>3, <2>4, <2>8 DEF a
  <1> QED
    BY Zenon, <1>1, <1>2

\* EraseTx removes t and keeps the orphanage exact.
LEMMA EraseTxExact ==
    ASSUME NEW o, OrphanageOK(o), NEW t
    PROVE  /\ OrphanageOK(EraseTx(o, t))
           /\ EraseTx(o, t).from = [u \in DOMAIN o.from \ {t} |-> o.from[u]]
  <1>1. CASE ~HaveTx(o, t)
    <2>1. o.from = [u \in DOMAIN o.from |-> o.from[u]]
      BY Zenon DEF OrphanageOK, Listed
    <2>2. DOMAIN o.from \ {t} = DOMAIN o.from
      BY Zenon, <1>1 DEF HaveTx
    <2> QED
      BY Zenon, <1>1, <2>1, <2>2 DEF EraseTx
  <1>2. CASE HaveTx(o, t)
    <2> DEFINE e == EraseTx(o, t)
               D == DOMAIN o.from
               rest == [i \in DOMAIN o.prev |-> o.prev[i] \ {t}]
               from2 == Restrict(o.from, D \ {t})
               pos2 == PosWithout(o.pos, o.list, t)
               list2 == ListWithout(o.pos, o.list, t)
               prev2 == Restrict(rest, {i \in DOMAIN rest : rest[i] # {}})
    <2>1. e = [from |-> from2, pos |-> pos2, list |-> list2, prev |-> prev2]
      BY Zenon, <1>2 DEF EraseTx, PosWithout, ListWithout
    <2>2. Listed(from2, pos2, list2)
      <3>1. t \in DOMAIN o.from /\ Listed(o.from, o.pos, o.list)
        BY Zenon, <1>2 DEF HaveTx, OrphanageOK
      <3> QED
        BY Zenon, <3>1, EraseListed
    <2>3. from2 = [u \in D \ {t} |-> o.from[u]] /\ DOMAIN from2 = D \ {t}
      BY Zenon DEF Restrict
    <2>4. prev2 = Index(D \ {t})
      <3>1. o.prev = Index(D)
        BY Zenon DEF OrphanageOK
      <3>2. DOMAIN o.prev = UNION {Inputs[u] : u \in D}
        BY Zenon, <3>1 DEF Index
      <3>3. \A i \in DOMAIN o.prev : o.prev[i] = {u \in D : i \in Inputs[u]}
        BY Zenon, <3>1 DEF Index
      <3> DEFINE E == UNION {Inputs[u] : u \in D \ {t}}
      <3>4. \A i \in DOMAIN o.prev : rest[i] = {u \in D \ {t} : i \in Inputs[u]}
        BY Zenon, <3>3
      <3> HIDE DEF rest
      <3>5. {i \in DOMAIN o.prev : rest[i] # {}} = E
        BY <3>2, <3>4
      <3>6. E \subseteq DOMAIN o.prev
        BY Zenon, <3>2
      <3> HIDE DEF E
      <3>7. [i \in E |-> rest[i]] = [i \in E |-> {u \in D \ {t} : i \in Inputs[u]}]
        BY Zenon, <3>4, <3>6
      <3>8. DOMAIN rest = DOMAIN o.prev
        BY Zenon DEF rest
      <3> QED
        BY Zenon, <3>5, <3>7, <3>8 DEF Index, Restrict, E
    <2> HIDE DEF e, from2, pos2, list2, prev2
    <2>5. e.from = from2 /\ e.pos = pos2 /\ e.list = list2 /\ e.prev = prev2
      BY Zenon, <2>1
    <2>6. e = [from |-> e.from, pos |-> e.pos, list |-> e.list, prev |-> e.prev]
      BY Zenon, <2>1, <2>5
    <2>7. OrphanageOK(e)
      BY Zenon, <2>2, <2>3, <2>4, <2>5, <2>6 DEF OrphanageOK
    <2> QED
      BY Zenon, <2>3, <2>5, <2>7 DEF e
  <1> QED
    BY Zenon, <1>1, <1>2

\* An orphanage whose maps agree has its type.
LEMMA OrphanageType ==
    ASSUME NEW o, OrphanageOK(o)
    PROVE  o \in Orphanage
  <1> DEFINE D == DOMAIN o.from
             I == UNION {Inputs[t] : t \in Tx}
  <1>1. /\ D \in SUBSET Tx /\ o.from \in [D -> Peer] /\ o.list \in Seq(Tx)
        /\ o.pos \in [D -> 1 .. Len(o.list)] /\ Len(o.list) = Cardinality(D)
    BY Zenon DEF OrphanageOK, Listed
  <1>2. 1 .. Len(o.list) \subseteq 1 .. Cardinality(Tx)
    <2>1. /\ Cardinality(D) \in Nat /\ Cardinality(D) <= Cardinality(Tx)
          /\ Cardinality(Tx) \in Nat
      BY Zenon, <1>1, OrphansFinite
    <2> QED
      BY <1>1, <2>1
  <1>3. o.from \in Partial(Tx, Peer)
    BY Zenon, <1>1 DEF Partial
  <1>4. o.pos \in Partial(Tx, 1 .. Cardinality(Tx))
    <2>1. o.pos \in [D -> 1 .. Cardinality(Tx)]
      BY Zenon, <1>1, <1>2
    <2> QED
      BY Zenon, <1>1, <2>1 DEF Partial
  <1>5. o.prev \in Partial(I, SUBSET Tx)
    <2> DEFINE J == UNION {Inputs[t] : t \in D}
    <2>1. J \in SUBSET I
      BY Zenon, <1>1
    <2>2. o.prev = [i \in J |-> {t \in D : i \in Inputs[t]}]
      BY Zenon DEF OrphanageOK, Index
    <2>3. o.prev \in [J -> SUBSET Tx]
      BY Zenon, <1>1, <2>2
    <2> HIDE DEF I, J
    <2> QED
      BY Zenon, <2>1, <2>3 DEF Partial
  <1>6. o = [from |-> o.from, pos |-> o.pos, list |-> o.list, prev |-> o.prev]
    BY Zenon DEF OrphanageOK
  <1> QED
    BY Zenon, <1>1, <1>3, <1>4, <1>5, <1>6 DEF Orphanage

\* V is closed under EraseTx, and h holds what EraseAll passes through.
EraseCloses(V, S) == \A t \in S, v \in V : EraseTx(v, t) \in V
EraseSteps(h, o, S) ==
    /\ EraseAll(o, S) = h[S] /\ h[{}] = o
    /\ \A s \in (SUBSET S) \ {{}} : h[s] = EraseTx(h[s \ {Pick(s)}], Pick(s))

\* EraseAll is a fold of EraseTx.
LEMMA EraseAllUnfolds ==
    ASSUME NEW S, IsFiniteSet(S), NEW V, NEW o \in V, EraseCloses(V, S)
    PROVE  \E h \in [SUBSET S -> V] : EraseSteps(h, o, S)
  <1> DEFINE F == [t \in S |-> [v \in V |-> EraseTx(v, t)]]
             Runs(g) == g = [s \in SUBSET S |-> IF s = {} THEN o
                                                ELSE EraseTx(g[s \ {Pick(s)}], Pick(s))]
             h == CHOOSE g : Runs(g)
  <1>1. EraseAll(o, S) = h[S]
    BY Zenon DEF EraseAll, FoldSet, MapThenFoldSet, Pick
  <1>2. F \in [S -> [V -> V]] /\ \A t \in S, v \in V : F[t][v] = EraseTx(v, t)
    BY Zenon DEF EraseCloses
  <1> HIDE DEF F
  <1>3. PICK g \in [SUBSET S -> V] : FoldOf(g, F, o, S)
    BY Zenon, <1>2, FoldExists
  <1>4. ASSUME NEW s \in SUBSET S
        PROVE  (IF s = {} THEN o ELSE F[Pick(s)][g[s \ {Pick(s)}]])
                 = IF s = {} THEN o ELSE EraseTx(g[s \ {Pick(s)}], Pick(s))
    <2>1. CASE s # {}
      <3>1. Pick(s) \in S /\ g[s \ {Pick(s)}] \in V
        BY Zenon, <2>1 DEF Pick
      <3> QED
        BY Zenon, <1>2, <2>1, <3>1
    <2> QED
      BY Zenon, <2>1
  <1>5. Runs(g)
    <2>1. [s \in SUBSET S |-> IF s = {} THEN o ELSE F[Pick(s)][g[s \ {Pick(s)}]]]
            = [s \in SUBSET S |-> IF s = {} THEN o ELSE EraseTx(g[s \ {Pick(s)}], Pick(s))]
      BY Zenon, <1>4
    <2> QED
      BY Zenon, <1>3, <2>1 DEF FoldOf
  <1>6. Runs(h)
    <2> HIDE DEF Runs
    <2> QED
      BY Zenon, <1>5
  <1> HIDE DEF h
  <1>7. /\ DOMAIN h = SUBSET S /\ h[{}] = o
        /\ \A s \in (SUBSET S) \ {{}} : h[s] = EraseTx(h[s \ {Pick(s)}], Pick(s))
    BY Zenon, <1>6
  <1>8. h \in [SUBSET S -> V]
    <2> DEFINE T == {s \in SUBSET S : h[s] \in V}
    <2>1. Inductive(T, S)
      <3>1. ASSUME NEW s \in SUBSET S, s # {}, s \ {Pick(s)} \in T PROVE h[s] \in V
        <4>1. Pick(s) \in S
          BY Zenon, <3>1 DEF Pick
        <4> QED
          BY Zenon, <1>7, <3>1, <4>1 DEF EraseCloses
      <3> QED
        BY Zenon, <1>7, <3>1 DEF Inductive
    <2>2. h = [s \in SUBSET S |-> h[s]]
      BY Zenon, <1>6
    <2> HIDE DEF T
    <2>3. T = SUBSET S
      BY <2>1, SubsetInduction, Zenon
    <2> QED
      BY Zenon, <2>2, <2>3 DEF T
  <1> QED
    BY Zenon, <1>1, <1>7, <1>8 DEF EraseSteps

\* EraseAll removes S and keeps the orphanage exact.
LEMMA EraseAllExact ==
    ASSUME NEW o, OrphanageOK(o), NEW S, IsFiniteSet(S)
    PROVE  /\ OrphanageOK(EraseAll(o, S))
           /\ EraseAll(o, S).from = [u \in DOMAIN o.from \ S |-> o.from[u]]
  <1> DEFINE V == {v \in Orphanage : OrphanageOK(v)}
             Left(s) == [u \in DOMAIN o.from \ s |-> o.from[u]]
  <1>1. o \in V /\ EraseCloses(V, S)
    BY Zenon, OrphanageType, EraseTxExact DEF EraseCloses
  <1>2. \A v \in V : OrphanageOK(v)
    BY Zenon
  <1> HIDE DEF V
  <1>3. PICK h \in [SUBSET S -> V] : EraseSteps(h, o, S)
    BY <1>1, EraseAllUnfolds, Zenon
  <1> DEFINE T == {s \in SUBSET S : h[s].from = Left(s)}
  <1>4. {} \in T
    <2>1. o.from = [u \in DOMAIN o.from |-> o.from[u]]
      BY Zenon DEF OrphanageOK, Listed
    <2>2. DOMAIN o.from \ {} = DOMAIN o.from
      BY Zenon
    <2> QED
      BY Zenon, <1>3, <2>1, <2>2 DEF EraseSteps
  <1>5. ASSUME NEW s \in SUBSET S, s # {}, s \ {Pick(s)} \in T PROVE s \in T
    <2> DEFINE x == Pick(s)
               w == h[s \ {x}]
    <2>1. x \in s
      BY Zenon, <1>5 DEF Pick
    <2>2. h[s] = EraseTx(w, x) /\ OrphanageOK(w) /\ w.from = Left(s \ {x})
      BY Zenon, <1>2, <1>3, <1>5 DEF EraseSteps
    <2> HIDE DEF w, x, Left
    <2>3. h[s].from = [u \in DOMAIN w.from \ {x} |-> w.from[u]]
      BY <2>2, EraseTxExact
    <2>4. [u \in DOMAIN w.from \ {x} |-> w.from[u]] = Left(s)
      <3>1. DOMAIN w.from = DOMAIN o.from \ (s \ {x})
            /\ \A u \in DOMAIN o.from \ (s \ {x}) : w.from[u] = o.from[u]
        BY Zenon, <2>2 DEF Left
      <3>2. DOMAIN w.from \ {x} = DOMAIN o.from \ s
        BY Zenon, <2>1, <3>1
      <3>3. \A u \in DOMAIN o.from \ s : w.from[u] = o.from[u]
        BY Zenon, <3>1
      <3> QED
        BY Zenon, <3>2, <3>3 DEF Left
    <2> QED
      BY Zenon, <2>3, <2>4
  <1>6. T = SUBSET S
    <2>1. Inductive(T, S)
      <3>1. T \subseteq SUBSET S
        BY Zenon
      <3> HIDE DEF T
      <3> QED
        BY Zenon, <1>4, <1>5, <3>1 DEF Inductive
    <2> HIDE DEF T
    <2> QED
      BY <2>1, SubsetInduction, Zenon
  <1>7. S \in T
    BY Zenon, <1>6
  <1> QED
    BY Zenon, <1>2, <1>3, <1>7 DEF EraseSteps

\* Every orphan came from a peer of C.
FromPeers(o, C) == \A t \in DOMAIN o.from : o.from[t] \in C

\* What the orphanage is between two handlers, C being the connected peers.
OrphanageGood(o, C) == OrphanageOK(o) /\ FromPeers(o, C) /\ Len(o.list) <= MaxOrphans

\* EraseAll erases exactly S.
LEMMA EraseAllGood ==
    ASSUME NEW o, NEW C, OrphanageOK(o), FromPeers(o, C), NEW S \in SUBSET Tx
    PROVE  /\ OrphanageOK(EraseAll(o, S)) /\ FromPeers(EraseAll(o, S), C)
           /\ DOMAIN EraseAll(o, S).from = DOMAIN o.from \ S
           /\ \A u \in DOMAIN o.from \ S : EraseAll(o, S).from[u] = o.from[u]
           /\ Len(o.list) <= MaxOrphans => Len(EraseAll(o, S).list) <= MaxOrphans
  <1> DEFINE e == EraseAll(o, S)
  <1>1. OrphanageOK(e) /\ e.from = [u \in DOMAIN o.from \ S |-> o.from[u]]
    BY Zenon, OrphansFinite, EraseAllExact
  <1> HIDE DEF e
  <1>2. DOMAIN e.from = DOMAIN o.from \ S /\ \A u \in DOMAIN o.from \ S : e.from[u] = o.from[u]
    BY Zenon, <1>1
  <1>3. FromPeers(e, C)
    BY Zenon, <1>2 DEF FromPeers
  <1>4. Len(o.list) <= MaxOrphans => Len(e.list) <= MaxOrphans
    <2>1. /\ Len(o.list) = Cardinality(DOMAIN o.from) /\ Len(e.list) = Cardinality(DOMAIN e.from)
          /\ DOMAIN o.from \in SUBSET Tx
      BY Zenon, <1>1 DEF OrphanageOK, Listed
    <2>2. Cardinality(DOMAIN e.from) <= Cardinality(DOMAIN o.from)
          /\ Cardinality(DOMAIN e.from) \in Nat /\ Cardinality(DOMAIN o.from) \in Nat
      BY Zenon, <1>2, <2>1, OrphansFinite, FS_Subset
    <2> QED
      BY <2>1, <2>2, DownloadAssumption DEF DownloadAssumption
  <1> QED
    BY Zenon, <1>1, <1>2, <1>3, <1>4 DEF e

\* EraseTx erases t.
LEMMA EraseTxGood ==
    ASSUME NEW o, NEW C, OrphanageGood(o, C), NEW t
    PROVE  /\ OrphanageGood(EraseTx(o, t), C)
           /\ DOMAIN EraseTx(o, t).from = DOMAIN o.from \ {t}
  <1> DEFINE e == EraseTx(o, t)
  <1>1. OrphanageOK(e) /\ e.from = [u \in DOMAIN o.from \ {t} |-> o.from[u]]
    BY Zenon, EraseTxExact DEF OrphanageGood
  <1> HIDE DEF e
  <1>2. /\ Len(o.list) = Cardinality(DOMAIN o.from) /\ Len(e.list) = Cardinality(DOMAIN e.from)
        /\ DOMAIN o.from \in SUBSET Tx
    BY Zenon, <1>1 DEF OrphanageGood, OrphanageOK, Listed
  <1>3. DOMAIN e.from = DOMAIN o.from \ {t}
    BY Zenon, <1>1
  <1>4. Cardinality(DOMAIN e.from) <= Cardinality(DOMAIN o.from)
        /\ Cardinality(DOMAIN e.from) \in Nat /\ Cardinality(DOMAIN o.from) \in Nat
    BY Zenon, <1>2, <1>3, OrphansFinite, FS_Subset
  <1>5. FromPeers(e, C)
    BY Zenon, <1>1 DEF OrphanageGood, FromPeers
  <1>6. Len(e.list) <= MaxOrphans
    BY <1>2, <1>4, DownloadAssumption DEF DownloadAssumption, OrphanageGood
  <1> QED
    BY Zenon, <1>1, <1>3, <1>5, <1>6 DEF OrphanageGood, e

\* LimitOrphans leaves at most MaxOrphans, whatever has expired and whatever
\* positions are drawn.
LEMMA LimitOrphansGood ==
    ASSUME NEW o, NEW C, OrphanageOK(o), FromPeers(o, C), NEW S \in SUBSET Tx,
           NEW w \in LimitOrphans(o, S, MaxOrphans)
    PROVE  OrphanageGood(w, C) /\ DOMAIN w.from \subseteq DOMAIN o.from
  <1> DEFINE e == EraseAll(o, S)
             l == Len(e.list)
  <1>1. OrphanageOK(e) /\ FromPeers(e, C) /\ DOMAIN e.from = DOMAIN o.from \ S
    BY Zenon, EraseAllGood
  <1>2. CASE l <= MaxOrphans
    <2>1. w = e
      BY Zenon, <1>2 DEF LimitOrphans
    <2> HIDE DEF e
    <2> QED
      BY Zenon, <1>1, <1>2, <2>1 DEF OrphanageGood
  <1>3. CASE ~(l <= MaxOrphans)
    <2>1. PICK K \in kSubset(l - MaxOrphans, DOMAIN e.from) : w = EraseAll(e, K)
      BY Zenon, <1>3 DEF LimitOrphans
    <2> HIDE DEF e
    <2>2. DOMAIN e.from \in SUBSET Tx /\ l = Cardinality(DOMAIN e.from)
      BY Zenon, <1>1 DEF OrphanageOK, Listed
    <2>3. K \in SUBSET DOMAIN e.from /\ Cardinality(K) = l - MaxOrphans
      BY Zenon, <2>1 DEF kSubset
    <2>4. OrphanageOK(w) /\ FromPeers(w, C) /\ DOMAIN w.from = DOMAIN e.from \ K
      BY Zenon, <1>1, <2>1, <2>2, <2>3, EraseAllGood
    <2>5. Cardinality(DOMAIN e.from \ K) = MaxOrphans
      <3>1. IsFiniteSet(DOMAIN e.from) /\ IsFiniteSet(K) /\ l \in Nat /\ MaxOrphans \in Nat
        BY Zenon, <2>2, <2>3, OrphansFinite, DownloadAssumption DEF DownloadAssumption
      <3>2. Cardinality(DOMAIN e.from \ K)
              = Cardinality(DOMAIN e.from) - Cardinality(DOMAIN e.from \cap K)
        BY Zenon, <3>1, FS_Difference
      <3>3. DOMAIN e.from \cap K = K
        BY Zenon, <2>3
      <3>4. Cardinality(DOMAIN e.from \ K) = l - (l - MaxOrphans)
        BY Zenon, <2>2, <2>3, <3>2, <3>3
      <3> QED
        BY <3>1, <3>4
    <2>6. Len(w.list) = Cardinality(DOMAIN w.from)
      BY Zenon, <2>4 DEF OrphanageOK, Listed
    <2>7. Len(w.list) <= MaxOrphans
      BY <2>4, <2>5, <2>6, DownloadAssumption DEF DownloadAssumption
    <2> QED
      BY Zenon, <1>1, <2>4, <2>7 DEF OrphanageGood
  <1> QED
    BY Zenon, <1>2, <1>3

\* Through the outpoint index AddChildrenToWorkSet finds every orphan that
\* spends an output of t.
LEMMA ChildrenFound ==
    ASSUME NEW o, OrphanageOK(o), NEW t
    PROVE  AddChildrenToWorkSet(o, t) = {u \in DOMAIN o.from : \E i \in Inputs[u] : i[1] = t}
  <1>1. /\ DOMAIN o.prev = UNION {Inputs[u] : u \in DOMAIN o.from}
        /\ \A i \in DOMAIN o.prev : o.prev[i] = {u \in DOMAIN o.from : i \in Inputs[u]}
    BY Zenon DEF OrphanageOK, Index
  <1>2. ASSUME NEW u \in AddChildrenToWorkSet(o, t)
        PROVE  u \in DOMAIN o.from /\ \E i \in Inputs[u] : i[1] = t
    <2>1. PICK i \in DOMAIN o.prev : i[1] = t /\ u \in o.prev[i]
      BY Zenon DEF AddChildrenToWorkSet
    <2> QED
      BY Zenon, <1>1, <2>1
  <1>3. ASSUME NEW u \in DOMAIN o.from, NEW i \in Inputs[u], i[1] = t
        PROVE  u \in AddChildrenToWorkSet(o, t)
    <2>1. i \in DOMAIN o.prev /\ u \in o.prev[i]
      BY Zenon, <1>1
    <2> QED
      BY Zenon, <1>3, <2>1 DEF AddChildrenToWorkSet
  <1> QED
    BY Zenon, <1>2, <1>3

\* EraseForPeer leaves no orphan of p.
LEMMA EraseForPeerGood ==
    ASSUME NEW o, NEW C, OrphanageGood(o, C), NEW p
    PROVE  /\ OrphanageGood(EraseForPeer(o, p), C \ {p})
           /\ DOMAIN EraseForPeer(o, p).from \subseteq DOMAIN o.from
  <1> DEFINE S == {t \in DOMAIN o.from : o.from[t] = p}
             e == EraseAll(o, S)
  <1>1. S \in SUBSET Tx /\ OrphanageOK(o) /\ FromPeers(o, C) /\ Len(o.list) <= MaxOrphans
    BY Zenon DEF OrphanageGood, OrphanageOK, Listed
  <1> HIDE DEF S
  <1>2. /\ OrphanageOK(e) /\ FromPeers(e, C) /\ Len(e.list) <= MaxOrphans
        /\ DOMAIN e.from = DOMAIN o.from \ S
        /\ \A u \in DOMAIN o.from \ S : e.from[u] = o.from[u]
    BY Zenon, <1>1, EraseAllGood
  <1>3. EraseForPeer(o, p) = e
    BY Zenon DEF EraseForPeer, S
  <1> HIDE DEF e
  <1>4. FromPeers(e, C \ {p})
    BY Zenon, <1>2 DEF FromPeers, S
  <1> QED
    BY Zenon, <1>2, <1>3, <1>4 DEF OrphanageGood

\* EraseForBlock adds no orphan.
LEMMA EraseForBlockGood ==
    ASSUME NEW o, NEW C, OrphanageGood(o, C), NEW block
    PROVE  /\ OrphanageGood(EraseForBlock(o, block), C)
           /\ DOMAIN EraseForBlock(o, block).from \subseteq DOMAIN o.from
  <1> DEFINE S == UNION {o.prev[i] : i \in DOMAIN o.prev \cap UNION {Inputs[t] : t \in block}}
             e == EraseAll(o, S)
  <1>1. OrphanageOK(o) /\ FromPeers(o, C) /\ Len(o.list) <= MaxOrphans
    BY Zenon DEF OrphanageGood
  <1>2. S \in SUBSET Tx
    <2>1. \A i \in DOMAIN o.prev : o.prev[i] \subseteq DOMAIN o.from
      BY Zenon, <1>1 DEF OrphanageOK, Index
    <2>2. DOMAIN o.from \subseteq Tx
      BY Zenon, <1>1 DEF OrphanageOK, Listed
    <2> QED
      BY Zenon, <2>1, <2>2
  <1> HIDE DEF S
  <1>3. /\ OrphanageOK(e) /\ FromPeers(e, C) /\ Len(e.list) <= MaxOrphans
        /\ DOMAIN e.from = DOMAIN o.from \ S
    BY Zenon, <1>1, <1>2, EraseAllGood
  <1>4. EraseForBlock(o, block) = e
    BY Zenon DEF EraseForBlock, S
  <1> HIDE DEF e
  <1> QED
    BY Zenon, <1>3, <1>4 DEF OrphanageGood

-----------------------------------------------------------------------------
(* The node. *)

\* What TxMissing makes of the tracker.
Asked(k, p, S) == FoldSet(LAMBDA q, acc : AddTxAnnouncement(acc, p, q, TRUE), k, S)
AskCloses(V, p, S) == \A q \in S, v \in V : AddTxAnnouncement(v, p, q, TRUE) \in V

\* The fold stays in every set that one request does not leave.
LEMMA AskedStays ==
    ASSUME NEW S, IsFiniteSet(S), NEW V, NEW k \in V, NEW p, AskCloses(V, p, S)
    PROVE  Asked(k, p, S) \in V
  <1> DEFINE F == [x \in S |-> [v \in V |-> AddTxAnnouncement(v, p, x, TRUE)]]
             Runs(g) == g = [s \in SUBSET S |-> IF s = {} THEN k
                                                ELSE AddTxAnnouncement(g[s \ {Pick(s)}], p, Pick(s), TRUE)]
             h == CHOOSE g : Runs(g)
  <1>1. Asked(k, p, S) = h[S]
    BY Zenon DEF Asked, FoldSet, MapThenFoldSet, Pick
  <1>2. F \in [S -> [V -> V]] /\ \A x \in S, v \in V : F[x][v] = AddTxAnnouncement(v, p, x, TRUE)
    BY Zenon DEF AskCloses
  <1> HIDE DEF F
  <1>3. PICK g \in [SUBSET S -> V] : FoldOf(g, F, k, S)
    BY Zenon, <1>2, FoldExists
  <1>4. ASSUME NEW s \in SUBSET S
        PROVE  (IF s = {} THEN k ELSE F[Pick(s)][g[s \ {Pick(s)}]])
                 = IF s = {} THEN k ELSE AddTxAnnouncement(g[s \ {Pick(s)}], p, Pick(s), TRUE)
    <2>1. CASE s # {}
      <3>1. Pick(s) \in S /\ g[s \ {Pick(s)}] \in V
        BY Zenon, <2>1 DEF Pick
      <3> QED
        BY Zenon, <1>2, <2>1, <3>1
    <2> QED
      BY Zenon, <2>1
  <1>5. Runs(g)
    <2>1. [s \in SUBSET S |-> IF s = {} THEN k ELSE F[Pick(s)][g[s \ {Pick(s)}]]]
            = [s \in SUBSET S |-> IF s = {} THEN k
                                   ELSE AddTxAnnouncement(g[s \ {Pick(s)}], p, Pick(s), TRUE)]
      BY Zenon, <1>4
    <2> QED
      BY Zenon, <1>3, <2>1 DEF FoldOf
  <1>6. Runs(h)
    <2> HIDE DEF Runs
    <2> QED
      BY Zenon, <1>5
  <1> HIDE DEF h
  <1>7. /\ DOMAIN h = SUBSET S /\ h[{}] = k
        /\ \A s \in (SUBSET S) \ {{}} : h[s] = AddTxAnnouncement(h[s \ {Pick(s)}], p, Pick(s), TRUE)
    BY Zenon, <1>6
  <1>8. h \in [SUBSET S -> V]
    <2> DEFINE T == {s \in SUBSET S : h[s] \in V}
    <2>1. Inductive(T, S)
      <3>1. ASSUME NEW s \in SUBSET S, s # {}, s \ {Pick(s)} \in T PROVE h[s] \in V
        <4>1. Pick(s) \in S
          BY Zenon, <3>1 DEF Pick
        <4>2. h[s \ {Pick(s)}] \in V /\ h[s] = AddTxAnnouncement(h[s \ {Pick(s)}], p, Pick(s), TRUE)
          BY Zenon, <1>7, <3>1
        <4>3. AddTxAnnouncement(h[s \ {Pick(s)}], p, Pick(s), TRUE) \in V
          BY Zenon, <4>1, <4>2 DEF AskCloses
        <4> QED
          BY Zenon, <4>2, <4>3
      <3> QED
        BY Zenon, <1>7, <3>1 DEF Inductive
    <2>2. h = [s \in SUBSET S |-> h[s]]
      BY Zenon, <1>6
    <2> HIDE DEF T
    <2>3. T = SUBSET S
      BY <2>1, SubsetInduction, Zenon
    <2> QED
      BY Zenon, <2>2, <2>3 DEF T
  <1> QED
    BY Zenon, <1>1, <1>8

\* Only transactions of S are asked for.
LEMMA AskedGood ==
    ASSUME NEW k, NEW C, TrackerGood(k, C), NEW p \in Peer \cap C, NEW S \in SUBSET Tx
    PROVE  TrackerGood(Asked(k, p, S), C) /\ \A u \in Tx \ S : Asked(k, p, S).ann[u] = k.ann[u]
  <1> DEFINE V == {v \in Tracker : TrackerGood(v, C) /\ \A u \in Tx \ S : v.ann[u] = k.ann[u]}
  <1>1. k \in V
    BY Zenon DEF TrackerGood, TrackerOK
  <1>2. ASSUME NEW q \in S, NEW v \in V PROVE AddTxAnnouncement(v, p, q, TRUE) \in V
    <2> DEFINE w == AddTxAnnouncement(v, p, q, TRUE)
    <2>1. TrackerGood(w, C) /\ AddsOnly(v, w, p, q)
      BY Zenon, AddTxAnnouncementGood
    <2> HIDE DEF w
    <2>2. w \in Tracker
      BY Zenon, <2>1 DEF TrackerGood, TrackerOK
    <2>3. \A u \in Tx \ S : w.ann[u] = k.ann[u]
      BY Zenon, <2>1 DEF AddsOnly
    <2> QED
      BY Zenon, <2>1, <2>2, <2>3 DEF w
  <1>3. AskCloses(V, p, S)
    BY Zenon, <1>2 DEF AskCloses
  <1>4. \A v \in V : TrackerGood(v, C) /\ \A u \in Tx \ S : v.ann[u] = k.ann[u]
    BY Zenon
  <1>5. IsFiniteSet(S)
    BY Zenon, OrphansFinite
  <1> HIDE DEF V
  <1>6. Asked(k, p, S) \in V
    BY <1>1, <1>3, <1>5, AskedStays, Zenon
  <1> QED
    BY Zenon, <1>4, <1>6

-----------------------------------------------------------------------------
(* The node. *)

NodeOK(m, C) == m \in Node /\ TrackerGood(m.trk, C) /\ OrphanageGood(m.orph, C)

\* In the orphanage or the mempool.
Holds(m, t) == HaveTx(m.orph, t) \/ t \in m.pool

\* What AlreadyHaveTx says, confirmed transactions apart.
Knows(m, t) == Holds(m, t) \/ t \in m.rejects

\* Stranded, of a node m.
Left(m, t, C) ==
    /\ HaveTx(m.orph, t)
    /\ \A i \in Inputs[t] : Available(i, m.pool, Mined)
    /\ \A p \in C : t \notin m.work[p]

\* The three ways ProcessOrphanTx ends: every orphan of the work set is skipped,
\* one is accepted, one is rejected.
AllSkipped(m, m2, p) ==
    /\ m.work[p] = Skippable(m, p)
    /\ m2.orph = m.orph /\ m2.pool = m.pool /\ m2.rejects = m.rejects
    /\ m2.work = [m.work EXCEPT ![p] = {}]
OneAccepted(m, m2, p, t, S) ==
    /\ m2.orph = EraseTx(m.orph, t) /\ m2.pool = m.pool \cup {t} /\ m2.rejects = m.rejects
    /\ m2.work = [m.work EXCEPT ![p] =
                    (m.work[p] \ (S \cup {t})) \cup AddChildrenToWorkSet(m.orph, t)]
OneRejected(m, m2, p, t, S) ==
    /\ m2.orph = EraseTx(m.orph, t) /\ m2.pool = m.pool /\ m2.rejects = m.rejects \cup {t}
    /\ m2.work = [m.work EXCEPT ![p] = m.work[p] \ (S \cup {t})]

\* ProcessOrphanTx ends in one of these ways.
LEMMA ProcessOrphanCases ==
    ASSUME NEW m \in Node, NEW p \in Peer, NEW m2 \in ProcessOrphanTx(m, p)
    PROVE  /\ m2 = [trk |-> m.trk, orph |-> m2.orph, pool |-> m2.pool, rejects |-> m2.rejects,
                    work |-> m2.work]
           /\ \/ AllSkipped(m, m2, p)
              \/ \E t \in m.work[p], S \in SUBSET Skippable(m, p) :
                   HaveTx(m.orph, t) /\ (OneAccepted(m, m2, p, t, S) \/ OneRejected(m, m2, p, t, S))
  <1> DEFINE Shape == m2 = [trk |-> m.trk, orph |-> m2.orph, pool |-> m2.pool,
                            rejects |-> m2.rejects, work |-> m2.work]
  <1>1. \/ m.work[p] = Skippable(m, p) /\ m2 = [m EXCEPT !.work[p] = {}]
        \/ \E t \in Tried(m, p, "valid"), S \in SUBSET Skippable(m, p) :
             m2 = OrphanAccepted(m, p, t, S)
        \/ \E t \in Tried(m, p, "invalid"), S \in SUBSET Skippable(m, p) :
             m2 = OrphanRejected(m, p, t, S)
    BY DEF ProcessOrphanTx
  <1>2. CASE m.work[p] = Skippable(m, p) /\ m2 = [m EXCEPT !.work[p] = {}]
    BY Zenon, <1>2 DEF AllSkipped, Node
  <1>3. ASSUME NEW t \in Tried(m, p, "valid"), NEW S \in SUBSET Skippable(m, p),
               m2 = OrphanAccepted(m, p, t, S)
        PROVE  Shape /\ OneAccepted(m, m2, p, t, S)
    BY Zenon, <1>3 DEF OneAccepted, OrphanAccepted, Node
  <1>4. ASSUME NEW t \in Tried(m, p, "invalid"), NEW S \in SUBSET Skippable(m, p),
               m2 = OrphanRejected(m, p, t, S)
        PROVE  Shape /\ OneRejected(m, m2, p, t, S)
    BY Zenon, <1>4 DEF OneRejected, OrphanRejected, Node
  <1>5. \A answer, t : t \in Tried(m, p, answer) => t \in m.work[p] /\ HaveTx(m.orph, t)
    BY Zenon DEF Tried
  <1> HIDE DEF Shape
  <1>6. CASE \E t \in Tried(m, p, "valid"), S \in SUBSET Skippable(m, p) :
               m2 = OrphanAccepted(m, p, t, S)
    BY Zenon, <1>3, <1>5, <1>6 DEF Shape
  <1>7. CASE \E t \in Tried(m, p, "invalid"), S \in SUBSET Skippable(m, p) :
               m2 = OrphanRejected(m, p, t, S)
    BY Zenon, <1>4, <1>5, <1>7 DEF Shape
  <1> QED
    BY Zenon, <1>1, <1>2, <1>6, <1>7

\* A transaction that may be answered "missing" lacks a parent.
LEMMA MissingParent ==
    ASSUME NEW m, NEW t, "missing" \in ProcessTransaction(m, t)
    PROVE  \E i \in Inputs[t] : ~Available(i, m.pool, Mined)
  <1>1. CASE \E i \in Inputs[t] : Spends(m.pool, i)
    BY Zenon, <1>1 DEF ProcessTransaction
  <1>2. CASE /\ ~\E i \in Inputs[t] : Spends(m.pool, i)
             /\ ~\E i \in Inputs[t] : ~Available(i, m.pool, Mined) /\ ~Spends(m.pool, i)
    BY Zenon, <1>2 DEF ProcessTransaction
  <1> QED
    BY Zenon, <1>1, <1>2

\* What is known of a good node's parts.
LEMMA NodeFields ==
    ASSUME NEW m, NEW C, NodeOK(m, C)
    PROVE  /\ m.pool \in SUBSET Tx /\ m.rejects \in SUBSET Tx /\ m.work \in [Peer -> SUBSET Tx]
           /\ TrackerGood(m.trk, C) /\ OrphanageGood(m.orph, C) /\ OrphanageOK(m.orph)
           /\ DOMAIN m.orph.from \in SUBSET Tx
           /\ m = [trk |-> m.trk, orph |-> m.orph, pool |-> m.pool, rejects |-> m.rejects,
                   work |-> m.work]
  BY Zenon DEF NodeOK, Node, OrphanageGood, OrphanageOK, Listed

\* A node with good parts is good.
LEMMA NodeMade ==
    ASSUME NEW m, NEW C,
           m = [trk |-> m.trk, orph |-> m.orph, pool |-> m.pool, rejects |-> m.rejects,
                work |-> m.work],
           TrackerGood(m.trk, C), OrphanageGood(m.orph, C),
           m.pool \in SUBSET Tx, m.rejects \in SUBSET Tx, m.work \in [Peer -> SUBSET Tx]
    PROVE  NodeOK(m, C)
  <1>1. m.trk \in Tracker
    BY Zenon DEF TrackerGood, TrackerOK
  <1>2. m.orph \in Orphanage
    BY Zenon, OrphanageType DEF OrphanageGood
  <1> QED
    BY Zenon, <1>1, <1>2 DEF NodeOK, Node

\* ProcessOrphanTx keeps the node good, leaves the tracker alone, learns of no
\* new transaction, and strands no orphan.
LEMMA ProcessOrphanGood ==
    ASSUME NEW m, NEW C \in SUBSET Peer, NodeOK(m, C), NEW p \in C, NEW m2 \in ProcessOrphanTx(m, p)
    PROVE  /\ NodeOK(m2, C) /\ m2.trk = m.trk
           /\ \A t : (Holds(m2, t) => Holds(m, t)) /\ (Knows(m2, t) => Knows(m, t))
           /\ \A t \in Tx : Left(m2, t, C) => Left(m, t, C)
  <1>0. m \in Node /\ p \in Peer
    BY Zenon DEF NodeOK
  <1>1. /\ m.pool \in SUBSET Tx /\ m.rejects \in SUBSET Tx /\ m.work \in [Peer -> SUBSET Tx]
        /\ TrackerGood(m.trk, C) /\ OrphanageGood(m.orph, C) /\ OrphanageOK(m.orph)
        /\ DOMAIN m.orph.from \in SUBSET Tx
    BY Zenon, NodeFields
  <1> DEFINE Shape == m2 = [trk |-> m.trk, orph |-> m2.orph, pool |-> m2.pool,
                            rejects |-> m2.rejects, work |-> m2.work]
  <1>2. Shape
    BY Zenon, <1>0, ProcessOrphanCases
  <1>3. m2.trk = m.trk
    BY <1>2
  <1> HIDE DEF Shape
  <1> DEFINE Goal == /\ OrphanageGood(m2.orph, C) /\ m2.pool \in SUBSET Tx
                     /\ m2.rejects \in SUBSET Tx /\ m2.work \in [Peer -> SUBSET Tx]
                     /\ \A t : (Holds(m2, t) => Holds(m, t)) /\ (Knows(m2, t) => Knows(m, t))
                     /\ \A t \in Tx : Left(m2, t, C) => Left(m, t, C)
  <1>4. ASSUME NEW t \in Skippable(m, p) PROVE ~(HaveTx(m.orph, t) /\ \A i \in Inputs[t] : Available(i, m.pool, Mined))
    BY Zenon, MissingParent DEF Skippable
  <1>5. ASSUME AllSkipped(m, m2, p) PROVE Goal
    <2>1. /\ m2.orph = m.orph /\ m2.pool = m.pool /\ m2.rejects = m.rejects
          /\ m2.work = [m.work EXCEPT ![p] = {}] /\ m.work[p] = Skippable(m, p)
      BY Zenon, <1>5 DEF AllSkipped
    <2>2. \A q \in Peer \ {p} : m2.work[q] = m.work[q]
      BY Zenon, <1>1, <2>1
    <2>3. m2.work \in [Peer -> SUBSET Tx]
      BY Zenon, <1>1, <2>1
    <2>4. \A t : (Holds(m2, t) => Holds(m, t)) /\ (Knows(m2, t) => Knows(m, t))
      BY Zenon, <2>1 DEF Holds, Knows
    <2>5. ASSUME NEW t \in Tx, Left(m2, t, C) PROVE Left(m, t, C)
      <3>1. HaveTx(m.orph, t) /\ \A i \in Inputs[t] : Available(i, m.pool, Mined)
        BY Zenon, <2>1, <2>5 DEF Left
      <3>2. t \notin m.work[p]
        BY Zenon, <1>4, <2>1, <3>1
      <3>3. \A q \in C : t \notin m.work[q]
        BY Zenon, <2>1, <2>2, <2>5, <3>2, <1>1 DEF Left
      <3> QED
        BY Zenon, <3>1, <3>3 DEF Left
    <2> QED
      BY Zenon, <1>1, <2>1, <2>3, <2>4, <2>5
  <1>6. ASSUME NEW u \in m.work[p], NEW S \in SUBSET Skippable(m, p), HaveTx(m.orph, u),
               OneAccepted(m, m2, p, u, S) \/ OneRejected(m, m2, p, u, S)
        PROVE  Goal
    <2> DEFINE children == AddChildrenToWorkSet(m.orph, u)
    <2>1. children = {t \in DOMAIN m.orph.from : \E i \in Inputs[t] : i[1] = u}
      BY Zenon, <1>1, ChildrenFound
    <2>2. m2.orph = EraseTx(m.orph, u)
      BY Zenon, <1>6 DEF OneAccepted, OneRejected
    <2>3. OrphanageGood(m2.orph, C) /\ DOMAIN m2.orph.from = DOMAIN m.orph.from \ {u}
      BY <1>1, <2>2, EraseTxGood
    <2>4. u \in Tx /\ children \in SUBSET Tx /\ m.work[p] \in SUBSET Tx
      BY Zenon, <1>1, <2>1
    <2> HIDE DEF children
    <2>5. /\ m2.pool \in SUBSET Tx /\ m2.rejects \in SUBSET Tx
          /\ m.pool \subseteq m2.pool /\ m2.pool \subseteq m.pool \cup {u}
          /\ m2.rejects \subseteq m.rejects \cup {u}
      BY Zenon, <1>1, <1>6, <2>4 DEF OneAccepted, OneRejected
    <2>6. /\ m2.work \in [Peer -> SUBSET Tx] /\ \A q \in Peer \ {p} : m2.work[q] = m.work[q]
          /\ m.work[p] \ (S \cup {u}) \subseteq m2.work[p]
          /\ u \in m2.pool => u \in m.pool \/ children \subseteq m2.work[p]
      <3>1. CASE OneAccepted(m, m2, p, u, S)
        BY Zenon, <1>1, <2>4, <3>1 DEF OneAccepted, children
      <3>2. CASE OneRejected(m, m2, p, u, S)
        BY Zenon, <1>1, <2>4, <3>2 DEF OneRejected
      <3> QED
        BY Zenon, <1>6, <3>1, <3>2
    <2>7. \A t : (Holds(m2, t) => Holds(m, t)) /\ (Knows(m2, t) => Knows(m, t))
      BY Zenon, <1>6, <2>3, <2>5 DEF Holds, Knows, HaveTx
    <2>8. ASSUME NEW t \in Tx, Left(m2, t, C) PROVE Left(m, t, C)
      <3>1. HaveTx(m.orph, t) /\ t # u /\ t \notin m2.work[p]
        BY Zenon, <2>3, <2>8 DEF Left, HaveTx
      <3>2. ASSUME NEW i \in Inputs[t] PROVE Available(i, m.pool, Mined)
        <4>1. Available(i, m2.pool, Mined)
          BY Zenon, <2>8 DEF Left
        <4>2. i[1] = u => u \in m.pool \/ u \notin m2.pool
          BY Zenon, <2>1, <2>6, <3>1 DEF HaveTx
        <4> QED
          BY Zenon, <2>5, <4>1, <4>2 DEF Available
      <3>3. t \notin m.work[p]
        BY Zenon, <1>4, <2>6, <3>1, <3>2
      <3>4. \A q \in C : t \notin m.work[q]
        <4> TAKE q \in C
        <4>1. t \notin m2.work[q]
          BY Zenon, <2>8 DEF Left
        <4> QED
          BY <2>6, <3>3, <4>1
      <3> QED
        BY Zenon, <3>1, <3>2, <3>4 DEF Left
    <2> QED
      BY Zenon, <2>3, <2>5, <2>6, <2>7, <2>8
  <1>7. Goal
    <2> HIDE DEF Goal
    <2>1. \/ AllSkipped(m, m2, p)
          \/ \E t \in m.work[p], S \in SUBSET Skippable(m, p) :
               HaveTx(m.orph, t) /\ (OneAccepted(m, m2, p, t, S) \/ OneRejected(m, m2, p, t, S))
      BY Zenon, <1>0, ProcessOrphanCases
    <2> QED
      BY Zenon, <1>5, <1>6, <2>1
  <1>8. NodeOK(m2, C)
    BY Zenon, <1>1, <1>2, <1>3, <1>7, NodeMade DEF Shape
  <1> QED
    BY Zenon, <1>3, <1>7, <1>8

-----------------------------------------------------------------------------
(* The handlers. *)

\* m with another tracker.
WithTrk(m, k) == [m EXCEPT !.trk = k]

\* A good tracker makes a good node.
LEMMA WithTrkGood ==
    ASSUME NEW m, NEW C, NodeOK(m, C), NEW k, TrackerGood(k, C)
    PROVE  /\ NodeOK(WithTrk(m, k), C) /\ WithTrk(m, k).trk = k
           /\ WithTrk(m, k).orph = m.orph /\ WithTrk(m, k).pool = m.pool
           /\ WithTrk(m, k).rejects = m.rejects /\ WithTrk(m, k).work = m.work
  <1> DEFINE w == WithTrk(m, k)
  <1>1. /\ w = [trk |-> w.trk, orph |-> w.orph, pool |-> w.pool, rejects |-> w.rejects,
                work |-> w.work]
        /\ w.trk = k /\ w.orph = m.orph /\ w.pool = m.pool /\ w.rejects = m.rejects
        /\ w.work = m.work
    BY DEF NodeOK, Node, WithTrk
  <1> HIDE DEF w
  <1>2. NodeOK(w, C)
    BY Zenon, <1>1, NodeFields, NodeMade
  <1> QED
    BY Zenon, <1>1, <1>2 DEF w

\* Nothing is learnt and no announcement appears.
Shrinks(m, m2) ==
    /\ \A t : (Holds(m2, t) => Holds(m, t)) /\ (Knows(m2, t) => Knows(m, t))
    /\ NoneAdded(m.trk, m2.trk)

\* No announcement of what the node has appears, and no orphan is stranded.
NodeStep(m, m2, C) ==
    /\ NodeOK(m2, C)
    /\ \A t \in Tx : AlreadyHaveTx(m2, t) /\ Tracked(m2.trk, t) # {}
                       => AlreadyHaveTx(m, t) /\ Tracked(m.trk, t) # {}
    /\ \A t \in Tx : Left(m2, t, C) => Left(m, t, C)

\* Two steps of a handler make one.
LEMMA NodeStepTransitive ==
    ASSUME NEW a, NEW b, NEW c, NEW C, NodeStep(a, b, C), NodeStep(b, c, C)
    PROVE  NodeStep(a, c, C)
  BY Zenon DEF NodeStep

\* AlreadyHaveTx, by where t is known from.
LEMMA HaveIs ==
    ASSUME NEW m, NEW t
    PROVE  AlreadyHaveTx(m, t) <=> Knows(m, t) \/ t \in confirmed
  BY Zenon DEF AlreadyHaveTx, Knows, Holds

\* A step that learns of nothing and announces nothing.
LEMMA ShrinkingStep ==
    ASSUME NEW m, NEW m2, NEW C, Shrinks(m, m2), NodeOK(m2, C),
           \A t \in Tx : Left(m2, t, C) => Left(m, t, C)
    PROVE  NodeStep(m, m2, C)
  <1>1. ASSUME NEW t \in Tx, AlreadyHaveTx(m2, t), Tracked(m2.trk, t) # {}
        PROVE  AlreadyHaveTx(m, t) /\ Tracked(m.trk, t) # {}
    <2>1. AlreadyHaveTx(m, t)
      BY Zenon, <1>1, HaveIs DEF Shrinks
    <2>2. Tracked(m2.trk, t) \subseteq Tracked(m.trk, t)
      BY Zenon, NoneAddedIs DEF Shrinks
    <2> QED
      BY Zenon, <1>1, <2>1, <2>2
  <1> QED
    BY Zenon, <1>1 DEF NodeStep

\* A smaller tracker.
LEMMA TrackerStep ==
    ASSUME NEW m, NEW C, NodeOK(m, C), NEW k, TrackerGood(k, C), NoneAdded(m.trk, k)
    PROVE  NodeStep(m, WithTrk(m, k), C) /\ Shrinks(m, WithTrk(m, k))
  <1> DEFINE w == WithTrk(m, k)
  <1>1. /\ NodeOK(w, C) /\ w.trk = k /\ w.orph = m.orph /\ w.pool = m.pool
        /\ w.rejects = m.rejects /\ w.work = m.work
    BY WithTrkGood
  <1> HIDE DEF w
  <1>2. Shrinks(m, w)
    BY Zenon, <1>1 DEF Shrinks, Holds, Knows
  <1>3. \A t \in Tx : Left(w, t, C) => Left(m, t, C)
    BY Zenon, <1>1 DEF Left
  <1> QED
    BY Zenon, <1>1, <1>2, <1>3, ShrinkingStep DEF w

\* ProcessOrphanTx learns of nothing: an orphan moves to the mempool or the rejects.
LEMMA ProcessOrphanStep ==
    ASSUME NEW m, NEW C \in SUBSET Peer, NodeOK(m, C), NEW p \in C, NEW m2 \in ProcessOrphanTx(m, p)
    PROVE  NodeStep(m, m2, C) /\ Shrinks(m, m2)
  <1>1. /\ NodeOK(m2, C) /\ m2.trk = m.trk
        /\ \A t : (Holds(m2, t) => Holds(m, t)) /\ (Knows(m2, t) => Knows(m, t))
        /\ \A t \in Tx : Left(m2, t, C) => Left(m, t, C)
    BY Zenon, ProcessOrphanGood
  <1>2. Shrinks(m, m2)
    BY Zenon, <1>1 DEF Shrinks, NoneAdded, Keeps
  <1> QED
    BY Zenon, <1>1, <1>2, ShrinkingStep

\* AlreadyHaveTx may empty the rejects, and changes nothing else.
LEMMA RefreshedGood ==
    ASSUME NEW C, NodeOK(n, C)
    PROVE  /\ NodeOK(Refreshed, C) /\ Refreshed.trk = n.trk /\ Refreshed.orph = n.orph
           /\ Refreshed.pool = n.pool /\ Refreshed.work = n.work
           /\ Refreshed.rejects = IF stale THEN {} ELSE n.rejects
  <1> DEFINE w == [n EXCEPT !.rejects = {}]
  <1>1. CASE ~stale
    BY Zenon, <1>1 DEF Refreshed
  <1>2. CASE stale
    <2>1. Refreshed = w
      BY Zenon, <1>2 DEF Refreshed
    <2>2. /\ w = [trk |-> w.trk, orph |-> w.orph, pool |-> w.pool, rejects |-> w.rejects,
                  work |-> w.work]
          /\ w.trk = n.trk /\ w.orph = n.orph /\ w.pool = n.pool /\ w.rejects = {}
          /\ w.work = n.work
      BY DEF NodeOK, Node
    <2> HIDE DEF w
    <2>3. NodeOK(w, C)
      BY Zenon, <2>2, NodeFields, NodeMade
    <2> QED
      BY Zenon, <1>2, <2>1, <2>2, <2>3
  <1> QED
    BY Zenon, <1>1, <1>2

\* Accepting t: its children are in the work set.
LEMMA TxAcceptedStep ==
    ASSUME NEW m, NEW C \in SUBSET Peer, NodeOK(m, C), NEW p \in C, NEW t \in Tx,
           NEW m2 \in TxAccepted(m, p, t)
    PROVE  NodeStep(m, m2, C)
  <1> DEFINE children == AddChildrenToWorkSet(m.orph, t)
             w == [m EXCEPT !.trk = ForgetTxHash(@, t), !.pool = @ \cup {t},
                            !.work[p] = @ \cup children]
  <1>0. m2 \in ProcessOrphanTx(w, p)
    BY Zenon DEF TxAccepted
  <1>1. /\ m.pool \in SUBSET Tx /\ m.rejects \in SUBSET Tx /\ m.work \in [Peer -> SUBSET Tx]
        /\ TrackerGood(m.trk, C) /\ OrphanageGood(m.orph, C) /\ OrphanageOK(m.orph)
        /\ DOMAIN m.orph.from \in SUBSET Tx
    BY Zenon, NodeFields
  <1>2. children = {u \in DOMAIN m.orph.from : \E i \in Inputs[u] : i[1] = t}
    BY Zenon, <1>1, ChildrenFound
  <1>3. /\ w = [trk |-> w.trk, orph |-> w.orph, pool |-> w.pool, rejects |-> w.rejects,
                work |-> w.work]
        /\ w.trk = ForgetTxHash(m.trk, t) /\ w.orph = m.orph /\ w.pool = m.pool \cup {t}
        /\ w.rejects = m.rejects /\ w.work = [m.work EXCEPT ![p] = m.work[p] \cup children]
    <2> DEFINE k == ForgetTxHash(m.trk, t)
    <2> HIDE DEF children, k
    <2>1. w = [m EXCEPT !.trk = k, !.pool = @ \cup {t}, !.work[p] = @ \cup children]
      BY Zenon DEF k
    <2>2. m \in Node
      BY Zenon DEF NodeOK
    <2> HIDE DEF w
    <2>3. /\ w = [trk |-> w.trk, orph |-> w.orph, pool |-> w.pool, rejects |-> w.rejects,
                  work |-> w.work]
          /\ w.trk = k /\ w.orph = m.orph /\ w.pool = m.pool \cup {t}
          /\ w.rejects = m.rejects /\ w.work = [m.work EXCEPT ![p] = m.work[p] \cup children]
      BY Zenon, <2>1, <2>2 DEF Node
    <2> QED
      BY Zenon, <2>3 DEF k
  <1>4. children \in SUBSET Tx
    BY Zenon, <1>1, <1>2
  <1> HIDE DEF w, children
  <1>5. w.work \in [Peer -> SUBSET Tx] /\ w.pool \in SUBSET Tx
    BY Zenon, <1>1, <1>3, <1>4
  <1>6. TrackerGood(w.trk, C) /\ NoneAdded(m.trk, w.trk) /\ Tracked(w.trk, t) = {}
    BY <1>1, <1>3, ForgetTxHashGood
  <1>7. NodeOK(w, C)
    BY Zenon, <1>1, <1>3, <1>5, <1>6, NodeMade
  <1>8. ASSUME NEW u \in Tx, AlreadyHaveTx(w, u), Tracked(w.trk, u) # {}
        PROVE  AlreadyHaveTx(m, u) /\ Tracked(m.trk, u) # {}
    <2>1. Tracked(m.trk, u) # {} /\ u # t
      BY Zenon, <1>6, <1>8, NoneAddedIs
    <2>2. Knows(w, u) => Knows(m, u)
      BY Zenon, <1>3, <2>1 DEF Knows, Holds
    <2> QED
      BY Zenon, <1>8, <2>1, <2>2, HaveIs
  <1>9. ASSUME NEW u \in Tx, Left(w, u, C) PROVE Left(m, u, C)
    <2>1. HaveTx(m.orph, u) /\ u \notin w.work[p]
      BY Zenon, <1>3, <1>9 DEF Left
    <2>2. u \notin children /\ u \notin m.work[p]
      BY Zenon, <1>1, <1>3, <2>1
    <2>3. \A i \in Inputs[u] : i[1] # t
      BY Zenon, <1>2, <2>1, <2>2 DEF HaveTx
    <2>4. \A i \in Inputs[u] : Available(i, m.pool, Mined)
      BY Zenon, <1>3, <1>9, <2>3 DEF Left, Available
    <2>5. \A q \in C : u \notin m.work[q]
      BY Zenon, <1>1, <1>3, <1>9, <2>2 DEF Left
    <2> QED
      BY Zenon, <2>1, <2>4, <2>5 DEF Left
  <1>10. NodeStep(m, w, C)
    BY Zenon, <1>7, <1>8, <1>9 DEF NodeStep
  <1>11. NodeStep(w, m2, C)
    BY Zenon, <1>0, <1>7, ProcessOrphanStep
  <1> QED
    BY Zenon, <1>10, <1>11, NodeStepTransitive

\* Rejecting t: it is forgotten as well.
LEMMA RejectedStep ==
    ASSUME NEW m, NEW C, NodeOK(m, C), NEW t \in Tx
    PROVE  NodeStep(m, TxInvalid(m, t), C)
  <1> DEFINE w == TxInvalid(m, t)
             k == ForgetTxHash(m.trk, t)
  <1>1. /\ m.pool \in SUBSET Tx /\ m.rejects \in SUBSET Tx /\ m.work \in [Peer -> SUBSET Tx]
        /\ TrackerGood(m.trk, C) /\ OrphanageGood(m.orph, C)
    BY Zenon, NodeFields
  <1>2. TrackerGood(k, C) /\ NoneAdded(m.trk, k) /\ Tracked(k, t) = {}
    BY Zenon, <1>1, ForgetTxHashGood
  <1>3. w = [m EXCEPT !.rejects = @ \cup {t}, !.trk = k]
    BY Zenon DEF TxInvalid
  <1> HIDE DEF w, k
  <1>4. /\ w = [trk |-> w.trk, orph |-> w.orph, pool |-> w.pool, rejects |-> w.rejects,
                work |-> w.work]
        /\ w.trk = k /\ w.orph = m.orph /\ w.pool = m.pool /\ w.rejects = m.rejects \cup {t}
        /\ w.work = m.work
    BY Zenon, <1>3 DEF NodeOK, Node
  <1>5. NodeOK(w, C)
    BY Zenon, <1>1, <1>2, <1>4, NodeMade
  <1>6. ASSUME NEW u \in Tx, AlreadyHaveTx(w, u), Tracked(w.trk, u) # {}
        PROVE  AlreadyHaveTx(m, u) /\ Tracked(m.trk, u) # {}
    <2>1. Tracked(m.trk, u) # {} /\ u # t
      BY Zenon, <1>2, <1>4, <1>6, NoneAddedIs
    <2>2. Knows(w, u) => Knows(m, u)
      BY Zenon, <1>4, <2>1 DEF Knows, Holds
    <2> QED
      BY Zenon, <1>6, <2>1, <2>2, HaveIs
  <1>7. \A u \in Tx : Left(w, u, C) => Left(m, u, C)
    BY Zenon, <1>4 DEF Left
  <1> QED
    BY Zenon, <1>5, <1>6, <1>7 DEF NodeStep, w

\* Keeping t as an orphan: it lacks a parent, and what is asked for the node does
\* not have.
LEMMA TxMissingStep ==
    ASSUME NEW m, NEW C \in SUBSET Peer, NodeOK(m, C), NEW p \in C, NEW t \in Tx,
           "missing" \in ProcessTransaction(m, t), NEW m2 \in TxMissing(m, p, t)
    PROVE  NodeStep(m, m2, C)
  <1> DEFINE parents == {i[1] : i \in Inputs[t]} \ {Base}
             wanted == {q \in parents : ~AlreadyHaveTx(m, q)}
             asked == Asked(m.trk, p, wanted)
             k == ForgetTxHash(asked, t)
             Kept == UNION {LimitOrphans(AddTx(m.orph, t, p), S, MaxOrphans) :
                              S \in SUBSET DOMAIN m.orph.from}
  <1>1. /\ m.pool \in SUBSET Tx /\ m.rejects \in SUBSET Tx /\ m.work \in [Peer -> SUBSET Tx]
        /\ TrackerGood(m.trk, C) /\ OrphanageGood(m.orph, C) /\ OrphanageOK(m.orph)
        /\ DOMAIN m.orph.from \in SUBSET Tx
    BY Zenon, NodeFields
  <1>2. CASE parents \cap m.rejects # {}
    <2>1. m2 = TxInvalid(m, t)
      BY Zenon, <1>2 DEF TxMissing, TxInvalid
    <2> QED
      BY Zenon, <2>1, RejectedStep
  <1>3. CASE parents \cap m.rejects = {}
    <2>1. PICK o \in Kept : m2 = [m EXCEPT !.trk = k, !.orph = o]
      BY Zenon, <1>3 DEF TxMissing, Asked
    <2>2. PICK S \in SUBSET DOMAIN m.orph.from :
             o \in LimitOrphans(AddTx(m.orph, t, p), S, MaxOrphans)
      BY Zenon, <2>1
    <2>3. wanted \in SUBSET Tx
      BY DownloadAssumption DEF DownloadAssumption
    <2>4. \A q \in wanted : ~AlreadyHaveTx(m, q)
      BY Zenon
    <2> HIDE DEF parents, wanted, asked, k, Kept
    <2>5. TrackerGood(asked, C) /\ \A u \in Tx \ wanted : asked.ann[u] = m.trk.ann[u]
      BY <1>1, <2>3, AskedGood DEF asked
    <2>6. TrackerGood(k, C) /\ NoneAdded(asked, k) /\ Tracked(k, t) = {}
      BY Zenon, <2>5, ForgetTxHashGood DEF k
    <2> DEFINE a == AddTx(m.orph, t, p)
    <2>7. OrphanageOK(a) /\ DOMAIN a.from = DOMAIN m.orph.from \cup {t} /\ FromPeers(a, C)
      <3>1. /\ OrphanageOK(a) /\ DOMAIN a.from = DOMAIN m.orph.from \cup {t}
            /\ \A u \in DOMAIN m.orph.from : a.from[u] = m.orph.from[u]
            /\ t \notin DOMAIN m.orph.from => a.from[t] = p
        BY Zenon, <1>1, AddTxExact
      <3> HIDE DEF a
      <3> QED
        BY Zenon, <1>1, <3>1 DEF OrphanageGood, FromPeers
    <2> HIDE DEF a
    <2>8. OrphanageGood(o, C) /\ DOMAIN o.from \subseteq DOMAIN m.orph.from \cup {t}
      <3>1. S \in SUBSET Tx
        BY Zenon, <1>1
      <3> QED
        BY Zenon, <2>2, <2>7, <3>1, LimitOrphansGood DEF a
    <2>9. /\ m2 = [trk |-> m2.trk, orph |-> m2.orph, pool |-> m2.pool, rejects |-> m2.rejects,
                   work |-> m2.work]
          /\ m2.trk = k /\ m2.orph = o /\ m2.pool = m.pool /\ m2.rejects = m.rejects
          /\ m2.work = m.work
      BY Zenon, <2>1 DEF NodeOK, Node
    <2>10. NodeOK(m2, C)
      BY Zenon, <1>1, <2>6, <2>8, <2>9, NodeMade
    <2>11. ASSUME NEW u \in Tx, AlreadyHaveTx(m2, u), Tracked(m2.trk, u) # {}
           PROVE  AlreadyHaveTx(m, u) /\ Tracked(m.trk, u) # {}
      <3>1. Tracked(asked, u) # {} /\ u # t
        BY Zenon, <2>6, <2>9, <2>11, NoneAddedIs
      <3>2. Knows(m2, u) => Knows(m, u)
        BY Zenon, <2>8, <2>9, <3>1 DEF Knows, Holds, HaveTx
      <3>3. AlreadyHaveTx(m, u)
        BY Zenon, <2>11, <3>2, HaveIs
      <3>4. asked.ann[u] = m.trk.ann[u]
        BY Zenon, <2>4, <2>5, <3>3
      <3> QED
        BY Zenon, <3>1, <3>3, <3>4 DEF Tracked
    <2>12. ASSUME NEW u \in Tx, Left(m2, u, C) PROVE Left(m, u, C)
      <3>1. \A i \in Inputs[u] : Available(i, m.pool, Mined)
        BY Zenon, <2>9, <2>12 DEF Left
      <3>2. u # t
        BY Zenon, <3>1, MissingParent
      <3> QED
        BY Zenon, <2>8, <2>9, <2>12, <3>2 DEF Left, HaveTx
    <2> QED
      BY Zenon, <2>10, <2>11, <2>12 DEF NodeStep
  <1> QED
    BY Zenon, <1>2, <1>3

\* An announcement of what the node does not have.
LEMMA AnnouncementStep ==
    ASSUME NEW m, NEW C \in SUBSET Peer, NodeOK(m, C), NEW p \in C, NEW t \in Tx,
           ~AlreadyHaveTx(m, t), NEW txid \in BOOLEAN
    PROVE  NodeStep(m, WithTrk(m, AddTxAnnouncement(m.trk, p, t, txid)), C)
  <1> DEFINE k == AddTxAnnouncement(m.trk, p, t, txid)
             w == WithTrk(m, k)
  <1>1. TrackerGood(k, C) /\ AddsOnly(m.trk, k, p, t)
    BY Zenon, NodeFields, AddTxAnnouncementGood
  <1> HIDE DEF k
  <1>2. /\ NodeOK(w, C) /\ w.trk = k /\ w.orph = m.orph /\ w.pool = m.pool
        /\ w.rejects = m.rejects /\ w.work = m.work
    BY <1>1, WithTrkGood
  <1> HIDE DEF w
  <1>3. ASSUME NEW u \in Tx, AlreadyHaveTx(w, u), Tracked(w.trk, u) # {}
        PROVE  AlreadyHaveTx(m, u) /\ Tracked(m.trk, u) # {}
    <2>1. AlreadyHaveTx(m, u)
      BY Zenon, <1>2, <1>3 DEF AlreadyHaveTx
    <2>2. k.ann[u] = m.trk.ann[u]
      BY Zenon, <1>1, <2>1 DEF AddsOnly
    <2> QED
      BY Zenon, <1>2, <1>3, <2>1, <2>2 DEF Tracked
  <1>4. \A u \in Tx : Left(w, u, C) => Left(m, u, C)
    BY Zenon, <1>2 DEF Left
  <1> QED
    BY Zenon, <1>2, <1>3, <1>4 DEF NodeStep, w, k

-----------------------------------------------------------------------------
(* The actions. *)

\* Superfluous, of a node m, st and conf saying whether the rejects are stale and
\* what is confirmed, with the block events ev still to be delivered.
Awaited(ev, t) == \E e \in Range(ev) : e.kind = "connected" /\ t \in e.block
Pointless(m, st, conf, ev, t) ==
    /\ t \in conf \/ Holds(m, t) \/ (~st /\ t \in m.rejects)
    /\ Tracked(m.trk, t) # {}
    /\ ~Awaited(ev, t)

\* What NoneSuperfluous and NoneStranded ask of a step, with what is to be kept.
NodeKept == NodeOK(n', conn')
NothingPointless ==
    Len(blocks') >= Len(blocks) =>
      \A t \in Tx : Pointless(n', stale', confirmed', events', t)
                      => Pointless(n, stale, confirmed, events, t)
NothingLeft ==
    conn' = conn /\ blocks' = blocks => \A t \in Tx : Left(n', t, conn) => Left(n, t, conn)
StepGood == NodeKept /\ NothingPointless /\ NothingLeft

\* What is known of the other variables.
Quiet == conn \in SUBSET Peer /\ NodeOK(n, conn)

\* A message handler, which starts with the rejects refreshed.
LEMMA HandlerStep ==
    ASSUME Quiet, NodeStep(Refreshed, n', conn), stale' = FALSE,
           conn' = conn, confirmed' = confirmed, events' = events
    PROVE  StepGood
  <1>1. /\ Refreshed.trk = n.trk /\ Refreshed.orph = n.orph /\ Refreshed.pool = n.pool
        /\ Refreshed.work = n.work /\ Refreshed.rejects = IF stale THEN {} ELSE n.rejects
    BY Zenon, RefreshedGood DEF Quiet
  <1>2. NodeKept
    BY Zenon DEF NodeStep, NodeKept
  <1>3. ASSUME NEW t \in Tx, Pointless(n', stale', confirmed', events', t)
        PROVE  Pointless(n, stale, confirmed, events, t)
    <2>1. AlreadyHaveTx(n', t) /\ Tracked(n'.trk, t) # {} /\ ~Awaited(events, t)
      BY Zenon, <1>3 DEF Pointless, AlreadyHaveTx, Holds
    <2>2. AlreadyHaveTx(Refreshed, t) /\ Tracked(n.trk, t) # {}
      BY Zenon, <1>1, <2>1 DEF NodeStep
    <2>3. t \in confirmed \/ Holds(n, t) \/ (~stale /\ t \in n.rejects)
      BY Zenon, <1>1, <2>2 DEF AlreadyHaveTx, Holds
    <2> QED
      BY Zenon, <2>1, <2>2, <2>3 DEF Pointless
  <1>4. ASSUME NEW t \in Tx, Left(n', t, conn) PROVE Left(n, t, conn)
    <2>1. Left(Refreshed, t, conn)
      BY Zenon, <1>4 DEF NodeStep
    <2> QED
      BY Zenon, <1>1, <2>1 DEF Left
  <1> QED
    BY Zenon, <1>2, <1>3, <1>4 DEF StepGood, NothingPointless, NothingLeft

\* A step that learns of nothing and announces nothing.
LEMMA ShrinkingPointless ==
    ASSUME Shrinks(n, n'), stale \in BOOLEAN, stale' \in BOOLEAN, stale => stale',
           confirmed' \subseteq confirmed, \A t : Awaited(events, t) => Awaited(events', t)
    PROVE  NothingPointless
  <1>1. ASSUME NEW t \in Tx, Pointless(n', stale', confirmed', events', t)
        PROVE  Pointless(n, stale, confirmed, events, t)
    <2>1. /\ t \in confirmed' \/ Holds(n', t) \/ (~stale' /\ t \in n'.rejects)
          /\ Tracked(n'.trk, t) # {} /\ ~Awaited(events', t)
      BY Zenon, <1>1 DEF Pointless
    <2>2. t \in confirmed \/ Holds(n, t) \/ (~stale /\ t \in n.rejects)
      BY Zenon, <2>1 DEF Shrinks, Knows
    <2>3. Tracked(n.trk, t) # {}
      BY Zenon, <2>1, NoneAddedIs DEF Shrinks
    <2> QED
      BY Zenon, <2>1, <2>2, <2>3 DEF Pointless
  <1> QED
    BY Zenon, <1>1 DEF NothingPointless

\* A step between two messages.
LEMMA QuietStep ==
    ASSUME Quiet, NodeStep(n, n', conn), Shrinks(n, n'), stale \in BOOLEAN, stale' = stale,
           conn' = conn, confirmed' = confirmed, events' = events
    PROVE  StepGood
  <1>1. NodeKept /\ NothingLeft
    BY Zenon DEF NodeStep, NodeKept, NothingLeft
  <1>2. NothingPointless
    BY Zenon, ShrinkingPointless
  <1> QED
    BY Zenon, <1>1, <1>2 DEF StepGood

\* INV: what the node has is not announced.
LEMMA InvStep ==
    ASSUME Quiet, NEW p \in Peer, NEW t \in Tx, Inv(p, t)
    PROVE  StepGood
  <1>1. NodeOK(Refreshed, conn) /\ conn \in SUBSET Peer /\ p \in conn
    BY Zenon, RefreshedGood DEF Quiet, Inv, MayReceive
  <1>2. /\ stale' = FALSE /\ conn' = conn /\ confirmed' = confirmed /\ events' = events
    BY Zenon DEF Inv, Received
  <1>3. CASE AlreadyHaveTx(Refreshed, t)
    <2>1. n' = Refreshed
      BY Zenon, <1>3 DEF Inv
    <2>2. NodeStep(Refreshed, n', conn)
      BY Zenon, <1>1, <2>1 DEF NodeStep
    <2> QED
      BY Zenon, <1>2, <2>2, HandlerStep
  <1>4. CASE ~AlreadyHaveTx(Refreshed, t)
    <2>1. n' = WithTrk(Refreshed, AddTxAnnouncement(Refreshed.trk, p, t, p \notin WtxidRelay))
      BY Zenon, <1>4 DEF Inv, WithTrk
    <2>2. NodeStep(Refreshed, n', conn)
      BY Zenon, <1>1, <1>4, <2>1, AnnouncementStep
    <2> QED
      BY Zenon, <1>2, <2>2, HandlerStep
  <1> QED
    BY Zenon, <1>3, <1>4

\* TX: whatever ProcessTransaction answers.
LEMMA TxMessageStep ==
    ASSUME Quiet, NEW p \in Peer, NEW t \in Tx, TxMessage(p, t)
    PROVE  StepGood
  <1> DEFINE m == WithTrk(Refreshed, ReceivedResponse(Refreshed.trk, p, t))
  <1>1. NodeOK(Refreshed, conn) /\ conn \in SUBSET Peer /\ p \in conn
    BY Zenon, RefreshedGood DEF Quiet, TxMessage, MayReceive
  <1>2. /\ stale' = FALSE /\ conn' = conn /\ confirmed' = confirmed /\ events' = events
    BY Zenon DEF TxMessage, Received
  <1>3. \/ n' = m
        \/ n' \in TxAccepted(m, p, t)
        \/ "missing" \in ProcessTransaction(m, t) /\ n' \in TxMissing(m, p, t)
        \/ n' = TxInvalid(m, t)
    BY Zenon DEF TxMessage, WithTrk
  <1>4. NodeStep(Refreshed, m, conn)
    <2>1. TrackerGood(Refreshed.trk, conn)
      BY Zenon, <1>1, NodeFields
    <2> QED
      BY Zenon, <1>1, <2>1, ReceivedResponseGood, TrackerStep
  <1> HIDE DEF m
  <1>5. NodeOK(m, conn)
    BY Zenon, <1>4 DEF NodeStep
  <1>6. NodeStep(Refreshed, n', conn)
    <2>1. CASE n' = m
      BY Zenon, <1>4, <2>1
    <2>2. CASE n' \in TxAccepted(m, p, t)
      BY Zenon, <1>1, <1>4, <1>5, <2>2, TxAcceptedStep, NodeStepTransitive
    <2>3. CASE "missing" \in ProcessTransaction(m, t) /\ n' \in TxMissing(m, p, t)
      BY Zenon, <1>1, <1>4, <1>5, <2>3, TxMissingStep, NodeStepTransitive
    <2>4. CASE n' = TxInvalid(m, t)
      BY Zenon, <1>4, <1>5, <2>4, RejectedStep, NodeStepTransitive
    <2> QED
      BY Zenon, <1>3, <2>1, <2>2, <2>3, <2>4
  <1> QED
    BY Zenon, <1>2, <1>6, HandlerStep

\* NOTFOUND.
LEMMA NotFoundStep ==
    ASSUME Quiet, stale \in BOOLEAN, NEW p \in Peer, NEW t \in Tx, NotFound(p, t)
    PROVE  StepGood
  <1>1. n' = WithTrk(n, ReceivedResponse(n.trk, p, t))
    BY Zenon DEF NotFound, WithTrk
  <1>2. stale' = stale /\ conn' = conn /\ confirmed' = confirmed /\ events' = events
    BY Zenon DEF NotFound
  <1>3. NodeOK(n, conn) /\ TrackerGood(n.trk, conn)
    BY Zenon, NodeFields DEF Quiet
  <1>4. NodeStep(n, n', conn) /\ Shrinks(n, n')
    BY Zenon, <1>1, <1>3, ReceivedResponseGood, TrackerStep
  <1> QED
    BY Zenon, <1>2, <1>4, QuietStep

\* ProcessMessages with orphans to reconsider.
LEMMA ProcessMessagesStep ==
    ASSUME Quiet, stale \in BOOLEAN, NEW p \in Peer, ProcessMessages(p)
    PROVE  StepGood
  <1>1. n' \in ProcessOrphanTx(n, p) /\ p \in conn /\ conn \in SUBSET Peer /\ NodeOK(n, conn)
    BY Zenon DEF ProcessMessages, Quiet
  <1>2. stale' = stale /\ conn' = conn /\ confirmed' = confirmed /\ events' = events
    BY Zenon DEF ProcessMessages
  <1>3. NodeStep(n, n', conn) /\ Shrinks(n, n')
    BY Zenon, <1>1, ProcessOrphanStep
  <1> QED
    BY Zenon, <1>2, <1>3, QuietStep

\* What SendMessages makes of the tracker.
LEMMA SendGood ==
    ASSUME NEW k, NEW C, TrackerGood(k, C), NEW p \in Peer, NEW S \in SUBSET Tx, NEW rows,
           \A t \in S : rows[t] \in {NoRow, RequestedTx(k.ann[t], p, Interval)}
    PROVE  TrackerGood(SetAll(k, S, rows), C) /\ NoneAdded(k, SetAll(k, S, rows))
  <1> DEFINE k2 == SetAll(k, S, rows)
  <1>0. Interval \in Nat
    BY Zenon, DownloadAssumption DEF DownloadAssumption
  <1>1. ASSUME NEW t \in S PROVE RowOK(rows[t], t) /\ Keeps(k.ann[t], rows[t])
    <2>1. RowOK(k.ann[t], t)
      BY Zenon DEF TrackerGood, TrackerOK
    <2>2. CASE rows[t] = NoRow
      <3>1. \A q \in Peer : NoRow[q].st = "none"
        BY Zenon DEF NoRow, None
      <3> QED
        BY Zenon, <2>2, <3>1, NoRowOK DEF Keeps
    <2>3. CASE rows[t] = RequestedTx(k.ann[t], p, Interval)
      BY Zenon, <1>0, <2>1, <2>3, RequestedOK
    <2> QED
      BY Zenon, <2>2, <2>3
  <1>2. RowsOK(rows, S)
    BY Zenon, <1>1 DEF RowsOK
  <1>3. TrackerOK(k2) /\ RowsSet(k2, k, rows, S)
    BY Zenon, <1>2, SetAllOK DEF TrackerGood
  <1> HIDE DEF k2
  <1>4. NoneAdded(k, k2)
    BY <1>1, <1>3 DEF NoneAdded, RowsSet, Keeps
  <1> QED
    BY Zenon, <1>3, <1>4, NoneAddedGood DEF k2

\* Two steps without a new announcement.
LEMMA NoneAddedTransitive ==
    ASSUME NEW a, NEW b, NEW c, NoneAdded(a, b), NoneAdded(b, c)
    PROVE  NoneAdded(a, c)
  BY Zenon DEF NoneAdded, Keeps

\* SendMessages requests or forgets what is due, announcing nothing.
LEMMA SendMessagesStep ==
    ASSUME Quiet, stale \in BOOLEAN, NEW p \in Peer, SendMessages(p)
    PROVE  StepGood
  <1> DEFINE timed == SetTimePoint(n.trk)
             due == Requestable(timed, p)
             asked == [t \in Tx |-> IF AlreadyHaveTx(Refreshed, t)
                                      THEN NoRow ELSE RequestedTx(timed.ann[t], p, Interval)]
             k == SetAll(timed, due, asked)
  <1>1. NodeOK(n, conn) /\ TrackerGood(n.trk, conn)
    BY Zenon, NodeFields DEF Quiet
  <1>2. /\ conn' = conn /\ confirmed' = confirmed /\ events' = events
        /\ stale' = (stale /\ due = {})
        /\ n' = WithTrk(IF due = {} THEN n ELSE Refreshed, k)
    BY Zenon DEF SendMessages, WithTrk
  <1>3. due \in SUBSET Tx /\ \A t \in due : asked[t] \in {NoRow, RequestedTx(timed.ann[t], p, Interval)}
    BY Zenon DEF Requestable
  <1>4. TrackerGood(timed, conn) /\ NoneAdded(n.trk, timed)
    BY Zenon, <1>1, SetTimePointGood
  <1> HIDE DEF timed, due, asked
  <1>5. TrackerGood(k, conn) /\ NoneAdded(timed, k)
    BY Zenon, <1>3, <1>4, SendGood
  <1> HIDE DEF k
  <1>6. NoneAdded(n.trk, k)
    BY Zenon, <1>4, <1>5, NoneAddedTransitive
  <1>7. CASE due = {}
    <2>1. NodeStep(n, n', conn) /\ Shrinks(n, n')
      BY Zenon, <1>1, <1>2, <1>5, <1>6, <1>7, TrackerStep
    <2> QED
      BY Zenon, <1>2, <1>7, <2>1, QuietStep
  <1>8. CASE due # {}
    <2>1. NodeOK(Refreshed, conn) /\ Refreshed.trk = n.trk
      BY Zenon, <1>1, RefreshedGood
    <2>2. NodeStep(Refreshed, n', conn)
      BY Zenon, <1>2, <1>5, <1>6, <1>8, <2>1, TrackerStep
    <2>3. stale' = FALSE
      BY Zenon, <1>2, <1>8
    <2> QED
      BY Zenon, <1>2, <2>2, <2>3, HandlerStep
  <1> QED
    BY Zenon, <1>7, <1>8

\* The clock.
LEMMA ClockStep ==
    ASSUME Quiet, stale \in BOOLEAN, Tick \/ \E again \in SUBSET (Tx \X Peer) : Setback(again)
    PROVE  StepGood
  <1>1. stale' = stale /\ conn' = conn /\ confirmed' = confirmed /\ events' = events
    BY Zenon DEF Tick, Setback
  <1>2. NodeOK(n, conn) /\ TrackerGood(n.trk, conn)
    BY Zenon, NodeFields DEF Quiet
  <1>3. NodeStep(n, n', conn) /\ Shrinks(n, n')
    <2>1. CASE Tick
      <3>1. n' = WithTrk(n, Forward(n.trk))
        BY Zenon, <2>1 DEF Tick, WithTrk
      <3> QED
        BY Zenon, <1>2, <3>1, ClockGood, TrackerStep
    <2>2. CASE \E again \in SUBSET (Tx \X Peer) : Setback(again)
      <3>1. PICK again \in SUBSET (Tx \X Peer) : Setback(again)
        BY Zenon, <2>2
      <3>2. n' = WithTrk(n, Backward(n.trk, again))
        BY Zenon, <3>1 DEF Setback, WithTrk
      <3> QED
        BY Zenon, <1>2, <3>2, ClockGood, TrackerStep
    <2> QED
      BY Zenon, <2>1, <2>2
  <1> QED
    BY Zenon, <1>1, <1>3, QuietStep

\* A peer leaves, and both structures forget it.
LEMMA FinalizeNodeStep ==
    ASSUME Quiet, stale \in BOOLEAN, NEW p \in Peer, FinalizeNode(p)
    PROVE  StepGood
  <1> DEFINE o == EraseForPeer(n.orph, p)
             k == DisconnectedPeer(n.trk, p)
             C == conn \ {p}
  <1>1. /\ n.pool \in SUBSET Tx /\ n.rejects \in SUBSET Tx /\ n.work \in [Peer -> SUBSET Tx]
        /\ TrackerGood(n.trk, conn) /\ OrphanageGood(n.orph, conn) /\ n \in Node
    BY Zenon, NodeFields DEF Quiet, NodeOK
  <1>2. n' = [n EXCEPT !.orph = o, !.trk = k, !.work[p] = {}]
    BY Zenon DEF FinalizeNode
  <1>3. /\ conn' = C /\ conn' # conn /\ stale' = stale /\ confirmed' = confirmed
        /\ events' = events
    BY Zenon DEF FinalizeNode
  <1>4. OrphanageGood(o, C) /\ DOMAIN o.from \subseteq DOMAIN n.orph.from
    BY Zenon, <1>1, EraseForPeerGood
  <1>5. TrackerGood(k, C) /\ NoneAdded(n.trk, k)
    BY Zenon, <1>1, DisconnectedPeerGood
  <1> HIDE DEF o, k, C
  <1>6. /\ n' = [trk |-> n'.trk, orph |-> n'.orph, pool |-> n'.pool, rejects |-> n'.rejects,
                 work |-> n'.work]
        /\ n'.trk = k /\ n'.orph = o /\ n'.pool = n.pool /\ n'.rejects = n.rejects
        /\ n'.work = [n.work EXCEPT ![p] = {}]
    BY Zenon, <1>1, <1>2 DEF Node
  <1>7. NodeKept
    <2>1. n'.work \in [Peer -> SUBSET Tx]
      BY Zenon, <1>1, <1>6
    <2>2. NodeOK(n', C)
      BY Zenon, <1>1, <1>4, <1>5, <1>6, <2>1, NodeMade
    <2> QED
      BY Zenon, <1>3, <2>2 DEF NodeKept
  <1>8. Shrinks(n, n')
    BY Zenon, <1>4, <1>5, <1>6 DEF Shrinks, Holds, Knows, HaveTx
  <1>9. NothingPointless
    BY Zenon, <1>3, <1>8, ShrinkingPointless
  <1> QED
    BY Zenon, <1>3, <1>7, <1>9 DEF StepGood, NothingLeft

\* m with another mempool.
WithPool(m, pool) == [m EXCEPT !.pool = pool]

\* The mempool may be any set of transactions.
LEMMA WithPoolGood ==
    ASSUME NEW m, NEW C, NodeOK(m, C), NEW pool \in SUBSET Tx, NEW w, w = WithPool(m, pool)
    PROVE  /\ NodeOK(w, C) /\ w.trk = m.trk /\ w.orph = m.orph /\ w.pool = pool
           /\ w.rejects = m.rejects /\ w.work = m.work
  <1>1. /\ w = [trk |-> w.trk, orph |-> w.orph, pool |-> w.pool, rejects |-> w.rejects,
                work |-> w.work]
        /\ w.trk = m.trk /\ w.orph = m.orph /\ w.pool = pool /\ w.rejects = m.rejects
        /\ w.work = m.work
    BY Zenon DEF NodeOK, Node, WithPool
  <1> QED
    BY Zenon, <1>1, NodeFields, NodeMade

\* A sequence keeps its elements when one is appended.
LEMMA RangeAppend ==
    ASSUME NEW S, NEW s \in Seq(S), NEW x \in S
    PROVE  Append(s, x) \in Seq(S) /\ Range(s) \subseteq Range(Append(s, x))
  <1> DEFINE a == Append(s, x)
  <1>1. /\ a \in Seq(S) /\ Len(s) \in Nat /\ Len(a) = Len(s) + 1
        /\ \A i \in 1 .. Len(s) : a[i] = s[i]
    OBVIOUS
  <1> HIDE DEF a
  <1>2. DOMAIN a = 1 .. Len(a) /\ DOMAIN s = 1 .. Len(s)
    BY <1>1
  <1>3. \A i \in DOMAIN s : i \in DOMAIN a /\ a[i] = s[i]
    BY <1>1, <1>2
  <1> QED
    BY Zenon, <1>1, <1>3 DEF Range, a

\* A sequence without its last element.
LEMMA AllButLast ==
    ASSUME NEW S, NEW s \in Seq(S), s # << >>
    PROVE  /\ Len(s) \in Nat \ {0} /\ s[Len(s)] \in S
           /\ SubSeq(s, 1, Len(s) - 1) \in Seq(S)
           /\ Len(SubSeq(s, 1, Len(s) - 1)) = Len(s) - 1
  <1> DEFINE k == Len(s) - 1
  <1>1. Len(s) \in Nat \ {0} /\ s[Len(s)] \in S
    OBVIOUS
  <1>2. k \in Nat /\ k <= Len(s)
    BY <1>1
  <1> HIDE DEF k
  <1>3. SubSeq(s, 1, k) \in Seq(S) /\ Len(SubSeq(s, 1, k)) = k
    BY <1>2
  <1> QED
    BY Zenon, <1>1, <1>3 DEF k

\* The mempool shrinks, and the block's callback is awaited.
LEMMA ConnectTipStep ==
    ASSUME Quiet, stale \in BOOLEAN, blocks \in Seq(SUBSET Tx), events \in Seq(Event),
           NEW block \in SUBSET Tx, ConnectTip(block)
    PROVE  StepGood
  <1>1. NodeOK(n, conn) /\ n.pool \in SUBSET Tx
    BY Zenon, NodeFields DEF Quiet
  <1>2. /\ stale' = TRUE /\ conn' = conn /\ confirmed' = confirmed
        /\ blocks' = Append(blocks, block)
        /\ events' = Append(events, [kind |-> "connected", block |-> block])
        /\ \E gone : n' = [n EXCEPT !.pool = n.pool \ (block \cup gone)]
    BY Zenon DEF ConnectTip
  <1>3. PICK gone : n' = [n EXCEPT !.pool = n.pool \ (block \cup gone)]
    BY Zenon, <1>2
  <1> DEFINE pool == n.pool \ (block \cup gone)
  <1>4. pool \in SUBSET Tx /\ pool \subseteq n.pool /\ n' = WithPool(n, pool)
    BY Zenon, <1>1, <1>3 DEF WithPool
  <1> HIDE DEF pool
  <1>5. /\ NodeOK(n', conn) /\ n'.trk = n.trk /\ n'.orph = n.orph /\ n'.pool = pool
        /\ n'.rejects = n.rejects
    BY <1>1, <1>4, WithPoolGood
  <1>6. Shrinks(n, n')
    BY Zenon, <1>4, <1>5 DEF Shrinks, Holds, Knows, NoneAdded, Keeps
  <1>7. \A t : Awaited(events, t) => Awaited(events', t)
    <2>1. [kind |-> "connected", block |-> block] \in Event
      BY Zenon DEF Event
    <2>2. Range(events) \subseteq Range(events')
      BY Zenon, <1>2, <2>1, RangeAppend
    <2> QED
      BY Zenon, <2>2 DEF Awaited
  <1>8. NothingPointless
    BY Zenon, <1>2, <1>6, <1>7, ShrinkingPointless
  <1>9. blocks' # blocks
    BY <1>2
  <1> QED
    BY Zenon, <1>2, <1>5, <1>8, <1>9 DEF StepGood, NodeKept, NothingLeft

\* A block's transactions return to the mempool: only the structures stay good.
LEMMA DisconnectTipStep ==
    ASSUME Quiet, blocks \in Seq(SUBSET Tx), DisconnectTip
    PROVE  StepGood
  <1>1. NodeOK(n, conn) /\ n.pool \in SUBSET Tx
    BY Zenon, NodeFields DEF Quiet
  <1>2. /\ blocks # << >> /\ conn' = conn /\ blocks' = SubSeq(blocks, 1, Len(blocks) - 1)
        /\ n' = WithPool(n, n.pool \cup blocks[Len(blocks)])
    BY Zenon DEF DisconnectTip, WithPool
  <1>3. /\ Len(blocks) \in Nat \ {0} /\ Len(blocks') = Len(blocks) - 1
        /\ blocks[Len(blocks)] \in SUBSET Tx
    BY Zenon, <1>2, AllButLast
  <1>4. n.pool \cup blocks[Len(blocks)] \in SUBSET Tx
    BY Zenon, <1>1, <1>3
  <1>5. NodeKept
    BY Zenon, <1>1, <1>2, <1>4, WithPoolGood DEF NodeKept
  <1>6. ~(Len(blocks') >= Len(blocks)) /\ blocks' # blocks
    BY <1>3
  <1> QED
    BY Zenon, <1>5, <1>6 DEF StepGood, NothingPointless, NothingLeft

\* The event at the head of the queue, and those behind it.
LEMMA HeadEvent ==
    ASSUME NEW ev \in Seq(Event), ev # << >>
    PROVE  /\ Head(ev) \in Event /\ Tail(ev) \in Seq(Event)
           /\ Range(ev) = {Head(ev)} \cup Range(Tail(ev))
  <1>1. Len(ev) \in Nat \ {0} /\ Head(ev) = ev[1] /\ Head(ev) \in Event /\ Tail(ev) \in Seq(Event)
        /\ Len(Tail(ev)) = Len(ev) - 1 /\ \A i \in 1 .. Len(ev) - 1 : Tail(ev)[i] = ev[i + 1]
    OBVIOUS
  <1>2. ASSUME NEW e \in Range(ev) PROVE e \in {Head(ev)} \cup Range(Tail(ev))
    <2>1. PICK i \in 1 .. Len(ev) : e = ev[i]
      BY <1>2 DEF Range
    <2>2. CASE i = 1
      BY Zenon, <1>1, <2>1, <2>2
    <2>3. CASE i # 1
      <3> DEFINE j == i - 1
                 rest == Tail(ev)
      <3>1. j \in 1 .. Len(rest) /\ rest[j] = e /\ rest \in Seq(Event)
        BY <1>1, <2>1, <2>3
      <3> HIDE DEF j, rest
      <3>2. j \in DOMAIN rest
        BY <3>1
      <3> QED
        BY Zenon, <3>1, <3>2 DEF Range, rest
    <2> QED
      BY Zenon, <2>2, <2>3
  <1>3. ASSUME NEW e \in {Head(ev)} \cup Range(Tail(ev)) PROVE e \in Range(ev)
    <2>1. CASE e = Head(ev)
      BY <1>1, <2>1 DEF Range
    <2>2. CASE e \in Range(Tail(ev))
      <3>1. PICK i \in 1 .. Len(ev) - 1 : e = Tail(ev)[i]
        BY <1>1, <2>2 DEF Range
      <3>2. i + 1 \in 1 .. Len(ev) /\ e = ev[i + 1]
        BY <1>1, <3>1
      <3> QED
        BY <3>2 DEF Range
    <2> QED
      BY Zenon, <1>3, <2>1, <2>2
  <1> QED
    BY Zenon, <1>1, <1>2, <1>3

\* The filter of confirmed transactions is emptied.
LEMMA BlockDisconnectedStep ==
    ASSUME Quiet, stale \in BOOLEAN, events \in Seq(Event), BlockDisconnected
    PROVE  StepGood
  <1>1. /\ n' = n /\ stale' = stale /\ conn' = conn /\ blocks' = blocks /\ confirmed' = {}
        /\ events # << >> /\ events' = Tail(events) /\ Head(events).kind = "disconnected"
    BY Zenon DEF BlockDisconnected
  <1>2. NodeKept /\ NothingLeft
    BY Zenon, <1>1 DEF NodeKept, NothingLeft, Quiet
  <1>3. \A t : Awaited(events, t) => Awaited(events', t)
    <2>1. Range(events) = {Head(events)} \cup Range(Tail(events))
      BY Zenon, <1>1, HeadEvent
    <2> QED
      BY Zenon, <1>1, <2>1 DEF Awaited
  <1>4. Shrinks(n, n')
    BY Zenon, <1>1 DEF Shrinks, NoneAdded, Keeps
  <1>5. NothingPointless
    BY Zenon, <1>1, <1>3, <1>4, ShrinkingPointless
  <1> QED
    BY Zenon, <1>2, <1>5 DEF StepGood

\* m with another orphanage.
WithOrph(m, o) == [m EXCEPT !.orph = o]

\* A good orphanage makes a good node.
LEMMA WithOrphGood ==
    ASSUME NEW m, NEW C, NodeOK(m, C), NEW o, OrphanageGood(o, C), NEW w, w = WithOrph(m, o)
    PROVE  /\ NodeOK(w, C) /\ w.trk = m.trk /\ w.orph = o /\ w.pool = m.pool
           /\ w.rejects = m.rejects /\ w.work = m.work
  <1>1. /\ w = [trk |-> w.trk, orph |-> w.orph, pool |-> w.pool, rejects |-> w.rejects,
                work |-> w.work]
        /\ w.trk = m.trk /\ w.orph = o /\ w.pool = m.pool /\ w.rejects = m.rejects
        /\ w.work = m.work
    BY Zenon DEF NodeOK, Node, WithOrph
  <1> QED
    BY Zenon, <1>1, NodeFields, NodeMade

\* Each of the three steps of BlockConnected: by the time the event is gone, the
\* requests for the block's transactions are too.
LEMMA BlockConnectedStep ==
    ASSUME Quiet, stale \in BOOLEAN, events \in Seq(Event), BlockConnected
    PROVE  StepGood
  <1> DEFINE block == Head(events).block
  <1>1. /\ stale' = stale /\ conn' = conn /\ blocks' = blocks
        /\ events # << >> /\ Head(events).kind = "connected"
        /\ \/ n' = WithOrph(n, EraseForBlock(n.orph, block)) /\ confirmed' = confirmed /\ events' = events
           \/ n' = n /\ confirmed' = confirmed \cup block /\ events' = events
           \/ n' = WithTrk(n, ForgetAll(n.trk, block)) /\ confirmed' = confirmed /\ events' = Tail(events)
    BY Zenon DEF BlockConnected, WithOrph, WithTrk
  <1>2. /\ Head(events) \in Event /\ block \in SUBSET Tx
        /\ Range(events) = {Head(events)} \cup Range(Tail(events))
    BY Zenon, <1>1, HeadEvent DEF Event
  <1>3. NodeOK(n, conn) /\ OrphanageGood(n.orph, conn) /\ TrackerGood(n.trk, conn)
    BY Zenon, NodeFields DEF Quiet
  <1>4. \A t : Awaited(events, t) <=> t \in block \/ Awaited(Tail(events), t)
    BY Zenon, <1>1, <1>2 DEF Awaited
  <1> HIDE DEF block
  <1>5. CASE n' = WithOrph(n, EraseForBlock(n.orph, block)) /\ confirmed' = confirmed /\ events' = events
    <2> DEFINE o == EraseForBlock(n.orph, block)
    <2>1. OrphanageGood(o, conn) /\ DOMAIN o.from \subseteq DOMAIN n.orph.from
      BY Zenon, <1>3, EraseForBlockGood
    <2>2. n' = WithOrph(n, o)
      BY Zenon, <1>5
    <2> HIDE DEF o
    <2>3. /\ NodeOK(n', conn) /\ n'.trk = n.trk /\ n'.orph = o /\ n'.pool = n.pool
          /\ n'.rejects = n.rejects /\ n'.work = n.work
      BY <1>3, <2>1, <2>2, WithOrphGood
    <2>4. Shrinks(n, n')
      BY Zenon, <2>1, <2>3 DEF Shrinks, Holds, Knows, HaveTx, NoneAdded, Keeps
    <2>5. \A t \in Tx : Left(n', t, conn) => Left(n, t, conn)
      BY Zenon, <2>1, <2>3 DEF Left, HaveTx
    <2>6. NodeStep(n, n', conn)
      BY Zenon, <2>3, <2>4, <2>5, ShrinkingStep
    <2> QED
      BY Zenon, <1>1, <1>5, <2>4, <2>6, QuietStep
  <1>6. CASE n' = n /\ confirmed' = confirmed \cup block /\ events' = events
    <2>1. NodeKept /\ NothingLeft
      BY Zenon, <1>1, <1>3, <1>6 DEF NodeKept, NothingLeft
    <2>2. NothingPointless
      <3>1. ASSUME NEW t \in Tx, Pointless(n', stale', confirmed', events', t)
            PROVE  Pointless(n, stale, confirmed, events, t)
        BY Zenon, <1>1, <1>4, <1>6, <3>1 DEF Pointless
      <3> QED
        BY Zenon, <3>1 DEF NothingPointless
    <2> QED
      BY Zenon, <2>1, <2>2 DEF StepGood
  <1>7. CASE n' = WithTrk(n, ForgetAll(n.trk, block)) /\ confirmed' = confirmed /\ events' = Tail(events)
    <2> DEFINE k == ForgetAll(n.trk, block)
    <2>1. TrackerGood(k, conn) /\ NoneAdded(n.trk, k) /\ \A t \in block : Tracked(k, t) = {}
      BY Zenon, <1>2, <1>3, ForgetAllGood
    <2>2. n' = WithTrk(n, k)
      BY Zenon, <1>7
    <2> HIDE DEF k
    <2>3. NodeStep(n, n', conn) /\ Shrinks(n, n') /\ n'.trk = k
      BY <1>3, <2>1, <2>2, TrackerStep, WithTrkGood
    <2>4. NodeKept /\ NothingLeft
      BY Zenon, <1>1, <2>3 DEF NodeStep, NodeKept, NothingLeft
    <2>5. NothingPointless
      <3>1. ASSUME NEW t \in Tx, Pointless(n', stale', confirmed', events', t)
            PROVE  Pointless(n, stale, confirmed, events, t)
        <4>1. /\ t \in confirmed \/ Holds(n', t) \/ (~stale /\ t \in n'.rejects)
              /\ Tracked(k, t) # {} /\ ~Awaited(Tail(events), t)
          BY Zenon, <1>1, <1>7, <2>3, <3>1 DEF Pointless
        <4>2. ~Awaited(events, t)
          BY Zenon, <1>4, <2>1, <4>1
        <4>3. t \in confirmed \/ Holds(n, t) \/ (~stale /\ t \in n.rejects)
          BY Zenon, <2>3, <4>1 DEF Shrinks, Knows
        <4>4. Tracked(n.trk, t) # {}
          BY Zenon, <2>1, <4>1, NoneAddedIs
        <4> QED
          BY Zenon, <4>2, <4>3, <4>4 DEF Pointless
      <3> QED
        BY Zenon, <3>1 DEF NothingPointless
    <2> QED
      BY Zenon, <2>4, <2>5 DEF StepGood
  <1> QED
    BY Zenon, <1>1, <1>5, <1>6, <1>7

-----------------------------------------------------------------------------
\* What NoneSuperfluous and NoneStranded say of a step is what StepGood says.
LEMMA SuperfluousIs ==
    ASSUME NodeOK(n, conn), NEW t
    PROVE  Superfluous(t) <=> Pointless(n, stale, confirmed, events, t)
  <1>1. /\ Refreshed.orph = n.orph /\ Refreshed.pool = n.pool
        /\ Refreshed.rejects = IF stale THEN {} ELSE n.rejects
    BY Zenon, RefreshedGood
  <1> QED
    BY Zenon, <1>1 DEF Superfluous, Pointless, AlreadyHaveTx, Holds, Awaited

\* The same after a step.
LEMMA SuperfluousNext ==
    ASSUME NEW C, NodeOK(n', C), NEW t
    PROVE  Superfluous(t)' <=> Pointless(n', stale', confirmed', events', t)
  <1> DEFINE w == IF stale' THEN [n' EXCEPT !.rejects = {}] ELSE n'
  <1>1. n' \in Node
    BY Zenon DEF NodeOK
  <1>2. w.orph = n'.orph /\ w.pool = n'.pool /\ w.rejects = IF stale' THEN {} ELSE n'.rejects
    BY Zenon, <1>1 DEF Node
  <1>3. Refreshed' = w
    BY Zenon DEF Refreshed
  <1> HIDE DEF w
  <1>4. Superfluous(t)' <=> /\ HaveTx(w.orph, t) \/ t \in confirmed' \cup w.rejects \cup w.pool
                            /\ Tracked(n'.trk, t) # {}
                            /\ ~Awaited(events', t)
    BY Zenon, <1>3 DEF Superfluous, AlreadyHaveTx, Awaited, HaveTx, Tracked, Range
  <1> QED
    BY Zenon, <1>2, <1>4 DEF Pointless, Holds, HaveTx

\* The same of Stranded, when the chain and the connections stay.
LEMMA StrandedNext ==
    ASSUME conn' = conn, blocks' = blocks, NEW t
    PROVE  (Stranded(t) <=> Left(n, t, conn)) /\ (Stranded(t)' <=> Left(n', t, conn))
  BY Zenon DEF Stranded, Left, Available, Spends, Mined, HaveTx, Range

-----------------------------------------------------------------------------
(* The inductive invariant. *)

\* The inductive invariant: the tracker and the orphanage are what they should be
\* between two handlers, the connected peers being the only ones they know of.
IInv == TypeOK /\ NodeOK(n, conn)

\* The orphanage of a node that starts.
LEMMA NoOrphanageGood == OrphanageGood(NoOrphanage, Peer)
  <1> DEFINE o == NoOrphanage
  <1>1. /\ o = [from |-> o.from, pos |-> o.pos, list |-> o.list, prev |-> o.prev]
        /\ DOMAIN o.from = {} /\ DOMAIN o.pos = {} /\ DOMAIN o.prev = {} /\ o.list = << >>
    BY DEF NoOrphanage
  <1>2. o.from \in [{} -> Peer] /\ o.pos \in [{} -> 1 .. Cardinality(Tx)]
    BY DEF NoOrphanage
  <1> HIDE DEF o
  <1>3. Cardinality({}) = 0 /\ MaxOrphans \in Nat
    BY Zenon, FS_EmptySet, DownloadAssumption DEF DownloadAssumption
  <1>4. Listed(o.from, o.pos, o.list)
    BY <1>1, <1>2, <1>3 DEF Listed
  <1>5. o.prev = Index(DOMAIN o.from)
    BY <1>1 DEF Index, NoOrphanage, o
  <1> QED
    BY <1>1, <1>3, <1>4, <1>5 DEF OrphanageGood, OrphanageOK, FromPeers, o

\* It holds initially.
LEMMA InitHolds == Init => IInv
  <1> SUFFICES ASSUME Init PROVE IInv
    BY Zenon
  <1>1. n = [trk |-> NoTracker, orph |-> NoOrphanage, pool |-> {}, rejects |-> {},
             work |-> [p \in Peer |-> {}]]
    BY Zenon DEF Init
  <1>2. NodeOK(n, Peer)
    BY Zenon, <1>1, NoTrackerGood, NoOrphanageGood, NodeMade
  <1>3. /\ conn = Peer /\ confirmed = {} /\ blocks = << >> /\ events = << >>
        /\ pc = "orphans" /\ stale = FALSE /\ used = 0
    BY Zenon DEF Init
  <1>4. n \in Node
    BY Zenon, <1>2 DEF NodeOK
  <1>5. TypeOK
    <2>1. /\ conn \subseteq Peer /\ confirmed \subseteq Tx /\ blocks \in Seq(SUBSET Tx)
          /\ events \in Seq(Event) /\ pc \in {"orphans", "filter", "requests"} /\ used \in Nat
      BY <1>3
    <2>2. stale \in BOOLEAN
      BY Zenon, <1>3
    <2> QED
      BY Zenon, <1>4, <2>1, <2>2 DEF TypeOK
  <1> QED
    BY Zenon, <1>2, <1>3, <1>5 DEF IInv

\* Every step is good, whoever takes it.
LEMMA StepsGood ==
    ASSUME IInv, [Next]_vars
    PROVE  StepGood
  <1>1. Quiet /\ stale \in BOOLEAN /\ blocks \in Seq(SUBSET Tx) /\ events \in Seq(Event)
    BY Zenon DEF IInv, TypeOK, Quiet
  <1>2. ASSUME NEW p \in Peer, NEW t \in Tx, Inv(p, t) \/ TxMessage(p, t) \/ NotFound(p, t)
        PROVE  StepGood
    BY Zenon, <1>1, <1>2, InvStep, TxMessageStep, NotFoundStep
  <1>3. ASSUME NEW p \in Peer, ProcessMessages(p) \/ SendMessages(p) \/ FinalizeNode(p)
        PROVE  StepGood
    BY Zenon, <1>1, <1>3, ProcessMessagesStep, SendMessagesStep, FinalizeNodeStep
  <1>4. ASSUME NEW block \in SUBSET Tx, ConnectTip(block)
        PROVE  StepGood
    BY Zenon, <1>1, <1>4, ConnectTipStep
  <1>5. CASE DisconnectTip
    BY Zenon, <1>1, <1>5, DisconnectTipStep
  <1>6. CASE BlockConnected
    BY Zenon, <1>1, <1>6, BlockConnectedStep
  <1>7. CASE BlockDisconnected
    BY Zenon, <1>1, <1>7, BlockDisconnectedStep
  <1>8. CASE Tick \/ \E again \in SUBSET (Tx \X Peer) : Setback(again)
    BY Zenon, <1>1, <1>8, ClockStep
  <1>9. CASE UNCHANGED vars
    <2>1. /\ n' = n /\ stale' = stale /\ conn' = conn /\ blocks' = blocks
          /\ events' = events /\ confirmed' = confirmed
      BY Zenon, <1>9 DEF vars
    <2> QED
      BY Zenon, <1>1, <2>1 DEF StepGood, NodeKept, NothingPointless, NothingLeft, Quiet
  <1> QED
    BY Zenon, <1>2, <1>3, <1>4, <1>5, <1>6, <1>7, <1>8, <1>9 DEF Next

\* The variables around the node keep their types.
Others(c, st, bs, ev, pcv, conf, us) ==
    /\ c \subseteq Peer /\ st \in BOOLEAN /\ bs \in Seq(SUBSET Tx) /\ ev \in Seq(Event)
    /\ pcv \in {"orphans", "filter", "requests"} /\ conf \subseteq Tx /\ us \in Nat

\* Whatever the step.
LEMMA OthersKept ==
    ASSUME IInv, [Next]_vars
    PROVE  Others(conn', stale', blocks', events', pc', confirmed', used')
  <1>0. Others(conn, stale, blocks, events, pc, confirmed, used)
    BY Zenon DEF IInv, TypeOK, Others
  <1>1. ASSUME NEW p \in Peer, NEW t \in Tx, Inv(p, t) \/ TxMessage(p, t) \/ NotFound(p, t)
        PROVE  Others(conn', stale', blocks', events', pc', confirmed', used')
    <2>1. /\ UNCHANGED <<conn, blocks, events, pc, confirmed>>
          /\ stale' \in {stale, FALSE} /\ used' \in {used, used + 1}
      BY Zenon, <1>1 DEF Inv, TxMessage, NotFound, Received
    <2>2. stale' \in BOOLEAN
      BY Zenon, <1>0, <2>1 DEF Others
    <2>3. used' \in Nat
      BY <1>0, <2>1 DEF Others
    <2> QED
      BY Zenon, <1>0, <2>1, <2>2, <2>3 DEF Others
  <1>2. ASSUME NEW p \in Peer, ProcessMessages(p) \/ SendMessages(p) \/ FinalizeNode(p)
        PROVE  Others(conn', stale', blocks', events', pc', confirmed', used')
    <2>1. CASE ProcessMessages(p) \/ FinalizeNode(p)
      BY Zenon, <1>0, <2>1 DEF ProcessMessages, FinalizeNode, Others
    <2>2. CASE SendMessages(p)
      <3>1. /\ UNCHANGED <<conn, blocks, events, pc, confirmed, used>>
            /\ stale' \in BOOLEAN
        BY Zenon, <1>0, <2>2 DEF SendMessages, Others
      <3> QED
        BY Zenon, <1>0, <3>1 DEF Others
    <2> QED
      BY Zenon, <1>2, <2>1, <2>2
  <1>3. ASSUME NEW block \in SUBSET Tx, ConnectTip(block)
        PROVE  Others(conn', stale', blocks', events', pc', confirmed', used')
    <2> DEFINE e == [kind |-> "connected", block |-> block]
    <2>1. /\ UNCHANGED <<conn, pc, confirmed>> /\ stale' = TRUE /\ used' = used + 2
          /\ blocks' = Append(blocks, block) /\ events' = Append(events, e)
      BY Zenon, <1>3 DEF ConnectTip
    <2>2. e \in Event
      BY Zenon DEF Event
    <2> HIDE DEF e
    <2>3. blocks' \in Seq(SUBSET Tx) /\ events' \in Seq(Event)
      BY Zenon, <1>0, <2>1, <2>2, RangeAppend DEF Others
    <2> QED
      BY <1>0, <2>1, <2>3 DEF Others
  <1>4. CASE DisconnectTip
    <2> DEFINE tip == blocks[Len(blocks)]
               e == [kind |-> "disconnected", block |-> tip]
    <2>1. /\ UNCHANGED <<conn, pc, confirmed, used>> /\ stale' = TRUE /\ blocks # << >>
          /\ blocks' = SubSeq(blocks, 1, Len(blocks) - 1) /\ events' = Append(events, e)
      BY Zenon, <1>4 DEF DisconnectTip
    <2>2. tip \in SUBSET Tx /\ blocks' \in Seq(SUBSET Tx)
      BY Zenon, <1>0, <2>1, AllButLast DEF Others
    <2> HIDE DEF tip
    <2>3. e \in Event
      BY Zenon, <2>2 DEF Event
    <2> HIDE DEF e
    <2>4. events' \in Seq(Event)
      BY Zenon, <1>0, <2>1, <2>3, RangeAppend DEF Others
    <2> QED
      BY Zenon, <1>0, <2>1, <2>2, <2>4 DEF Others
  <1>5. CASE BlockConnected \/ BlockDisconnected
    <2>1. /\ events # << >> /\ UNCHANGED <<stale, conn, blocks, used>>
          /\ events' \in {events, Tail(events)} /\ pc' \in {pc, "orphans", "filter", "requests"}
          /\ confirmed' \subseteq confirmed \cup Head(events).block
      BY Zenon, <1>5 DEF BlockConnected, BlockDisconnected
    <2>2. Head(events) \in Event /\ Tail(events) \in Seq(Event)
      BY Zenon, <1>0, <2>1, HeadEvent DEF Others
    <2>3. Head(events).block \in SUBSET Tx
      BY Zenon, <2>2 DEF Event
    <2> QED
      BY Zenon, <1>0, <2>1, <2>2, <2>3 DEF Others
  <1>6. CASE Tick
    BY Zenon, <1>0, <1>6 DEF Tick, Others
  <1>7. ASSUME NEW again, Setback(again)
        PROVE  Others(conn', stale', blocks', events', pc', confirmed', used')
    BY <1>0, <1>7 DEF Setback, Others
  <1>8. CASE UNCHANGED vars
    BY Zenon, <1>0, <1>8 DEF vars, Others
  <1> QED
    BY Zenon, <1>1, <1>2, <1>3, <1>4, <1>5, <1>6, <1>7, <1>8 DEF Next

\* It is preserved.
LEMMA StepHolds ==
    ASSUME IInv, [Next]_vars
    PROVE  IInv'
  <1>1. NodeOK(n', conn')
    BY Zenon, StepsGood DEF StepGood, NodeKept
  <1>2. Others(conn', stale', blocks', events', pc', confirmed', used')
    BY Zenon, OthersKept
  <1>3. NodeOK(n, conn)'
    BY Zenon, <1>1 DEF NodeOK, TrackerGood, TrackerOK, RowOK, WellSelected, Recounted, OrphanageGood,
                OrphanageOK, Listed, Index, FromPeers
  <1>4. TypeOK'
    BY Zenon, <1>1, <1>2 DEF TypeOK, Others, NodeOK
  <1> QED
    BY Zenon, <1>3, <1>4 DEF IInv

\* So it is an invariant.
LEMMA Invariant == Spec => []IInv
  <1>1. IInv /\ [Next]_vars => IInv'
    BY Zenon, StepHolds
  <1> QED
    BY <1>1, InitHolds, PTL DEF Spec

-----------------------------------------------------------------------------
\* The tracker, the orphanage, the mempool, the work sets and the queue of block
\* events keep their types through every handler, callback and tick.
THEOREM TypesCorrect == Spec => []TypeOK
  <1>1. IInv => TypeOK
    BY Zenon DEF IInv
  <1> QED
    BY <1>1, Invariant, PTL

\* SanityCheck holds after every event, for any number of peers, transactions and
\* ticks: one announcement at most is selected, the best that is ready; the counters
\* of m_peerinfo are the recounted ones; a peer that left is in neither structure
\* (TxRequestTracker::Impl, PeerManagerImpl::FinalizeNode).
THEOREM TrackerIsSane == Spec => []SanityCheck
  <1>1. ASSUME IInv PROVE SanityCheck
    <2>1. TrackerOK(n.trk) /\ OrphanageGood(n.orph, conn)
          /\ \A t \in Tx, p \in Peer \ conn : n.trk.ann[t][p].st = "none"
      BY Zenon, <1>1, NodeFields DEF IInv, TrackerGood
    <2>2. \A t \in Tx : WellSelected(n.trk.ann[t], t)
      BY Zenon, <2>1 DEF TrackerOK, RowOK
    <2>3. \A p \in Peer : n.trk.info[p] = Recounted(n.trk.ann, p)
      BY Zenon, <2>1 DEF TrackerOK
    <2>4. ASSUME NEW p \in Peer \ conn PROVE Recounted(n.trk.ann, p) = NoInfo
      <3>1. \A S : "none" \notin S => {t \in Tx : n.trk.ann[t][p].st \in S} = {}
        BY Zenon, <2>1
      <3>2. "none" \notin Open \cup {"completed"} /\ Cardinality({}) = 0
        BY Zenon, FS_EmptySet DEF Open, Candidate
      <3>3. /\ {t \in Tx : n.trk.ann[t][p].st \in Open \cup {"completed"}} = {}
            /\ {t \in Tx : n.trk.ann[t][p].st \in {"requested"}} = {}
            /\ {t \in Tx : n.trk.ann[t][p].st \in {"completed"}} = {}
        BY Zenon, <3>1, <3>2
      <3> QED
        BY Zenon, <3>2, <3>3 DEF Recounted, NoInfo
    <2>5. \A p \in Peer \ conn : \A t \in DOMAIN n.orph.from : n.orph.from[t] # p
      BY Zenon, <2>1 DEF OrphanageGood, FromPeers
    <2> QED
      BY Zenon, <2>2, <2>3, <2>4, <2>5 DEF SanityCheck
  <1> QED
    BY <1>1, Invariant, PTL

\* The orphanage's list, its positions and its outpoint index agree, and it holds no
\* more than -maxorphantx, whatever is added, erased or evicted (TxOrphanage).
THEOREM OrphanageIsExact == Spec => []OrphansExact
  <1>1. ASSUME IInv PROVE OrphansExact
    <2> DEFINE o == n.orph
    <2>1. Listed(o.from, o.pos, o.list) /\ o.prev = Index(DOMAIN o.from) /\ Len(o.list) <= MaxOrphans
      BY Zenon, <1>1, NodeFields DEF IInv, OrphanageGood, OrphanageOK
    <2> HIDE DEF o
    <2>2. /\ DOMAIN o.pos = DOMAIN o.from /\ Len(o.list) = Cardinality(DOMAIN o.from)
          /\ \A t \in DOMAIN o.from : o.pos[t] \in DOMAIN o.list /\ o.list[o.pos[t]] = t
      BY <2>1 DEF Listed
    <2>3. /\ DOMAIN o.prev = UNION {Inputs[t] : t \in DOMAIN o.from}
          /\ \A i \in DOMAIN o.prev : o.prev[i] = {t \in DOMAIN o.from : i \in Inputs[t]}
      BY Zenon, <2>1 DEF Index
    <2> QED
      BY Zenon, <2>1, <2>2, <2>3 DEF OrphansExact, o
  <1> QED
    BY <1>1, Invariant, PTL

\* No handler leaves an orphan behind whose last parent it brought in: it is in the
\* work set of a connected peer (PeerManagerImpl::ProcessOrphanTx,
\* TxOrphanage::AddChildrenToWorkSet).
THEOREM NothingStranded == Spec => NoneStranded
  <1>1. ASSUME IInv, [Next]_vars, conn' = conn, blocks' = blocks, NEW t \in Tx, Stranded(t)'
        PROVE  Stranded(t)
    <2>1. Left(n', t, conn) => Left(n, t, conn)
      BY Zenon, <1>1, StepsGood DEF StepGood, NothingLeft
    <2> QED
      BY Zenon, <1>1, <2>1, StrandedNext
  <1>2. IInv /\ [Next]_vars =>
          [conn' = conn /\ blocks' = blocks => \A t \in Tx : Stranded(t)' => Stranded(t)]_vars
    BY Zenon, <1>1
  <1> QED
    BY <1>2, Invariant, PTL DEF Spec, NoneStranded

\* No step but the disconnection of a block makes the node have a transaction that
\* it still tracks, unless a block callback yet to run will forget it: the test in
\* SendMessages that the code calls belt-and-suspenders is just that, for any order
\* of messages, callbacks and ticks (PeerManagerImpl::SendMessages, BlockConnected).
THEOREM NothingSuperfluous == Spec => NoneSuperfluous
  <1>1. ASSUME IInv, [Next]_vars, Len(blocks') >= Len(blocks), NEW t \in Tx, Superfluous(t)'
        PROVE  Superfluous(t)
    <2>1. /\ NodeOK(n, conn) /\ NodeOK(n', conn')
          /\ Pointless(n', stale', confirmed', events', t) => Pointless(n, stale, confirmed, events, t)
      BY Zenon, <1>1, StepsGood DEF IInv, StepGood, NodeKept, NothingPointless
    <2> QED
      BY Zenon, <1>1, <2>1, SuperfluousIs, SuperfluousNext
  <1>2. IInv /\ [Next]_vars =>
          [Len(blocks') >= Len(blocks) => \A t \in Tx : Superfluous(t)' => Superfluous(t)]_vars
    BY Zenon, <1>1
  <1> QED
    BY <1>2, Invariant, PTL DEF Spec, NoneSuperfluous
=============================================================================
