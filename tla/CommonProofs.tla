---------------------------- MODULE CommonProofs ----------------------------
(***************************************************************************)
(* Facts that the proofs of several components share: folds over finite    *)
(* sets and the sums that are folds, iteration over naturals, and the tree *)
(* of block index entries.  The provers cannot instantiate a theorem about *)
(* an operator, so inductions go through sets of instances, and what a     *)
(* fold does is given as functions on a set of values.                     *)
(*                                                                         *)
(* Only the last part is about the constants of BlockTree; a module about  *)
(* something else that extends this one has them and does not use them.    *)
(***************************************************************************)
EXTENDS BlockTree, Functions, FiniteSetTheorems, WellFoundedInduction, TLAPS

-----------------------------------------------------------------------------
(* Finite sets. *)

\* The index that the fold takes next.
Pick(s) == CHOOSE x \in s : TRUE

\* T has the empty set, and every set that it has without its Pick.
Inductive(T, S) ==
    /\ T \subseteq SUBSET S
    /\ {} \in T
    /\ \A s \in SUBSET S : s # {} /\ s \ {Pick(s)} \in T => s \in T

\* A claim that holds of the empty set and passes from a set without its Pick to
\* the set holds of every subset of a finite set.
LEMMA SubsetInduction ==
    ASSUME NEW S, IsFiniteSet(S), NEW T, Inductive(T, S)
    PROVE  T = SUBSET S
  <1> DEFINE Q == StrictSubsetOrdering(S)
             Bad == (SUBSET S) \ T
  <1>0. SUFFICES ASSUME Bad # {} PROVE FALSE
    BY DEF Inductive
  <1>1. IsWellFoundedOn(Q, SUBSET S)
    <2>1. IsWellFoundedOn(Q, FiniteSubsetsOf(S))
      BY FS_StrictSubsetOrderingWellFounded, Zenon
    <2>2. FiniteSubsetsOf(S) = SUBSET S
      BY FS_FiniteSubsetsOfFinite, Zenon
    <2> QED
      BY <2>1, <2>2
  <1>2. Bad \subseteq SUBSET S
    OBVIOUS
  <1> HIDE DEF Q, Bad
  <1>3. PICK m \in Bad : \A y \in Bad : <<y, m>> \notin Q
    BY <1>0, <1>1, <1>2, WFMin, Zenon
  <1>4. m \in SUBSET S /\ m \notin T /\ m # {}
    BY Zenon, <1>3 DEF Bad, Inductive
  <1>5. Pick(m) \in m
    BY <1>4 DEF Pick
  <1>6. m \ {Pick(m)} \in Bad
    BY <1>4 DEF Bad, Inductive
  <1>7. <<m \ {Pick(m)}, m>> \in Q
    BY <1>4, <1>5 DEF Q, StrictSubsetOrdering
  <1> QED
    BY <1>3, <1>6, <1>7

\* A finite set has a largest member in any total and transitive relation R.
LEMMA LargestExists ==
  ASSUME NEW S, IsFiniteSet(S), S # {}, NEW R,
         \A a, b \in S : <<a, b>> \in R \/ <<b, a>> \in R,
         \A a, b, c \in S : <<a, b>> \in R /\ <<b, c>> \in R => <<a, c>> \in R
  PROVE  \E m \in S : \A x \in S : <<x, m>> \in R
<1> DEFINE Bad == {T \in SUBSET S : T # {} /\ \A m \in T : \E x \in T : <<x, m>> \notin R}
           Q == StrictSubsetOrdering(S)
<1> SUFFICES ASSUME S \in Bad PROVE FALSE
  OBVIOUS
<1>1. IsWellFoundedOn(Q, SUBSET S)
  <2>1. IsWellFoundedOn(Q, FiniteSubsetsOf(S))
    BY FS_StrictSubsetOrderingWellFounded, Zenon
  <2>2. FiniteSubsetsOf(S) = SUBSET S
    BY FS_FiniteSubsetsOfFinite, Zenon
  <2> QED
    BY <2>1, <2>2, Zenon
<1>2. \A T, U \in SUBSET S : T \subseteq U /\ T # U => <<T, U>> \in Q
  BY DEF StrictSubsetOrdering
<1>3. Bad \in SUBSET (SUBSET S)
  OBVIOUS
<1>4. PICK T \in Bad : \A U \in Bad : <<U, T>> \notin Q
  <2> HIDE DEF Bad, Q
  <2> QED
    BY <1>1, <1>3, WFMin, Zenon
<1>5. PICK x \in T : TRUE
  OBVIOUS
<1>6. T \ {x} \notin Bad
  <2>1. T \ {x} \in SUBSET S /\ T \in SUBSET S /\ T \ {x} # T
    BY <1>5
  <2>2. <<T \ {x}, T>> \in Q
    <3> HIDE DEF Q, Bad
    <3> QED
      BY <1>2, <2>1, Zenon
  <2> HIDE DEF Q, Bad
  <2> QED
    BY <1>4, <2>2
<1>7. CASE T \ {x} = {}
  <2>1. \A y \in T : y = x
    BY <1>7
  <2>2. <<x, x>> \in R
    BY <1>5
  <2> QED
    BY Zenon, <1>5, <2>1, <2>2
<1>8. CASE T \ {x} # {}
  <2>1. PICK m \in T \ {x} : \A y \in T \ {x} : <<y, m>> \in R
    BY <1>6, <1>8
  <2>2. CASE <<x, m>> \in R
    BY Zenon, <2>1, <2>2
  <2>3. CASE <<m, x>> \in R
    <3>1. \A y \in T : <<y, x>> \in R
      BY Zenon, <2>1, <2>3
    <3> QED
      BY Zenon, <3>1
  <2> QED
    BY <2>2, <2>3
<1> QED
  BY <1>7, <1>8

\* g is the fold over each subset of S, in the order of MapThenFoldSet, that starts
\* from c and takes the step F[x] at x.
FoldOf(g, F, c, S) ==
    g = [s \in SUBSET S |-> IF s = {} THEN c ELSE F[Pick(s)][g[s \ {Pick(s)}]]]

\* Every family of steps on a set V can be folded over a finite set: the least
\* relation that holds of the empty set and c and extends to larger sets is a
\* function.
LEMMA FoldExists ==
    ASSUME NEW S, IsFiniteSet(S), NEW V, NEW c \in V, NEW F \in [S -> [V -> V]]
    PROVE  \E g \in [SUBSET S -> V] : FoldOf(g, F, c, S)
  <1> DEFINE N == (SUBSET S) \ {{}}
             U == (SUBSET S) \X V
             Closed == {C \in SUBSET U :
                          /\ <<{}, c>> \in C
                          /\ \A s \in N, v \in V : <<s \ {Pick(s)}, v>> \in C => <<s, F[Pick(s)][v]>> \in C}
             R == {p \in U : \A C \in Closed : p \in C}
             T == {s \in SUBSET S : \E v \in V : \A w \in V : <<s, w>> \in R <=> w = v}
             Val(s) == CHOOSE v \in V : <<s, v>> \in R
             g == [s \in SUBSET S |-> Val(s)]
  <1>0. \A s \in N : Pick(s) \in s /\ F[Pick(s)] \in [V -> V]
    BY DEF Pick
  <1>1. <<{}, c>> \in R
    OBVIOUS
  <1>2. ASSUME NEW s \in N, NEW v \in V, <<s \ {Pick(s)}, v>> \in R
        PROVE  <<s, F[Pick(s)][v]>> \in R
    <2>1. <<s, F[Pick(s)][v]>> \in U
      BY <1>0
    <2>2. ASSUME NEW C \in Closed PROVE <<s, F[Pick(s)][v]>> \in C
      BY <1>2, <2>2
    <2> QED
      BY <2>1, <2>2
  <1>3. {} \in T
    <2> SUFFICES ASSUME NEW w \in V, <<{}, w>> \in R, w # c PROVE FALSE
      BY Zenon, <1>1
    <2> DEFINE C == R \ {<<{}, w>>}
    <2>1. C \in Closed
      BY Zenon, <1>1, <1>2
    <2> QED
      BY Zenon, <2>1
  <1>4. ASSUME NEW s \in SUBSET S, s # {}, s \ {Pick(s)} \in T PROVE s \in T
    <2>1. PICK v \in V : \A w \in V : <<s \ {Pick(s)}, w>> \in R <=> w = v
      BY Zenon, <1>4
    <2>2. F[Pick(s)][v] \in V /\ <<s, F[Pick(s)][v]>> \in R
      BY Zenon, <1>0, <1>2, <1>4, <2>1
    <2> SUFFICES ASSUME NEW w \in V, <<s, w>> \in R, w # F[Pick(s)][v] PROVE FALSE
      BY Zenon, <2>2
    <2> DEFINE C == R \ {<<s, w>>}
    <2>3. <<{}, c>> \in C /\ C \in SUBSET U
      BY <1>1, <1>4
    <2>4. ASSUME NEW t \in N, NEW u \in V, <<t \ {Pick(t)}, u>> \in C
          PROVE  <<t, F[Pick(t)][u]>> \in C
      <3>1. <<t, F[Pick(t)][u]>> \in R
        BY Zenon, <1>2, <2>4
      <3>2. t = s => u = v
        BY Zenon, <2>1, <2>4
      <3> QED
        BY <3>1, <3>2
    <2>5. C \in Closed
      BY Zenon, <2>3, <2>4
    <2> QED
      BY Zenon, <2>5
  <1>5. T = SUBSET S
    <2>1. Inductive(T, S)
      <3>1. T \subseteq SUBSET S
        OBVIOUS
      <3> HIDE DEF T
      <3> QED
        BY <1>3, <1>4, <3>1 DEF Inductive
    <2> HIDE DEF T
    <2> QED
      BY <2>1, SubsetInduction, Zenon
  <1> HIDE DEF R
  <1>6. ASSUME NEW s \in SUBSET S
        PROVE  g[s] \in V /\ <<s, g[s]>> \in R /\ \A w \in V : <<s, w>> \in R => w = g[s]
    <2>1. PICK v \in V : \A w \in V : <<s, w>> \in R <=> w = v
      BY Zenon, <1>5
    <2>2. g[s] = CHOOSE w \in V : <<s, w>> \in R
      OBVIOUS
    <2>3. g[s] \in V /\ <<s, g[s]>> \in R
      BY Zenon, <2>1, <2>2
    <2> HIDE DEF g
    <2> QED
      BY <2>1, <2>3
  <1> HIDE DEF Val
  <1>7. g = [s \in SUBSET S |-> g[s]]
    OBVIOUS
  <1> HIDE DEF g, T
  <1>8. ASSUME NEW s \in SUBSET S
        PROVE  g[s] = IF s = {} THEN c ELSE F[Pick(s)][g[s \ {Pick(s)}]]
    <2>1. CASE s = {}
      <3>1. \A w \in V : <<s, w>> \in R => w = g[s]
        BY Zenon, <1>6
      <3>2. <<s, c>> \in R
        BY <1>1, <2>1
      <3> QED
        BY <2>1, <3>1, <3>2
    <2>2. CASE s # {}
      <3> DEFINE r == s \ {Pick(s)}
      <3>1. r \in SUBSET S /\ g[r] \in V /\ <<r, g[r]>> \in R
        BY Zenon, <1>6
      <3>2. s \in N
        BY <2>2
      <3>3. F[Pick(s)][g[r]] \in V
        BY <1>0, <3>1, <3>2
      <3>4. <<s, F[Pick(s)][g[r]]>> \in R
        <4> DEFINE v == g[r]
        <4>1. v \in V /\ <<s \ {Pick(s)}, v>> \in R
          BY <3>1
        <4> HIDE DEF v, N
        <4>2. <<s, F[Pick(s)][v]>> \in R
          BY <1>2, <3>2, <4>1, Zenon
        <4> QED
          BY <4>2 DEF v
      <3> HIDE DEF r
      <3> QED
        BY Zenon, <1>6, <2>2, <3>3, <3>4 DEF r
    <2> QED
      BY <2>1, <2>2
  <1>9. g = [s \in SUBSET S |-> IF s = {} THEN c ELSE F[Pick(s)][g[s \ {Pick(s)}]]]
    BY Zenon, <1>7, <1>8
  <1>10. g \in [SUBSET S -> V]
    BY Zenon, <1>6, <1>7
  <1> QED
    BY Zenon, <1>9, <1>10 DEF FoldOf
-----------------------------------------------------------------------------
(* Iteration over naturals. *)

\* A set of naturals up to n has a least element.
LEMMA LeastExists ==
  ASSUME NEW n \in Nat, NEW S \in SUBSET (0..n), S # {}
  PROVE  \E m \in S : \A x \in S : m <= x
<1> DEFINE R == {p \in S \X S : p[2] <= p[1]}
<1>1. IsFiniteSet(S)
  BY FS_Interval, FS_Subset, 0 \in Int, n \in Int
<1>2. \A x \in S : x \in Int
  OBVIOUS
<1>3. \A x, y \in S : <<x, y>> \in R <=> y <= x
  OBVIOUS
<1> HIDE DEF R
<1>4. ASSUME NEW x \in S, NEW y \in S PROVE <<x, y>> \in R \/ <<y, x>> \in R
  <2>1. x \in Int /\ y \in Int
    BY <1>2
  <2> QED
    BY <1>3, <2>1
<1>5. \A x, y, z \in S : <<x, y>> \in R /\ <<y, z>> \in R => <<x, z>> \in R
  BY <1>2, <1>3
<1>6. PICK m \in S : \A x \in S : <<x, m>> \in R
  BY <1>1, <1>4, <1>5, LargestExists, Zenon
<1> QED
  BY Zenon, <1>3, <1>6

\* A claim that holds of 0 and passes from each number to the next holds up to n.
LEMMA CountUp ==
  ASSUME NEW n \in Nat, NEW T, 0 \in T, \A i \in 1..n : i - 1 \in T => i \in T
  PROVE  \A i \in 0..n : i \in T
<1> DEFINE S == {i \in 0..n : i \notin T}
<1> SUFFICES ASSUME S # {} PROVE FALSE
  OBVIOUS
<1>1. S \in SUBSET (0..n)
  OBVIOUS
<1> HIDE DEF S
<1>2. PICK m \in S : \A x \in S : m <= x
  BY Zenon, <1>1, LeastExists
<1>3. m \in 1..n /\ m - 1 \in 0..n /\ m \notin T
  BY <1>2 DEF S
<1>4. m - 1 \notin S
  BY <1>2, <1>3
<1> QED
  BY <1>3, <1>4 DEF S

\* f goes through S from c, F[i] being its i-th step.
Iterates(f, n, S, c, F) ==
  f \in [0..n -> S] /\ f[0] = c /\ \A i \in 1..n : f[i] = F[i][f[i - 1]]

\* Every sequence of steps on a set S can be run from every element of S.
LEMMA IterationExists ==
  ASSUME NEW n \in Nat, NEW S, NEW c \in S, NEW F, F \in [1..n -> [S -> S]]
  PROVE  \E f : Iterates(f, n, S, c, F)
<1> DEFINE Runs(f, m) == f[0] = c /\ \A i \in 1..m : f[i] = F[i][f[i - 1]]
           T == {m \in 0..n : \E f \in [0..m -> S] : Runs(f, m)}
<1>1. 0 \in T
  <2> DEFINE g == [i \in 0..0 |-> c]
  <2>1. g \in [0..0 -> S] /\ Runs(g, 0)
    OBVIOUS
  <2> HIDE DEF g, Runs
  <2>2. \E f \in [0..0 -> S] : Runs(f, 0)
    BY Zenon, <2>1
  <2> QED
    BY <2>2
<1>2. ASSUME NEW m \in 1..n, m - 1 \in T PROVE m \in T
  <2>1. PICK f \in [0..(m - 1) -> S] : Runs(f, m - 1)
    BY <1>2
  <2> DEFINE g == [i \in 0..m |-> IF i = m THEN F[m][f[m - 1]] ELSE f[i]]
  <2>2. g \in [0..m -> S]
    OBVIOUS
  <2>3. g[0] = c
    BY <2>1
  <2>4. ASSUME NEW i \in 1..m PROVE g[i] = F[i][g[i - 1]]
    <3>1. CASE i = m
      BY <3>1
    <3>2. CASE i # m
      <4>1. i \in 1..(m - 1) /\ i - 1 \in 0..(m - 1) /\ i - 1 # m
        BY <3>2
      <4>2. f[i] = F[i][f[i - 1]]
        BY <2>1, <4>1
      <4> QED
        BY <3>2, <4>1, <4>2
    <3> QED
      BY <3>1, <3>2
  <2>5. Runs(g, m)
    BY <2>3, <2>4
  <2> HIDE DEF g, Runs
  <2>6. \E h \in [0..m -> S] : Runs(h, m)
    BY Zenon, <2>2, <2>5
  <2> QED
    BY <2>6
<1> HIDE DEF T
<1>3. \A i \in 0..n : i \in T
  BY Zenon, <1>1, <1>2, CountUp
<1>4. n \in T
  BY <1>3
<1> QED
  BY Zenon, <1>4 DEF T, Iterates

\* What runs by the steps F as long as it is in S is in S throughout.
LEMMA IterationStays ==
  ASSUME NEW n \in Nat, NEW S, NEW c \in S, NEW F, F \in [1..n -> [S -> S]],
         NEW f, f = [i \in 0..n |-> f[i]], f[0] = c,
         \A i \in 1..n : f[i - 1] \in S => f[i] = F[i][f[i - 1]]
  PROVE  Iterates(f, n, S, c, F)
<1> DEFINE T == {i \in 0..n : f[i] \in S}
<1>1. 0 \in T
  OBVIOUS
<1>2. ASSUME NEW i \in 1..n, i - 1 \in T PROVE i \in T
  <2>1. i \in 0..n /\ f[i - 1] \in S /\ F[i] \in [S -> S]
    BY <1>2
  <2>2. f[i] \in S
    BY Zenon, <2>1
  <2> QED
    BY <2>1, <2>2
<1> HIDE DEF T
<1>3. \A i \in 0..n : i \in T
  BY Zenon, <1>1, <1>2, CountUp
<1>4. \A i \in 0..n : f[i] \in S
  BY Zenon, <1>3 DEF T
<1>5. f \in [0..n -> S]
  BY Zenon, <1>4
<1>6. ASSUME NEW i \in 1..n PROVE f[i] = F[i][f[i - 1]]
  <2>1. i - 1 \in 0..n
    OBVIOUS
  <2> QED
    BY Zenon, <1>4, <2>1
<1> QED
  BY Zenon, <1>5, <1>6 DEF Iterates
-----------------------------------------------------------------------------
(* Sums. *)

\* g is the sum of f over each set of indices, in the order of MapThenFoldSet.
SumsOf(g, f, S) ==
    g = [s \in SUBSET S |-> IF s = {} THEN 0 ELSE f[Pick(s)] + g[s \ {Pick(s)}]]

\* The recursive definition of the sum has a solution.
LEMMA SumDefined ==
    ASSUME NEW S, IsFiniteSet(S), NEW f \in [S -> Int]
    PROVE  \E g : SumsOf(g, f, S)
  <1> DEFINE F == [x \in S |-> [v \in Int |-> f[x] + v]]
  <1>1. F \in [S -> [Int -> Int]]
    OBVIOUS
  <1>2. \A x \in S, v \in Int : F[x][v] = f[x] + v
    OBVIOUS
  <1> HIDE DEF F
  <1>3. PICK g \in [SUBSET S -> Int] : FoldOf(g, F, 0, S)
    <2>1. 0 \in Int
      OBVIOUS
    <2> QED
      BY Zenon, <1>1, <2>1, FoldExists
  <1>4. ASSUME NEW s \in SUBSET S
        PROVE  (IF s = {} THEN 0 ELSE F[Pick(s)][g[s \ {Pick(s)}]])
                 = IF s = {} THEN 0 ELSE f[Pick(s)] + g[s \ {Pick(s)}]
    <2>1. CASE s # {}
      <3>1. Pick(s) \in S /\ g[s \ {Pick(s)}] \in Int
        BY <2>1 DEF Pick
      <3> QED
        BY Zenon, <1>2, <2>1, <3>1
    <2> QED
      BY <2>1
  <1>5. [s \in SUBSET S |-> IF s = {} THEN 0 ELSE F[Pick(s)][g[s \ {Pick(s)}]]]
          = [s \in SUBSET S |-> IF s = {} THEN 0 ELSE f[Pick(s)] + g[s \ {Pick(s)}]]
    BY Zenon, <1>4
  <1> QED
    BY Zenon, <1>3, <1>5 DEF FoldOf, SumsOf

\* g holds the partial sums of f over S.
PartialSums(g, f, S) ==
    /\ g \in [SUBSET S -> Int]
    /\ SumFunction(f) = g[S]
    /\ g[{}] = 0
    /\ \A s \in (SUBSET S) \ {{}} : g[s] = f[Pick(s)] + g[s \ {Pick(s)}]

\* SumFunction of f over its finite domain S is the last of the partial sums.
LEMMA SumUnfolds ==
    ASSUME NEW S, IsFiniteSet(S), NEW f \in [S -> Int]
    PROVE  \E g : PartialSums(g, f, S)
  <1> DEFINE h == CHOOSE g : SumsOf(g, f, S)
  <1>1. SumFunction(f) = h[S]
    <2>1. DOMAIN f = S
      OBVIOUS
    <2> QED
      BY <2>1 DEF SumFunction, SumFunctionOnSet, FoldFunctionOnSet, MapThenFoldSet, SumsOf, Pick
  <1>2. SumsOf(h, f, S)
    <2>1. \E g : SumsOf(g, f, S)
      BY SumDefined, Zenon
    <2> QED
      BY <2>1, Zenon
  <1> HIDE DEF h
  <1>3. /\ DOMAIN h = SUBSET S /\ h[{}] = 0
        /\ \A s \in (SUBSET S) \ {{}} : h[s] = f[Pick(s)] + h[s \ {Pick(s)}]
    BY Zenon, <1>2 DEF SumsOf
  <1>4. h \in [SUBSET S -> Int]
    <2> DEFINE T == {s \in SUBSET S : h[s] \in Int}
    <2>1. Inductive(T, S)
      BY <1>3 DEF Pick, Inductive
    <2> HIDE DEF T
    <2>2. T = SUBSET S
      BY <2>1, SubsetInduction, Zenon
    <2>3. h = [s \in SUBSET S |-> h[s]]
      BY <1>2, <1>3 DEF SumsOf
    <2> QED
      BY Zenon, <2>2, <2>3 DEF T
  <1> QED
    BY <1>1, <1>3, <1>4 DEF PartialSums

\* Sums add up.
LEMMA SumAdds ==
    ASSUME NEW S, IsFiniteSet(S), NEW a \in [S -> Int], NEW b \in [S -> Int],
           NEW c \in [S -> Int], \A x \in S : c[x] = a[x] + b[x]
    PROVE  /\ SumFunction(a) \in Int /\ SumFunction(b) \in Int
           /\ SumFunction(c) = SumFunction(a) + SumFunction(b)
  <1>2. PICK f : PartialSums(f, a, S)
    BY SumUnfolds, Zenon
  <1>3. PICK g : PartialSums(g, b, S)
    BY SumUnfolds, Zenon
  <1>4. PICK h : PartialSums(h, c, S)
    BY SumUnfolds, Zenon
  <1> USE DEF PartialSums
  <1> DEFINE T == {s \in SUBSET S : h[s] = f[s] + g[s]}
  <1>5. {} \in T
    BY <1>2, <1>3, <1>4
  <1>6. ASSUME NEW s \in SUBSET S, s # {}, s \ {Pick(s)} \in T PROVE s \in T
    <2> DEFINE x == Pick(s)
               r == s \ {x}
    <2>1. x \in S /\ r \in SUBSET S /\ c[x] = a[x] + b[x] /\ a[x] \in Int /\ b[x] \in Int
      BY <1>6 DEF Pick
    <2>2. f[r] \in Int /\ g[r] \in Int /\ h[r] = f[r] + g[r]
      BY <1>2, <1>3, <1>6, <2>1
    <2>3. f[s] = a[x] + f[r] /\ g[s] = b[x] + g[r] /\ h[s] = c[x] + h[r]
      BY Zenon, <1>2, <1>3, <1>4, <1>6
    <2> HIDE DEF x, r
    <2> QED
      BY <2>1, <2>2, <2>3
  <1>7. T = SUBSET S
    <2>1. T \subseteq SUBSET S
      OBVIOUS
    <2> HIDE DEF T
    <2>2. Inductive(T, S)
      BY <1>5, <1>6, <2>1 DEF Inductive
    <2> QED
      BY <2>2, SubsetInduction, Zenon
  <1>8. h[S] = f[S] + g[S] /\ f[S] \in Int /\ g[S] \in Int
    BY <1>2, <1>3, <1>7
  <1> QED
    BY <1>2, <1>3, <1>4, <1>8

\* A sum of zeroes but for one place.
LEMMA SumSingle ==
    ASSUME NEW S, IsFiniteSet(S), NEW y \in S, NEW d \in Int, NEW a \in [S -> Int],
           \A x \in S : a[x] = IF x = y THEN d ELSE 0
    PROVE  SumFunction(a) = d
  <1>2. PICK f : PartialSums(f, a, S)
    BY SumUnfolds, Zenon
  <1> USE DEF PartialSums
  <1> DEFINE T == {s \in SUBSET S : f[s] = IF y \in s THEN d ELSE 0}
  <1>3. {} \in T
    BY <1>2
  <1>4. ASSUME NEW s \in SUBSET S, s # {}, s \ {Pick(s)} \in T PROVE s \in T
    <2> DEFINE x == Pick(s)
               r == s \ {x}
    <2>1. x \in s /\ x \in S /\ (y \in r <=> y \in s /\ x # y)
      BY <1>4 DEF Pick
    <2>2. f[s] = a[x] + f[r] /\ f[r] = (IF y \in r THEN d ELSE 0)
      BY <1>2, <1>4
    <2> HIDE DEF x, r
    <2>3. f[s] = IF y \in s THEN d ELSE 0
      BY <2>1, <2>2
    <2> QED
      BY <2>3
  <1>5. T = SUBSET S
    <2>1. T \subseteq SUBSET S
      OBVIOUS
    <2> HIDE DEF T
    <2>2. Inductive(T, S)
      BY <1>3, <1>4, <2>1 DEF Inductive
    <2> QED
      BY <2>2, SubsetInduction, Zenon
  <1> QED
    BY <1>2, <1>5

\* The sum of zeroes.
LEMMA SumZero ==
    ASSUME NEW S, IsFiniteSet(S), NEW a \in [S -> Int], \A x \in S : a[x] = 0
    PROVE  SumFunction(a) = 0
  <1>1. \A x \in S : a[x] = a[x] + a[x]
    OBVIOUS
  <1>2. SumFunction(a) \in Int /\ SumFunction(a) = SumFunction(a) + SumFunction(a)
    BY <1>1, SumAdds
  <1> DEFINE v == SumFunction(a)
  <1>3. v \in Int /\ v = v + v
    BY <1>2
  <1> HIDE DEF v
  <1>4. v = 0
    BY <1>3
  <1> QED
    BY <1>4 DEF v

\* A change of one summand changes the sum by as much.
LEMMA SumChange ==
    ASSUME NEW S, IsFiniteSet(S), NEW a \in [S -> Int], NEW c \in [S -> Int], NEW y \in S,
           \A x \in S : x # y => c[x] = a[x]
    PROVE  SumFunction(c) = SumFunction(a) - a[y] + c[y]
  <1> DEFINE b == [x \in S |-> IF x = y THEN c[y] - a[y] ELSE 0]
  <1>1. b \in [S -> Int] /\ c[y] - a[y] \in Int /\ \A x \in S : c[x] = a[x] + b[x]
    OBVIOUS
  <1>2. SumFunction(b) = c[y] - a[y]
    <2>1. \A x \in S : b[x] = IF x = y THEN c[y] - a[y] ELSE 0
      OBVIOUS
    <2> DEFINE d == c[y] - a[y]
    <2>2. d \in Int /\ \A x \in S : b[x] = IF x = y THEN d ELSE 0
      BY <1>1, <2>1
    <2> HIDE DEF b, d
    <2>3. SumFunction(b) = d
      BY <1>1, <2>2, SumSingle
    <2> QED
      BY <2>3 DEF d
  <1>3. /\ SumFunction(a) \in Int /\ SumFunction(b) \in Int
        /\ SumFunction(c) = SumFunction(a) + SumFunction(b)
    <2> HIDE DEF b
    <2> QED
      BY <1>1, SumAdds
  <1> QED
    BY <1>1, <1>2, <1>3
-----------------------------------------------------------------------------
(* The tree of block index entries. *)

LEMMA ParentInBlock ==
  /\ Genesis \in Block /\ NoBlock \notin Block
  /\ \A b \in Block \ {Genesis} : Parent[b] \in Block
BY TreeAssumption DEF TreeAssumption

\* A claim that holds of genesis and passes from parent to child holds of every block.
LEMMA BlockInduction ==
  ASSUME NEW T \in SUBSET Block, Genesis \in T,
         \A b \in Block \ {Genesis} : Parent[b] \in T => b \in T
  PROVE  T = Block
<1>1. SUFFICES ASSUME Block \ T # {} PROVE FALSE
  OBVIOUS
<1>2. PICK b \in Block \ T : Parent[b] \notin Block \ T
  BY Zenon, <1>1, TreeAssumption DEF TreeAssumption
<1> QED
  BY <1>2, ParentInBlock

\* The least set with b that has the parents of its members is a solution of
\* the recursive definition.
LEMMA AncestorsDefined ==
  Ancestors = [b \in Block |-> IF b = Genesis THEN {b} ELSE {b} \cup Ancestors[Parent[b]]]
<1> DEFINE Closed == {S \in SUBSET Block : \A x \in S \ {Genesis} : Parent[x] \in S}
           Down(b) == {a \in Block : \A S \in Closed : b \in S => a \in S}
           f == [b \in Block |-> Down(b)]
<1>1. ASSUME NEW b \in Block PROVE b \in Down(b) /\ Down(b) \in Closed
  <2>1. \A x \in Down(b) \ {Genesis} : \A S \in Closed : b \in S => Parent[x] \in S
    OBVIOUS
  <2>2. \A x \in Down(b) \ {Genesis} : Parent[x] \in Down(b)
    BY Zenon, <2>1, ParentInBlock
  <2> QED
    BY <2>2
<1>2. Down(Genesis) = {Genesis}
  <2>1. {Genesis} \in Closed
    BY ParentInBlock
  <2>2. Down(Genesis) \subseteq {Genesis}
    BY Zenon, <2>1
  <2>3. Genesis \in Down(Genesis)
    BY <1>1, ParentInBlock
  <2> QED
    BY <2>2, <2>3
<1>3. ASSUME NEW b \in Block \ {Genesis}
      PROVE  Down(b) = {b} \cup Down(Parent[b])
  <2>1. Parent[b] \in Block
    BY ParentInBlock
  <2>2. {b} \cup Down(Parent[b]) \in Closed
    BY <1>1, <2>1
  <2>3. Down(b) \subseteq {b} \cup Down(Parent[b])
    BY Zenon, <2>2
  <2>4. \A S \in Closed : b \in S => Parent[b] \in S
    OBVIOUS
  <2>5. {b} \cup Down(Parent[b]) \subseteq Down(b)
    BY <2>4
  <2> QED
    BY <2>3, <2>5
<1> HIDE DEF Down
<1>4. f = [b \in Block |-> IF b = Genesis THEN {b} ELSE {b} \cup f[Parent[b]]]
  BY Zenon, <1>2, <1>3, ParentInBlock
<1> HIDE DEF f
<1> QED
  BY Zenon, <1>4 DEF Ancestors

LEMMA AncestorsStep ==
  /\ Ancestors[Genesis] = {Genesis}
  /\ \A b \in Block \ {Genesis} : Ancestors[b] = {b} \cup Ancestors[Parent[b]]
BY Zenon, AncestorsDefined, ParentInBlock

LEMMA AncestorsType ==
  \A b \in Block : Ancestors[b] \subseteq Block /\ b \in Ancestors[b] /\ Genesis \in Ancestors[b]
<1> DEFINE T == {b \in Block : Ancestors[b] \subseteq Block /\ b \in Ancestors[b] /\ Genesis \in Ancestors[b]}
<1>1. Genesis \in T
  BY AncestorsStep, ParentInBlock
<1>2. \A b \in Block \ {Genesis} : Parent[b] \in T => b \in T
  BY AncestorsStep
<1>3. T = Block
  <2> HIDE DEF T
  <2> QED
    BY Zenon, <1>1, <1>2, BlockInduction, T \in SUBSET Block DEF T
<1> QED
  BY <1>3

\* A set that has the parents of its members has their ancestors.
LEMMA AncestorsWithin ==
  ASSUME NEW S \in SUBSET Block, \A x \in S \ {Genesis} : Parent[x] \in S
  PROVE  \A b \in S : Ancestors[b] \subseteq S
<1> DEFINE T == {b \in Block : b \in S => Ancestors[b] \subseteq S}
<1>1. Genesis \in T
  BY AncestorsStep, ParentInBlock
<1>2. \A b \in Block \ {Genesis} : Parent[b] \in T => b \in T
  BY AncestorsStep
<1>3. T = Block
  <2> HIDE DEF T
  <2> QED
    BY Zenon, <1>1, <1>2, BlockInduction, T \in SUBSET Block DEF T
<1> QED
  BY <1>3

LEMMA AncestorsFinite == \A b \in Block : IsFiniteSet(Ancestors[b])
<1> DEFINE T == {b \in Block : IsFiniteSet(Ancestors[b])}
<1>1. Genesis \in T
  BY Zenon, AncestorsStep, ParentInBlock, FS_Singleton
<1>2. ASSUME NEW b \in Block \ {Genesis}, Parent[b] \in T PROVE b \in T
  <2>1. IsFiniteSet(Ancestors[Parent[b]] \cup {b})
    BY <1>2, FS_AddElement
  <2>2. Ancestors[b] = Ancestors[Parent[b]] \cup {b}
    BY AncestorsStep
  <2> QED
    BY Zenon, <2>1, <2>2
<1>3. T = Block
  <2> HIDE DEF T
  <2> QED
    BY Zenon, <1>1, <1>2, BlockInduction, T \in SUBSET Block DEF T
<1> QED
  BY <1>3

LEMMA AncestorsTransitive ==
  \A b \in Block : \A a \in Ancestors[b] : Ancestors[a] \subseteq Ancestors[b]
<1> DEFINE T == {b \in Block : \A a \in Ancestors[b] : Ancestors[a] \subseteq Ancestors[b]}
<1>1. Genesis \in T
  BY AncestorsStep, ParentInBlock
<1>2. \A b \in Block \ {Genesis} : Parent[b] \in T => b \in T
  BY AncestorsStep
<1>3. T = Block
  <2> HIDE DEF T
  <2> QED
    BY Zenon, <1>1, <1>2, BlockInduction, T \in SUBSET Block DEF T
<1> QED
  BY <1>3

\* Two ancestors of a block are on one branch.
LEMMA AncestorsLinear ==
  \A b \in Block : \A a, c \in Ancestors[b] : a \in Ancestors[c] \/ c \in Ancestors[a]
<1> DEFINE T == {b \in Block : \A a, c \in Ancestors[b] : a \in Ancestors[c] \/ c \in Ancestors[a]}
<1>1. Genesis \in T
  BY AncestorsStep, ParentInBlock
<1>2. \A b \in Block \ {Genesis} : Parent[b] \in T => b \in T
  BY AncestorsStep
<1>3. T = Block
  <2> HIDE DEF T
  <2> QED
    BY Zenon, <1>1, <1>2, BlockInduction, T \in SUBSET Block DEF T
<1> QED
  BY <1>3

LEMMA AncestorsAntisymmetric ==
  ASSUME NEW a \in Block, NEW b \in Ancestors[a], a \in Ancestors[b]
  PROVE  a = b
<1> DEFINE S == {x \in Ancestors[a] : a \in Ancestors[x]}
<1> SUFFICES ASSUME a # b PROVE FALSE
  OBVIOUS
<1>1. b \in S /\ S \subseteq Block
  BY AncestorsType
<1>2. Genesis \notin S
  BY AncestorsStep
<1>3. ASSUME NEW x \in S PROVE Parent[x] \in S
  <2>1. x \in Block \ {Genesis} /\ Parent[x] \in Block /\ Parent[x] \in Ancestors[x] /\ Ancestors[x] \subseteq Ancestors[a]
    BY <1>1, <1>2, AncestorsStep, AncestorsType, AncestorsTransitive, ParentInBlock
  <2>2. CASE x # a
    BY <2>1, <2>2, AncestorsStep
  <2>3. CASE x = a
    <3>1. b \in Ancestors[Parent[a]]
      BY <2>1, <2>3, AncestorsStep
    <3> QED
      BY <2>1, <2>3, <3>1, AncestorsTransitive
  <2> QED
    BY <2>2, <2>3
<1> HIDE DEF S
<1> QED
  BY <1>1, <1>2, <1>3, TreeAssumption DEF TreeAssumption

LEMMA NotBelowParent ==
  ASSUME NEW b \in Block \ {Genesis}
  PROVE  Parent[b] \in Ancestors[b] /\ b \notin Ancestors[Parent[b]] /\ Parent[b] # b
<1>1. Parent[b] \in Block /\ Parent[b] \in Ancestors[b]
  BY AncestorsStep, AncestorsType, ParentInBlock
<1>2. Parent[b] # b
  BY Zenon, TreeAssumption, {b} \in SUBSET (Block \ {Genesis}) DEF TreeAssumption
<1> QED
  BY <1>1, <1>2, AncestorsAntisymmetric

\* The next block on the way from a up to b.
LEMMA ChildTowards ==
  \A b \in Block : \A a \in Ancestors[b] :
    a # b => \E c \in Block \ {Genesis} : Parent[c] = a /\ c \in Ancestors[b]
<1> DEFINE P(b) == \A a \in Ancestors[b] :
                     a # b => \E c \in Block \ {Genesis} : Parent[c] = a /\ c \in Ancestors[b]
           T == {b \in Block : P(b)}
<1>1. Genesis \in T
  BY AncestorsStep, ParentInBlock
<1>2. ASSUME NEW b \in Block \ {Genesis}, Parent[b] \in T PROVE b \in T
  <2> SUFFICES ASSUME NEW a \in Ancestors[b], a # b
               PROVE  \E c \in Block \ {Genesis} : Parent[c] = a /\ c \in Ancestors[b]
    OBVIOUS
  <2>1. Ancestors[b] = {b} \cup Ancestors[Parent[b]]
    BY AncestorsStep
  <2>2. CASE a = Parent[b]
    BY <2>1, <2>2
  <2>3. CASE a # Parent[b]
    BY <1>2, <2>1, <2>3
  <2> QED
    BY <2>2, <2>3
<1>3. T = Block
  <2> HIDE DEF T
  <2> QED
    BY Zenon, <1>1, <1>2, BlockInduction, T \in SUBSET Block DEF T
<1> QED
  BY <1>3

LEMMA HeightDefined ==
  Height = [b \in Block |-> IF b = Genesis THEN 0 ELSE Height[Parent[b]] + 1]
<1> DEFINE h == [b \in Block |-> Cardinality(Ancestors[b]) - 1]
<1>1. h[Genesis] = 0
  <2>1. Cardinality(Ancestors[Genesis]) = 1
    BY AncestorsStep, FS_Singleton, Zenon
  <2> QED
    BY <2>1, ParentInBlock
<1>2. ASSUME NEW b \in Block \ {Genesis} PROVE h[b] = h[Parent[b]] + 1
  <2>1. Parent[b] \in Block /\ IsFiniteSet(Ancestors[Parent[b]])
    BY ParentInBlock, AncestorsFinite
  <2>2. Ancestors[b] = Ancestors[Parent[b]] \cup {b}
    BY AncestorsStep
  <2>3. Cardinality(Ancestors[b]) = Cardinality(Ancestors[Parent[b]]) + 1
    BY Zenon, <2>1, <2>2, NotBelowParent, FS_AddElement
  <2>4. Cardinality(Ancestors[Parent[b]]) \in Nat
    BY <2>1, FS_CardinalityType
  <2> QED
    BY <2>1, <2>3, <2>4
<1> HIDE DEF h
<1>3. h = [b \in Block |-> IF b = Genesis THEN 0 ELSE h[Parent[b]] + 1]
  <2>1. h = [b \in Block |-> h[b]]
    BY DEF h
  <2> QED
    BY Zenon, <1>1, <1>2, <2>1
<1> QED
  BY Zenon, <1>3 DEF Height

LEMMA HeightStep ==
  /\ Height[Genesis] = 0
  /\ \A b \in Block \ {Genesis} : Height[b] = Height[Parent[b]] + 1
BY Zenon, HeightDefined, ParentInBlock

\* Heights are naturals that grow along a branch.
LEMMA HeightGrows ==
  \A b \in Block : /\ Height[b] \in Nat
                   /\ \A a \in Ancestors[b] : a = b \/ Height[a] < Height[b]
<1> DEFINE T == {b \in Block : /\ Height[b] \in Nat
                               /\ \A a \in Ancestors[b] :
                                    Height[a] \in Nat /\ (a = b \/ Height[a] < Height[b])}
<1>1. Genesis \in T
  BY AncestorsStep, HeightStep, ParentInBlock
<1>2. \A b \in Block \ {Genesis} : Parent[b] \in T => b \in T
  BY AncestorsStep, HeightStep
<1>3. T = Block
  <2> HIDE DEF T
  <2> QED
    BY Zenon, <1>1, <1>2, BlockInduction, T \in SUBSET Block DEF T
<1> QED
  BY <1>3

\* GetAncestor finds the one block of that height on the branch.
LEMMA GetAncestorIs ==
  ASSUME NEW b \in Block, NEW h \in 0..Height[b]
  PROVE  /\ GetAncestor(b, h) \in Ancestors[b] /\ Height[GetAncestor(b, h)] = h
         /\ \A a \in Ancestors[b] : Height[a] = h => a = GetAncestor(b, h)
<1> DEFINE P(c) == \A k \in 0..Height[c] : \E a \in Ancestors[c] : Height[a] = k
           T == {c \in Block : P(c)}
<1>1. Genesis \in T
  BY AncestorsStep, HeightStep, ParentInBlock
<1>2. ASSUME NEW c \in Block \ {Genesis}, Parent[c] \in T PROVE c \in T
  <2>1. /\ Ancestors[c] = {c} \cup Ancestors[Parent[c]] /\ Height[c] = Height[Parent[c]] + 1
        /\ Height[Parent[c]] \in Nat
    BY AncestorsStep, HeightStep, HeightGrows, ParentInBlock
  <2>2. \A k \in 0..Height[c] : k = Height[c] \/ k \in 0..Height[Parent[c]]
    BY <2>1
  <2> QED
    BY <1>2, <2>1, <2>2
<1>3. T = Block
  <2> HIDE DEF T
  <2> QED
    BY Zenon, <1>1, <1>2, BlockInduction, T \in SUBSET Block DEF T
<1>4. \E a \in Ancestors[b] : Height[a] = h
  BY <1>3
<1>5. \A a, c \in Ancestors[b] : Height[a] = Height[c] => a = c
  <2>1. \A a \in Ancestors[b] : a \in Block
    BY AncestorsType
  <2>2. \A a, c \in Ancestors[b] : a \in Ancestors[c] \/ c \in Ancestors[a]
    BY AncestorsLinear
  <2> QED
    BY <2>1, <2>2, HeightGrows
<1> QED
  BY <1>4, <1>5 DEF GetAncestor
=============================================================================
