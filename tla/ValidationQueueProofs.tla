------------------------ MODULE ValidationQueueProofs -----------------------
(***************************************************************************)
(* Proofs about the validation interface: the counts of the subscriber     *)
(* list are exact and Iterate skips nobody (SignalsInv is the inductive    *)
(* invariant), and the scheduler's client runs its callbacks in order and  *)
(* one at a time (ClientInv).                                              *)
(***************************************************************************)
EXTENDS ValidationQueue, FiniteSetTheorems, WellFoundedInduction, TLAPS

\* How many elements of S the function f sends to i.
Sent(S, f, i) == Cardinality({x \in S : f[x] = i})

\* How that number changes from f to g when only x's value does.
Moved(S, f, g, x, i) ==
  /\ Sent(S, f, i) \in Nat /\ Sent(S, g, i) \in Nat
  /\ f[x] = i /\ g[x] # i => Sent(S, f, i) = Sent(S, g, i) + 1
  /\ f[x] # i /\ g[x] = i => Sent(S, g, i) = Sent(S, f, i) + 1
  /\ f[x] # i /\ g[x] # i => Sent(S, g, i) = Sent(S, f, i)

LEMMA SentAfter ==
  ASSUME NEW S, IsFiniteSet(S), NEW f, NEW g, NEW i, NEW x \in S,
         \A y \in S \ {x} : g[y] = f[y]
  PROVE  Moved(S, f, g, x, i)
<1> DEFINE D == {y \in S \ {x} : f[y] = i}
           F == {y \in S : f[y] = i}
           G == {y \in S : g[y] = i}
<1>1. IsFiniteSet(D) /\ IsFiniteSet(F) /\ IsFiniteSet(G) /\ x \notin D
  BY FS_Subset
<1>2. Cardinality(D) \in Nat /\ Cardinality(F) \in Nat /\ Cardinality(G) \in Nat
  BY <1>1, FS_CardinalityType
<1>3. Cardinality(D \cup {x}) = Cardinality(D) + 1
  BY Zenon, <1>1, FS_AddElement
<1>4. /\ F = IF f[x] = i THEN D \cup {x} ELSE D
      /\ G = IF g[x] = i THEN D \cup {x} ELSE D
  OBVIOUS
<1>5. Sent(S, f, i) = Cardinality(F) /\ Sent(S, g, i) = Cardinality(G)
  BY DEF Sent
<1> HIDE DEF D, F, G
<1> QED
  BY <1>2, <1>3, <1>4, <1>5 DEF Moved

LEMMA SentNone ==
  ASSUME NEW S, NEW f, NEW i, \A x \in S : f[x] # i
  PROVE  Sent(S, f, i) = 0
BY FS_EmptySet, {x \in S : f[x] = i} = {} DEF Sent

LEMMA SentNat ==
  ASSUME NEW S, IsFiniteSet(S), NEW f, NEW i
  PROVE  /\ Sent(S, f, i) \in Nat
         /\ \A x \in S : f[x] = i => Sent(S, f, i) > 0
<1> DEFINE F == {y \in S : f[y] = i}
<1>1. IsFiniteSet(F)
  BY FS_Subset
<1>2. Cardinality(F) \in Nat /\ (Cardinality(F) = 0 <=> F = {})
  BY <1>1, FS_CardinalityType, FS_EmptySet
<1> QED
  BY <1>2 DEF Sent

LEMMA SentOne ==
  ASSUME NEW S, NEW f, NEW i, NEW x \in S, f[x] = i, \A y \in S : f[y] = i => y = x
  PROVE  Sent(S, f, i) = 1
BY FS_Singleton, {y \in S : f[y] = i} = {x} DEF Sent
-----------------------------------------------------------------------------
(* The subscriber list. *)

\* No two subscribers share an entry.
Distinct == \A s, u \in Subscriber : map[s] = map[u] /\ map[s] # 0 => s = u

SignalsInv == Signals!TypeOK /\ Distinct /\ CountExact

LEMMA ThreadsFinite == IsFiniteSet(Thread)
<1>1. IsFiniteSet(Worker \cup Caller)
  BY Zenon, ThreadsAssumption, FS_Union DEF ThreadsAssumption
<1>2. IsFiniteSet((Worker \cup Caller) \cup {Main})
  BY <1>1, FS_AddElement
<1> QED
  BY <1>2 DEF Thread, Client!Thread

LEMMA SameCardinality == \A S : Signals!Cardinality(S) = Cardinality(S)
BY DEF Signals!Cardinality, Cardinality

\* The count of an entry in terms of Sent.
LEMMA CountSent ==
  CountExact <=> \A i \in DOMAIN count : count[i] = Sent(Thread, at, i) + Sent(Subscriber, map, i)
BY SameCardinality DEF CountExact, Signals!CountExact, Sent, Thread

LEMMA SignalsTypes ==
  ASSUME SignalsInv
  PROVE  /\ Len(count) \in Nat /\ DOMAIN count = 1..Len(count)
         /\ \A i \in 1..Len(count) : count[i] \in Nat
         /\ map \in [Subscriber -> 0..Len(count)] /\ at \in [Thread -> 0..Len(count)]
         /\ \A i \in 1..Len(count) : count[i] = Sent(Thread, at, i) + Sent(Subscriber, map, i)
<1>1. count \in Seq(Nat) /\ map \in [Subscriber -> 0..Len(count)] /\ at \in [Thread -> 0..Len(count)]
  BY DEF SignalsInv, Signals!TypeOK, Thread
<1>2. Len(count) \in Nat /\ DOMAIN count = 1..Len(count) /\ \A i \in 1..Len(count) : count[i] \in Nat
  BY <1>1
<1>3. \A i \in DOMAIN count : count[i] = Sent(Thread, at, i) + Sent(Subscriber, map, i)
  BY CountSent DEF SignalsInv
<1> QED
  BY <1>1, <1>2, <1>3

\* The converse, for the state after a step.
LEMMA SignalsNext ==
  ASSUME NEW n \in Nat, n <= MaxEntries,
         count' \in [1..n -> Nat],
         map' \in [Subscriber -> 0..n], at' \in [Thread -> 0..n],
         Distinct',
         \A i \in 1..n : count'[i] = Sent(Thread, at', i) + Sent(Subscriber, map', i)
  PROVE  SignalsInv'
<1>1. count' \in Seq(Nat) /\ Len(count') = n /\ DOMAIN count' = 1..n
  OBVIOUS
<1>2. CountExact'
  BY <1>1, SameCardinality DEF CountExact, Signals!CountExact, Sent, Thread
<1> QED
  BY <1>1, <1>2 DEF SignalsInv, Signals!TypeOK, Thread

\* Every inhabited set of naturals has a least member.
LEMMA LeastNat ==
  ASSUME NEW T \in SUBSET Nat, T # {}
  PROVE  \E x \in T : \A y \in T : x <= y
<1> DEFINE R == OpToRel(<, Nat)
<1>1. IsWellFoundedOn(R, Nat)
  BY Zenon, NatLessThanWellFounded
<1>2. \A x, y \in Nat : <<y, x>> \notin R => x <= y
  BY DEF OpToRel
<1> HIDE DEF R
<1>3. PICK x \in T : \A y \in T : <<y, x>> \notin R
  BY <1>1, WFMin, Zenon
<1> QED
  BY Zenon, <1>2, <1>3

\* The first listed entry after i.
LEMMA NextEntryIs ==
  ASSUME NEW n \in Nat, NEW c \in [1..n -> Nat], NEW i \in 0..n
  PROVE  LET j == Signals!NextEntry(c, i)
         IN  /\ j \in 0..n
             /\ j # 0 => j > i /\ c[j] > 0
             /\ \A k \in 1..n : k > i /\ c[k] > 0 => j # 0 /\ j <= k
<1> DEFINE After == {j \in 1..n : j > i /\ c[j] > 0}
<1>1. Signals!Listed(c) = {j \in 1..n : c[j] > 0}
  BY DEF Signals!Listed
<1>2. CASE After = {}
  BY <1>1, <1>2 DEF Signals!NextEntry
<1>3. CASE After # {}
  <2>1. PICK j \in After : \A k \in After : j <= k
    <3>1. After \in SUBSET Nat
      OBVIOUS
    <3> HIDE DEF After
    <3> QED
      BY <1>3, <3>1, LeastNat
  <2>2. \E k \in Signals!Listed(c) : k > i
    BY <1>1, <1>3
  <2>3. \E k \in Signals!Listed(c) : k > i /\ \A l \in Signals!Listed(c) : l > i => k <= l
    BY <1>1, <2>1
  <2>4. LET k == Signals!NextEntry(c, i)
        IN  k \in Signals!Listed(c) /\ k > i /\ \A l \in Signals!Listed(c) : l > i => k <= l
    BY <2>2, <2>3 DEF Signals!NextEntry
  <2> QED
    BY <1>1, <2>4
<1> QED
  BY <1>2, <1>3
-----------------------------------------------------------------------------
LEMMA RegisterKeeps ==
  ASSUME SignalsInv, NEW s \in Subscriber, Signals!Register(s)
  PROVE  SignalsInv'
<1> DEFINE n == Len(count) + 1
<1>0. IsFiniteSet(Subscriber) /\ MaxEntries \in Nat
  BY ThreadsAssumption DEF ThreadsAssumption
<1>1. /\ Len(count) \in Nat /\ DOMAIN count = 1..Len(count)
      /\ \A i \in 1..Len(count) : count[i] \in Nat
      /\ map \in [Subscriber -> 0..Len(count)] /\ at \in [Thread -> 0..Len(count)]
      /\ \A i \in 1..Len(count) : count[i] = Sent(Thread, at, i) + Sent(Subscriber, map, i)
  BY SignalsTypes
<1>2. /\ map[s] = 0 /\ Len(count) < MaxEntries
      /\ map' = [map EXCEPT ![s] = n] /\ at' = at
      /\ count' = Append(count, 1)
  BY DEF Signals!Register
<1>6. count' \in [1..n -> Nat] /\ count'[n] = 1 /\ \A i \in 1..Len(count) : count'[i] = count[i]
  <2>1. count \in Seq(Nat)
    BY DEF SignalsInv, Signals!TypeOK
  <2>2. count' \in Seq(Nat) /\ Len(count') = n
    BY <1>2, <2>1
  <2>3. count'[n] = 1 /\ \A i \in 1..Len(count) : count'[i] = count[i]
    BY <1>2, <2>1
  <2> QED
    BY <2>2, <2>3
<1>3. Distinct'
  BY <1>1, <1>2 DEF Distinct, SignalsInv
<1>4. \A i \in 1..n : count'[i] = Sent(Thread, at', i) + Sent(Subscriber, map', i)
  <2> TAKE i \in 1..n
  <2>1. /\ Sent(Subscriber, map, i) \in Nat /\ Sent(Subscriber, map', i) \in Nat
        /\ i = n => Sent(Subscriber, map', i) = Sent(Subscriber, map, i) + 1
        /\ i # n => Sent(Subscriber, map', i) = Sent(Subscriber, map, i)
    <3>1. map'[s] = n /\ \A u \in Subscriber \ {s} : map'[u] = map[u]
      BY <1>1, <1>2
    <3>2. Moved(Subscriber, map, map', s, i)
      BY <1>0, <3>1, SentAfter, Zenon
    <3> QED
      BY <1>1, <1>2, <3>1, <3>2 DEF Moved
  <2>2. i = n => Sent(Subscriber, map, i) = 0 /\ Sent(Thread, at, i) = 0
    BY <1>1, SentNone
  <2> QED
    BY <1>1, <1>2, <1>6, <2>1, <2>2
<1>5. n \in Nat /\ n <= MaxEntries /\ map' \in [Subscriber -> 0..n] /\ at' \in [Thread -> 0..n]
  BY <1>0, <1>1, <1>2
<1> HIDE DEF n
<1> QED
  BY <1>3, <1>4, <1>5, <1>6, SignalsNext

LEMMA UnregisterKeeps ==
  ASSUME SignalsInv, NEW s \in Subscriber, Signals!Unregister(s)
  PROVE  SignalsInv'
<1> DEFINE n == Len(count)
<1>0. IsFiniteSet(Subscriber) /\ IsFiniteSet(Thread)
  BY ThreadsAssumption, ThreadsFinite DEF ThreadsAssumption
<1>1. /\ n \in Nat /\ n <= MaxEntries /\ DOMAIN count = 1..n
      /\ \A i \in 1..n : count[i] \in Nat
      /\ map \in [Subscriber -> 0..n] /\ at \in [Thread -> 0..n]
      /\ \A i \in 1..n : count[i] = Sent(Thread, at, i) + Sent(Subscriber, map, i)
  BY SignalsTypes DEF SignalsInv, Signals!TypeOK
<1>2. /\ map[s] \in 1..n /\ map'[s] = 0 /\ \A u \in Subscriber \ {s} : map'[u] = map[u]
      /\ map' \in [Subscriber -> 0..n] /\ at' = at
  BY <1>1 DEF Signals!Unregister
<1>3. DOMAIN count' = 1..n /\ \A i \in 1..n : count'[i] = IF i = map[s] THEN count[i] - 1 ELSE count[i]
  BY <1>1, <1>2 DEF Signals!Unregister, SignalsInv, Signals!TypeOK
<1>4. \A i \in 1..n : Sent(Thread, at, i) \in Nat /\ Sent(Subscriber, map', i) \in Nat
  BY <1>0, SentNat
<1>5. \A i \in 1..n : count'[i] = Sent(Thread, at', i) + Sent(Subscriber, map', i)
  <2> TAKE i \in 1..n
  <2>1. /\ i = map[s] => Sent(Subscriber, map, i) = Sent(Subscriber, map', i) + 1
        /\ i # map[s] => Sent(Subscriber, map', i) = Sent(Subscriber, map, i)
    <3>1. i # 0
      BY <1>1
    <3>2. Moved(Subscriber, map, map', s, i)
      BY <1>0, <1>2, SentAfter, Zenon
    <3> QED
      BY <1>2, <3>1, <3>2 DEF Moved
  <2> QED
    BY <1>1, <1>2, <1>3, <1>4, <2>1
<1>6. count' \in [1..n -> Nat]
  <2>1. \A i \in 1..n : count'[i] \in Nat
    BY <1>2, <1>4, <1>5
  <2>2. count' = [i \in 1..n |-> count'[i]]
    BY Zenon, <1>1, <1>3 DEF Signals!Unregister, SignalsInv, Signals!TypeOK
  <2> QED
    BY <2>1, <2>2
<1>7. Distinct'
  BY <1>1, <1>2 DEF Distinct, SignalsInv
<1> HIDE DEF n
<1> QED
  BY Zenon, <1>1, <1>2, <1>5, <1>6, <1>7, SignalsNext

LEMMA ClearKeeps ==
  ASSUME SignalsInv, Signals!Clear
  PROVE  SignalsInv'
<1> DEFINE n == Len(count)
<1>0. IsFiniteSet(Subscriber) /\ IsFiniteSet(Thread)
  BY ThreadsAssumption, ThreadsFinite DEF ThreadsAssumption
<1>1. /\ n \in Nat /\ n <= MaxEntries /\ DOMAIN count = 1..n
      /\ \A i \in 1..n : count[i] \in Nat
      /\ map \in [Subscriber -> 0..n] /\ at \in [Thread -> 0..n]
      /\ \A i \in 1..n : count[i] = Sent(Thread, at, i) + Sent(Subscriber, map, i)
  BY SignalsTypes DEF SignalsInv, Signals!TypeOK
<1>2. /\ map' = [s \in Subscriber |-> 0] /\ at' = at
      /\ count' = [i \in 1..n |-> IF \E s \in Subscriber : map[s] = i THEN count[i] - 1 ELSE count[i]]
  BY <1>1 DEF Signals!Clear
<1>3. \A i \in 1..n : /\ Sent(Thread, at, i) \in Nat
                      /\ Sent(Subscriber, map', i) = 0
                      /\ Sent(Subscriber, map, i) = IF \E s \in Subscriber : map[s] = i THEN 1 ELSE 0
  <2> TAKE i \in 1..n
  <2>1. Sent(Thread, at, i) \in Nat
    BY <1>0, SentNat
  <2>2. Sent(Subscriber, map', i) = 0
    BY <1>2, SentNone
  <2>3. CASE \E s \in Subscriber : map[s] = i
    <3>1. PICK s \in Subscriber : map[s] = i
      BY <2>3
    <3>2. \A u \in Subscriber : map[u] = i => u = s
      BY <3>1 DEF SignalsInv, Distinct
    <3>3. Sent(Subscriber, map, i) = 1
      BY <3>1, <3>2, SentOne
    <3> QED
      BY <2>1, <2>2, <2>3, <3>3
  <2>4. CASE \A s \in Subscriber : map[s] # i
    BY <2>1, <2>2, <2>4, SentNone
  <2> QED
    BY <2>3, <2>4
<1>4. \A i \in 1..n : count'[i] = Sent(Thread, at', i) + Sent(Subscriber, map', i)
  <2> TAKE i \in 1..n
  <2>1. count'[i] = IF \E s \in Subscriber : map[s] = i THEN count[i] - 1 ELSE count[i]
    BY <1>2
  <2>2. count[i] = Sent(Thread, at, i) + Sent(Subscriber, map, i)
    BY <1>1
  <2>3. Sent(Thread, at', i) = Sent(Thread, at, i)
    BY <1>2
  <2>4. /\ Sent(Thread, at, i) \in Nat /\ Sent(Subscriber, map', i) = 0
        /\ Sent(Subscriber, map, i) = IF \E s \in Subscriber : map[s] = i THEN 1 ELSE 0
    BY <1>3
  <2> QED
    BY <2>1, <2>2, <2>3, <2>4
<1>5. count' \in [1..n -> Nat] /\ map' \in [Subscriber -> 0..n] /\ at' \in [Thread -> 0..n]
  <2>1. \A i \in 1..n : count'[i] \in Nat
    <3>1. \A i \in 1..n : Sent(Thread, at', i) \in Nat /\ Sent(Subscriber, map', i) = 0
      BY <1>2, <1>3, Zenon
    <3> QED
      BY <1>4, <3>1
  <2> QED
    BY <1>1, <1>2, <2>1
<1>6. Distinct'
  BY <1>2 DEF Distinct
<1> HIDE DEF n
<1> QED
  BY Zenon, <1>1, <1>4, <1>5, <1>6, SignalsNext

\* A thread lets go of the entry it is at, if any, and takes hold of entry j.
LEMMA HoldKeeps ==
  ASSUME SignalsInv, NEW t \in Thread, NEW j \in 0..Len(count), at[t] # 0 => at[t] # j,
         at' \in [Thread -> 0..Len(count)], at'[t] = j, \A u \in Thread \ {t} : at'[u] = at[u],
         map' = map, count' \in [1..Len(count) -> Int],
         \A i \in 1..Len(count) :
            count'[i] = IF i = at[t] THEN count[i] - 1 ELSE IF i = j THEN count[i] + 1 ELSE count[i]
  PROVE  SignalsInv'
<1> DEFINE n == Len(count)
<1>0. IsFiniteSet(Subscriber) /\ IsFiniteSet(Thread)
  BY ThreadsAssumption, ThreadsFinite DEF ThreadsAssumption
<1>1. /\ n \in Nat /\ n <= MaxEntries
      /\ \A i \in 1..n : count[i] \in Nat
      /\ map \in [Subscriber -> 0..n] /\ at \in [Thread -> 0..n]
      /\ \A i \in 1..n : count[i] = Sent(Thread, at, i) + Sent(Subscriber, map, i)
  BY SignalsTypes DEF SignalsInv, Signals!TypeOK
<1>3. \A i \in 1..n : Moved(Thread, at, at', t, i)
  BY <1>0, SentAfter, Zenon
<1>4. \A i \in 1..n : Sent(Thread, at', i) \in Nat /\ Sent(Subscriber, map, i) \in Nat
  BY <1>0, SentNat
<1>5. \A i \in 1..n : count'[i] = Sent(Thread, at', i) + Sent(Subscriber, map, i)
  <2> TAKE i \in 1..n
  <2>1. i = at[t] => Sent(Thread, at, i) = Sent(Thread, at', i) + 1
    BY <1>1, <1>3, i # 0 DEF Moved
  <2>2. i # at[t] /\ i = j => Sent(Thread, at', i) = Sent(Thread, at, i) + 1
    BY <1>3 DEF Moved
  <2>3. i # at[t] /\ i # j => Sent(Thread, at', i) = Sent(Thread, at, i)
    BY <1>3 DEF Moved
  <2>4. Sent(Thread, at, i) \in Nat
    BY <1>3 DEF Moved
  <2>5. count[i] = Sent(Thread, at, i) + Sent(Subscriber, map, i)
    BY <1>1
  <2>6. count'[i] = IF i = at[t] THEN count[i] - 1 ELSE IF i = j THEN count[i] + 1 ELSE count[i]
    OBVIOUS
  <2>7. Sent(Thread, at', i) \in Nat /\ Sent(Subscriber, map, i) \in Nat
    BY <1>4
  <2> HIDE DEF n
  <2> QED
    BY <2>1, <2>2, <2>3, <2>4, <2>5, <2>6, <2>7
<1>6. count' \in [1..n -> Nat]
  <2>1. \A i \in 1..n : count'[i] \in Nat
    BY <1>4, <1>5
  <2> QED
    BY <2>1
<1>7. Distinct' /\ map' \in [Subscriber -> 0..n]
  BY <1>1 DEF Distinct, SignalsInv
<1>8. \A i \in 1..n : count'[i] = Sent(Thread, at', i) + Sent(Subscriber, map', i)
  BY <1>5
<1>9. at' \in [Thread -> 0..n]
  OBVIOUS
<1> HIDE DEF n
<1> QED
  BY Zenon, <1>1, <1>6, <1>7, <1>8, <1>9, SignalsNext

\* An entry that is registered, or that a thread is at, is listed.
LEMMA HeldListed ==
  ASSUME SignalsInv
  PROVE  /\ \A t \in Thread : at[t] # 0 => count[at[t]] > 0
         /\ \A s \in Subscriber : map[s] # 0 => count[map[s]] > 0
<1>0. IsFiniteSet(Subscriber) /\ IsFiniteSet(Thread)
  BY ThreadsAssumption, ThreadsFinite DEF ThreadsAssumption
<1>1. /\ map \in [Subscriber -> 0..Len(count)] /\ at \in [Thread -> 0..Len(count)]
      /\ \A i \in 1..Len(count) : count[i] = Sent(Thread, at, i) + Sent(Subscriber, map, i)
      /\ Len(count) \in Nat
  BY SignalsTypes
<1>2. \A i : Sent(Thread, at, i) \in Nat /\ Sent(Subscriber, map, i) \in Nat
  BY <1>0, SentNat
<1>3. \A t \in Thread : Sent(Thread, at, at[t]) > 0
  BY <1>0, SentNat
<1>4. \A s \in Subscriber : Sent(Subscriber, map, map[s]) > 0
  BY <1>0, SentNat
<1>5. ASSUME NEW t \in Thread, at[t] # 0 PROVE count[at[t]] > 0
  <2>1. at[t] \in 1..Len(count)
    BY <1>1, <1>5
  <2> QED
    BY <1>1, <1>2, <1>3, <2>1
<1>6. ASSUME NEW s \in Subscriber, map[s] # 0 PROVE count[map[s]] > 0
  <2>1. map[s] \in 1..Len(count)
    BY <1>1, <1>6
  <2> QED
    BY <1>1, <1>2, <1>4, <2>1
<1> QED
  BY <1>5, <1>6

\* A step of Iterate: t goes from entry to entry and passes over no registered one.
Iterates(t) ==
  /\ map' = map
  /\ \A u \in Thread \ {t} : at'[u] = at[u]
  /\ \A s \in Subscriber : ~ (map[s] > at[t] /\ (at'[t] = 0 \/ map[s] < at'[t]))

\* Taking hold of the next entry of c, the counts after t let go of its own.
LEMMA EnterKeeps ==
  ASSUME SignalsInv, NEW t \in Thread, NEW c \in [1..Len(count) -> Nat],
         \A i \in 1..Len(count) : c[i] = IF i = at[t] THEN count[i] - 1 ELSE count[i],
         Signals!Enter(t, c, Signals!NextEntry(c, at[t]))
  PROVE  SignalsInv' /\ Iterates(t)
<1> DEFINE n == Len(count)
           j == Signals!NextEntry(c, at[t])
<1>1. /\ n \in Nat /\ \A i \in 1..n : count[i] \in Nat
      /\ map \in [Subscriber -> 0..n] /\ at \in [Thread -> 0..n]
  BY SignalsTypes
<1>2. /\ j \in 0..n
      /\ j # 0 => j > at[t] /\ c[j] > 0
      /\ \A k \in 1..n : k > at[t] /\ c[k] > 0 => j # 0 /\ j <= k
  BY Zenon, <1>1, NextEntryIs
<1>3. /\ at' = [at EXCEPT ![t] = j] /\ map' = map
      /\ count' = IF j = 0 THEN c ELSE [c EXCEPT ![j] = @ + 1]
  BY DEF Signals!Enter
<1> HIDE DEF j
<1>4. at' \in [Thread -> 0..n] /\ at'[t] = j /\ \A u \in Thread \ {t} : at'[u] = at[u]
  BY <1>1, <1>2, <1>3
<1>5. SignalsInv'
  <2>1. count' \in [1..n -> Int]
    BY <1>2, <1>3
  <2>2. \A i \in 1..n : count'[i] = IF i = j THEN c[i] + 1 ELSE c[i]
    BY <1>2, <1>3
  <2>3. at[t] # 0 => at[t] # j
    BY <1>1, <1>2
  <2>4. \A i \in 1..n : count'[i] = IF i = at[t] THEN count[i] - 1 ELSE IF i = j THEN count[i] + 1 ELSE count[i]
    BY <1>1, <2>2, <2>3
  <2> QED
    BY <1>2, <1>3, <1>4, <2>1, <2>3, <2>4, HoldKeeps
<1>6. \A s \in Subscriber : ~ (map[s] > at[t] /\ (at'[t] = 0 \/ map[s] < at'[t]))
  <2> SUFFICES ASSUME NEW s \in Subscriber, map[s] > at[t]
               PROVE  j # 0 /\ j <= map[s]
    BY <1>1, <1>2, <1>4
  <2>1. map[s] \in 1..n /\ map[s] # at[t]
    BY <1>1
  <2>2. count[map[s]] > 0
    BY <2>1, HeldListed
  <2> QED
    BY <1>2, <2>1, <2>2
<1> QED
  BY <1>3, <1>4, <1>5, <1>6 DEF Iterates

LEMMA BeginKeeps ==
  ASSUME SignalsInv, NEW t \in Thread, Signals!Begin(t)
  PROVE  SignalsInv' /\ Iterates(t)
<1>1. /\ Len(count) \in Nat /\ \A i \in 1..Len(count) : count[i] \in Nat
      /\ count \in [1..Len(count) -> Nat]
  BY SignalsTypes DEF SignalsInv, Signals!TypeOK
<1>2. at[t] = 0 /\ Signals!Enter(t, count, Signals!NextEntry(count, at[t]))
  BY DEF Signals!Begin
<1> QED
  BY <1>1, <1>2, EnterKeeps

LEMMA AdvanceKeeps ==
  ASSUME SignalsInv, NEW t \in Thread, Signals!Advance(t)
  PROVE  SignalsInv' /\ Iterates(t)
<1> DEFINE c == [count EXCEPT ![at[t]] = @ - 1]
<1>1. /\ Len(count) \in Nat /\ count \in [1..Len(count) -> Nat]
      /\ at \in [Thread -> 0..Len(count)]
  BY SignalsTypes DEF SignalsInv, Signals!TypeOK
<1>2. at[t] # 0 /\ Signals!Enter(t, c, Signals!NextEntry(c, at[t]))
  BY DEF Signals!Advance
<1>3. count[at[t]] > 0
  BY <1>2, HeldListed
<1>4. /\ c \in [1..Len(count) -> Nat]
      /\ \A i \in 1..Len(count) : c[i] = IF i = at[t] THEN count[i] - 1 ELSE count[i]
  BY <1>1, <1>2, <1>3
<1> HIDE DEF c
<1> QED
  BY <1>2, <1>4, EnterKeeps

\* What a step of the whole does to the list of subscribers.
LEMMA SignalsAction ==
  ASSUME [Next]_vars
  PROVE  \/ \E s \in Subscriber : Signals!Register(s) \/ Signals!Unregister(s)
         \/ Signals!Clear
         \/ \E t \in Thread : Signals!Begin(t) \/ Signals!Advance(t)
         \/ UNCHANGED signalVars
<1>1. Caller \subseteq Thread
  BY DEF Thread, Client!Thread
<1>2. ASSUME NEW t \in Thread, Moves(t)
      PROVE  Signals!Begin(t) \/ Signals!Advance(t) \/ UNCHANGED signalVars
  BY <1>2 DEF Moves, ClientStep, EventBegins, EventAdvances, EventEnds, SyncAdvances
<1>3. ASSUME NEW c \in Caller, CallerAdds(c) \/ CallerSyncs(c) \/ SyncBegins(c)
      PROVE  Signals!Begin(c) \/ UNCHANGED signalVars
  BY <1>3 DEF CallerAdds, CallerSyncs, SyncBegins
<1>4. ASSUME NEW s \in Subscriber, Register(s) \/ Unregister(s)
      PROVE  Signals!Register(s) \/ Signals!Unregister(s)
  BY <1>4 DEF Register, Unregister
<1>5. UnregisterAll => Signals!Clear
  BY DEF UnregisterAll
<1>6. Shutdown \/ Stopped \/ UNCHANGED vars => UNCHANGED signalVars
  BY DEF Shutdown, Stopped, vars
<1> QED
  BY <1>1, <1>2, <1>3, <1>4, <1>5, <1>6, Zenon DEF Next

LEMMA SignalsStep ==
  ASSUME SignalsInv, [Next]_vars
  PROVE  SignalsInv'
<1>1. ASSUME UNCHANGED signalVars PROVE SignalsInv'
  BY <1>1 DEF signalVars, SignalsInv, Signals!TypeOK, Distinct, CountExact, Signals!CountExact
<1> QED
  BY <1>1, SignalsAction, RegisterKeeps, UnregisterKeeps, ClearKeeps, BeginKeeps, AdvanceKeeps, Zenon

LEMMA SignalsInit == Init => SignalsInv
<1> SUFFICES ASSUME Init PROVE SignalsInv
  OBVIOUS
<1>1. count = <<>> /\ map = [s \in Subscriber |-> 0] /\ at = [t \in Thread |-> 0]
  BY DEF Init, Signals!Init, Thread
<1>2. Signals!TypeOK
  BY <1>1, ThreadsAssumption DEF Signals!TypeOK, Thread, ThreadsAssumption
<1>3. DOMAIN count = {}
  BY <1>1
<1> QED
  BY <1>1, <1>2, <1>3 DEF SignalsInv, Distinct, CountExact, Signals!CountExact

LEMMA SignalsAlways == Spec => []SignalsInv
BY SignalsInit, SignalsStep, PTL DEF Spec

(* For any subscribers and threads: ListEntry::count is the number of threads
   running the entry's functions plus one while it is registered, whatever
   Register, Unregister, UnregisterAll and Iterate do at the same time. *)
THEOREM ListEntryCountExact == Spec => []CountExact
<1>1. SignalsInv => CountExact
  BY DEF SignalsInv
<1> QED
  BY <1>1, SignalsAlways, PTL

\* No step of a thread passes over a registered subscriber.
LEMMA SkipsNone ==
  ASSUME SignalsInv, [Next]_vars
  PROVE  [\A t \in Thread : at'[t] # at[t] =>
            \A s \in Subscriber : ~ (map[s] > at[t] /\ (at'[t] = 0 \/ map[s] < at'[t]))]_signalVars
<1>1. CASE \E t \in Thread : Signals!Begin(t) \/ Signals!Advance(t)
  <2>1. PICK t \in Thread : Iterates(t)
    BY <1>1, BeginKeeps, AdvanceKeeps, Zenon
  <2> QED
    BY <2>1 DEF Iterates
<1>2. CASE \E s \in Subscriber : Signals!Register(s) \/ Signals!Unregister(s)
  BY <1>2 DEF Signals!Register, Signals!Unregister
<1>3. CASE Signals!Clear
  BY <1>3 DEF Signals!Clear
<1> QED
  BY <1>1, <1>2, <1>3, SignalsAction

(* CMainSignals::Iterate calls every subscriber that stays registered, also when
   the entry it stands on, or any other, is unregistered while a function runs. *)
THEOREM IterateSkipsNone == Spec => NoneSkipped
<1>1. ASSUME SignalsInv, [Next]_vars
      PROVE  [\A t \in Client!Thread : at'[t] # at[t] =>
                \A s \in Subscriber : ~ (map[s] > at[t] /\ (at'[t] = 0 \/ map[s] < at'[t]))]_Signals!signalVars
  BY <1>1, SkipsNone DEF Thread, signalVars, Signals!signalVars
<1> QED
  BY <1>1, SignalsAlways, PTL DEF Spec, NoneSkipped, Signals!NoneSkipped
-----------------------------------------------------------------------------
(* The queue of events. *)

Place == Client!ServiceStates \cup Client!ProcessStates \cup Client!ShutdownStates \cup {"idle", "sync"}
InCallback == {"call", "reset"}
BeforeFlush == {"up", "stopping", "join", "flush"}

\* m_are_callbacks_running admits one thread at a time to a callback, and a
\* thread has a callback in its hands just while it runs it.
OneRuns ==
  /\ \A t, u \in Thread : pc[t] \in InCallback /\ pc[u] \in InCallback => t = u
  /\ (\E t \in Thread : pc[t] \in InCallback) => running = TRUE
  /\ \A t \in Thread : callback[t] # 0 <=> pc[t] = "call"

ClientInv ==
  /\ Client!TypeOK
  /\ OneRuns
  /\ pc[Main] \in BeforeFlush => added < MaxEvents

active == {callback[t] : t \in Thread} \ {0}

\* Threads move on outside the callbacks.
Walk ==
  /\ pc' \in [Thread -> Place]
  /\ \A t \in Thread : pc'[t] # pc[t] => pc[t] \notin InCallback /\ pc'[t] \notin InCallback
  /\ pc'[Main] \in BeforeFlush => pc[Main] \in BeforeFlush

\* A step that neither touches the queue nor starts or ends a callback.
Aside ==
  /\ UNCHANGED <<pending, running, callback, added, awaited>>
  /\ tasks' \in Nat /\ stopRequested' \in BOOLEAN
  /\ Walk

LEMMA AsideKeeps ==
  ASSUME ClientInv, Aside
  PROVE  ClientInv' /\ UNCHANGED <<added, pending, active>>
<1>1. Client!TypeOK'
  BY DEF ClientInv, Client!TypeOK, Aside, Walk, Place, Thread
<1>2. \A t \in Thread : /\ pc'[t] \in InCallback <=> pc[t] \in InCallback
                        /\ pc'[t] = "call" <=> pc[t] = "call"
  BY DEF Aside, Walk, InCallback
<1>3. OneRuns'
  BY <1>2 DEF ClientInv, OneRuns, Aside
<1>4. (pc[Main] \in BeforeFlush => added < MaxEvents)'
  BY DEF ClientInv, Aside, Walk
<1>5. UNCHANGED <<added, pending, active>>
  BY DEF Aside, active
<1> QED
  BY <1>1, <1>3, <1>4, <1>5 DEF ClientInv

LEMMA GoWalks ==
  ASSUME ClientInv, NEW t \in Thread, NEW p \in Place \ InCallback,
         pc[t] \notin InCallback, Client!Go(t, p),
         t = Main /\ p \in BeforeFlush => pc[Main] \in BeforeFlush
  PROVE  Walk
<1>1. pc \in [Thread -> Place] /\ pc' = [pc EXCEPT ![t] = p]
  BY DEF ClientInv, Client!TypeOK, Place, Thread, Client!Go
<1> QED
  BY <1>1 DEF Walk, Thread, Client!Thread

LEMMA BackPlace ==
  ASSUME NEW t \in Thread
  PROVE  Client!Back(t) \in Place \ (InCallback \cup BeforeFlush)
BY DEF Client!Back, Place, InCallback, BeforeFlush, Client!ServiceStates, Client!ProcessStates, Client!ShutdownStates

LEMMA NotifyWalks ==
  ASSUME ClientInv, NEW t \in Thread, NEW p \in Place \ (InCallback \cup BeforeFlush),
         pc[t] \notin InCallback, pc[t] \notin {"wait", "due"}, Client!GoNotifying(t, p)
  PROVE  Walk
<1>1. pc \in [Thread -> Place] /\ Worker \subseteq Thread /\ Main \in Thread \ Worker
  BY ThreadsAssumption DEF ClientInv, Client!TypeOK, Place, Thread, Client!Thread, ThreadsAssumption
<1>2. CASE Client!Go(t, p)
  BY <1>2, GoWalks
<1>3. ASSUME NEW w \in Client!Sleepers, pc' = [pc EXCEPT ![t] = p, ![w] = Client!Woken(w)]
      PROVE  Walk
  <2>1. w \in Worker /\ pc[w] \in {"wait", "due"} /\ w # t
    BY DEF Client!Sleepers
  <2>2. Client!Woken(w) \in Place \ InCallback
    BY <2>1 DEF Client!Woken, Place, InCallback, Client!ServiceStates
  <2>3. pc[w] \notin InCallback
    BY <2>1 DEF InCallback
  <2>4. /\ pc' \in [Thread -> Place]
        /\ pc'[t] = p /\ pc'[w] = Client!Woken(w) /\ \A u \in Thread \ {t, w} : pc'[u] = pc[u]
    BY <1>1, <1>3, <2>1, <2>2
  <2> QED
    BY <1>1, <2>1, <2>2, <2>3, <2>4 DEF Walk
<1> QED
  BY <1>2, <1>3 DEF Client!GoNotifying

LEMMA ServiceAside ==
  ASSUME ClientInv, NEW w \in Worker,
         Client!Service(w) \/ Client!Leave(w) \/ Client!TakeTask(w) \/ Client!SpuriousWakeup(w)
  PROVE  Aside
<1> USE DEF Place, InCallback, BeforeFlush, Client!ServiceStates, Client!ProcessStates, Client!ShutdownStates
<1>1. w \in Thread /\ tasks \in Nat /\ stopRequested \in BOOLEAN
  BY DEF Thread, Client!Thread, ClientInv, Client!TypeOK
<1>2. CASE Client!Service(w)
  <2>1. Walk
    BY <1>1, <1>2, GoWalks DEF Client!Service
  <2> QED
    BY <1>1, <1>2, <2>1 DEF Client!Service, Aside, Client!schedulerVars, Client!clientVars
<1>3. CASE Client!Leave(w)
  <2>1. Walk
    BY <1>1, <1>3, NotifyWalks DEF Client!Leave
  <2> QED
    BY <1>1, <1>3, <2>1 DEF Client!Leave, Aside, Client!schedulerVars, Client!clientVars
<1>4. CASE Client!TakeTask(w)
  <2>1. Walk
    BY <1>1, <1>4, GoWalks DEF Client!TakeTask
  <2> QED
    BY <1>1, <1>4, <2>1 DEF Client!TakeTask, Aside, Client!clientVars
<1>5. CASE Client!SpuriousWakeup(w)
  <2>1. Walk
    BY <1>1, <1>5, GoWalks DEF Client!SpuriousWakeup
  <2> QED
    BY <1>1, <1>5, <2>1 DEF Client!SpuriousWakeup, Aside, Client!schedulerVars, Client!clientVars
<1> QED
  BY <1>2, <1>3, <1>4, <1>5

LEMMA ScheduleAside ==
  ASSUME ClientInv, NEW t \in Thread,
         Client!MaybeScheduleProcessQueue(t) \/ Client!Schedule(t) \/ Client!NotifyOne(t)
  PROVE  Aside
<1> USE DEF Place, InCallback, BeforeFlush, Client!ServiceStates, Client!ProcessStates, Client!ShutdownStates
<1>1. tasks \in Nat /\ stopRequested \in BOOLEAN
  BY DEF ClientInv, Client!TypeOK
<1>2. CASE Client!MaybeScheduleProcessQueue(t)
  <2>1. Walk
    BY <1>2, GoWalks, BackPlace DEF Client!MaybeScheduleProcessQueue
  <2> QED
    BY <1>1, <1>2, <2>1 DEF Client!MaybeScheduleProcessQueue, Aside, Client!schedulerVars, Client!clientVars
<1>3. CASE Client!Schedule(t)
  <2>1. Walk
    BY <1>3, GoWalks DEF Client!Schedule
  <2> QED
    BY <1>1, <1>3, <2>1 DEF Client!Schedule, Aside, Client!clientVars
<1>4. CASE Client!NotifyOne(t)
  <2>1. Walk
    BY <1>4, NotifyWalks, BackPlace DEF Client!NotifyOne
  <2> QED
    BY <1>1, <1>4, <2>1 DEF Client!NotifyOne, Aside, Client!schedulerVars, Client!clientVars
<1> QED
  BY <1>2, <1>3, <1>4

LEMMA ShutdownAside ==
  ASSUME ClientInv,
         Client!StopScheduler \/ Client!NotifyAll \/ Client!JoinThreads \/ Client!EmptyQueue
  PROVE  Aside
<1> USE DEF Place, InCallback, BeforeFlush, Client!ServiceStates, Client!ProcessStates, Client!ShutdownStates
<1>1. Main \in Thread /\ tasks \in Nat /\ stopRequested \in BOOLEAN /\ pc \in [Thread -> Place]
  BY DEF Thread, Client!Thread, ClientInv, Client!TypeOK
<1>2. CASE Client!StopScheduler
  <2>1. Walk
    BY <1>1, <1>2, GoWalks DEF Client!StopScheduler
  <2> QED
    BY <1>1, <1>2, <2>1 DEF Client!StopScheduler, Aside, Client!clientVars
<1>3. CASE Client!NotifyAll
  <2>1. Walk
    BY <1>1, <1>3 DEF Client!NotifyAll, Client!Woken, Walk, Thread
  <2> QED
    BY <1>1, <1>3, <2>1 DEF Client!NotifyAll, Aside, Client!schedulerVars, Client!clientVars
<1>4. CASE Client!JoinThreads
  <2>1. Walk
    BY <1>1, <1>4, GoWalks DEF Client!JoinThreads
  <2> QED
    BY <1>1, <1>4, <2>1 DEF Client!JoinThreads, Aside, Client!schedulerVars, Client!clientVars
<1>5. CASE Client!EmptyQueue
  <2>1. Walk
    BY <1>1, <1>5, GoWalks DEF Client!EmptyQueue
  <2> QED
    BY <1>1, <1>5, <2>1 DEF Client!EmptyQueue, Aside, Client!schedulerVars, Client!clientVars
<1> QED
  BY <1>2, <1>3, <1>4, <1>5

LEMMA FutureAside ==
  ASSUME ClientInv, NEW c \in Caller, Client!FutureReady(c)
  PROVE  Aside
<1>1. c \in Thread /\ tasks \in Nat /\ stopRequested \in BOOLEAN /\ c # Main
  BY ThreadsAssumption DEF Thread, Client!Thread, ClientInv, Client!TypeOK, ThreadsAssumption
<1>2. Walk
  BY <1>1, GoWalks DEF Client!FutureReady, Place, InCallback
<1> QED
  BY <1>1, <1>2 DEF Client!FutureReady, Aside, Client!schedulerVars, Client!clientVars

\* AddToProcessQueue, by a caller or by Shutdown.
LEMMA AddKeeps ==
  ASSUME ClientInv, NEW t \in Thread, Client!AddToProcessQueue(t),
         added < MaxEvents, t # Main => added < MaxEvents - 1,
         pc[t] \notin InCallback, awaited' \in [Caller -> 0..MaxEvents]
  PROVE  ClientInv' /\ Events!Add
<1>0. MaxEvents \in Nat
  BY ThreadsAssumption DEF ThreadsAssumption
<1>1. /\ added' = added + 1 /\ pending' = Append(pending, added + 1) /\ pc' = [pc EXCEPT ![t] = "maybe"]
      /\ UNCHANGED <<tasks, stopRequested, running, callback>>
  BY DEF Client!AddToProcessQueue, Client!Go, Client!schedulerVars
<1>2. Client!TypeOK /\ pc \in [Thread -> Place] /\ added \in 0..MaxEvents /\ pending \in Seq(1..MaxEvents)
  BY DEF ClientInv, Client!TypeOK, Place, Thread
<1>3. /\ pc' \in [Thread -> Place] /\ pc'[t] = "maybe"
      /\ \A u \in Thread \ {t} : pc'[u] = pc[u]
  BY <1>1, <1>2 DEF Place, Client!ProcessStates
<1>4. Client!TypeOK'
  <2>1. added' \in 0..MaxEvents /\ pending' \in Seq(1..MaxEvents)
    BY <1>0, <1>1, <1>2
  <2> QED
    BY <1>1, <1>2, <1>3, <2>1 DEF Client!TypeOK, Place, Thread
<1>5. OneRuns'
  BY <1>1, <1>3 DEF ClientInv, OneRuns, InCallback
<1>6. (pc[Main] \in BeforeFlush => added < MaxEvents)'
  BY <1>0, <1>1, <1>2, <1>3 DEF ClientInv, BeforeFlush
<1>7. Events!Add
  BY <1>1 DEF Events!Add
<1> QED
  BY <1>4, <1>5, <1>6, <1>7 DEF ClientInv

LEMMA HeadTail ==
  ASSUME NEW S, NEW q \in Seq(S), q # <<>>
  PROVE  Head(q) \in S /\ Tail(q) \in Seq(S)
OBVIOUS

\* ProcessQueue returns at once, or starts the callback at the head of the queue.
LEMMA ProcessKeeps ==
  ASSUME ClientInv, NEW t \in Thread, Client!ProcessQueue(t)
  PROVE  ClientInv' /\ (Events!Start \/ UNCHANGED <<added, pending, active>>)
<1>0. MaxEvents \in Nat
  BY ThreadsAssumption DEF ThreadsAssumption
<1>1. /\ pc[t] = "process" /\ tasks \in Nat /\ stopRequested \in BOOLEAN
      /\ UNCHANGED <<tasks, stopRequested, added, awaited>>
  BY DEF Client!ProcessQueue, Client!schedulerVars, ClientInv, Client!TypeOK
<1>2. CASE running = TRUE \/ pending = <<>>
  <2>1. Client!Go(t, Client!Back(t)) /\ UNCHANGED <<pending, running, callback>>
    BY <1>2 DEF Client!ProcessQueue
  <2>2. pc[t] \notin InCallback
    BY <1>1 DEF InCallback
  <2>3. Walk
    BY <2>1, <2>2, GoWalks, BackPlace
  <2> QED
    BY <1>1, <2>1, <2>3, AsideKeeps DEF Aside
<1>3. CASE running = FALSE /\ pending # <<>>
  <2>1. /\ running' = TRUE /\ pending' = Tail(pending)
        /\ callback' = [callback EXCEPT ![t] = Head(pending)] /\ pc' = [pc EXCEPT ![t] = "call"]
    BY <1>3 DEF Client!ProcessQueue, Client!Go
  <2>2. /\ Client!TypeOK /\ pc \in [Thread -> Place] /\ pending \in Seq(1..MaxEvents)
        /\ callback \in [Thread -> 0..MaxEvents]
    BY DEF ClientInv, Client!TypeOK, Place, Thread
  <2>3. pending' \in Seq(1..MaxEvents) /\ Head(pending) \in 1..MaxEvents
    BY Zenon, <1>3, <2>1, <2>2, HeadTail
  <2>4. /\ pc' \in [Thread -> Place] /\ pc'[t] = "call" /\ \A u \in Thread \ {t} : pc'[u] = pc[u]
        /\ callback' \in [Thread -> 0..MaxEvents] /\ callback'[t] = Head(pending)
        /\ \A u \in Thread \ {t} : callback'[u] = callback[u]
    BY <1>0, <2>1, <2>2, <2>3 DEF Place, Client!ProcessStates
  <2>5. \A u \in Thread : pc[u] \notin InCallback /\ callback[u] = 0
    BY <1>3 DEF ClientInv, OneRuns, InCallback
  <2>6. Client!TypeOK'
    BY <1>1, <2>1, <2>2, <2>3, <2>4 DEF Client!TypeOK, Place, Thread
  <2>7. OneRuns'
    BY <1>0, <2>1, <2>3, <2>4, <2>5 DEF OneRuns, InCallback
  <2>8. (pc[Main] \in BeforeFlush => added < MaxEvents)'
    BY <1>1, <2>4 DEF ClientInv, BeforeFlush, Thread, Client!Thread
  <2>9. active = {} /\ active' = {Head(pending)}
    BY <1>0, <2>3, <2>4, <2>5 DEF active
  <2>10. Events!Start
    BY Zenon, <1>1, <1>3, <2>1, <2>9 DEF Events!Start, active
  <2> QED
    BY <2>6, <2>7, <2>8, <2>10 DEF ClientInv
<1>4. running \in BOOLEAN
  BY DEF ClientInv, Client!TypeOK
<1> QED
  BY Zenon, <1>2, <1>3, <1>4

LEMMA ReturnKeeps ==
  ASSUME ClientInv, NEW t \in Thread, Client!CallbackReturns(t)
  PROVE  ClientInv' /\ Events!Finish
<1>0. MaxEvents \in Nat
  BY ThreadsAssumption DEF ThreadsAssumption
<1>1. /\ pc[t] = "call" /\ callback' = [callback EXCEPT ![t] = 0] /\ pc' = [pc EXCEPT ![t] = "reset"]
      /\ awaited' = [c \in Caller |-> IF awaited[c] = callback[t] THEN 0 ELSE awaited[c]]
      /\ UNCHANGED <<tasks, stopRequested, pending, running, added>>
  BY DEF Client!CallbackReturns, Client!schedulerVars, Client!Go
<1>2. /\ Client!TypeOK /\ pc \in [Thread -> Place] /\ callback \in [Thread -> 0..MaxEvents]
      /\ awaited \in [Caller -> 0..MaxEvents]
  BY DEF ClientInv, Client!TypeOK, Place, Thread
<1>3. /\ pc' \in [Thread -> Place] /\ pc'[t] = "reset" /\ \A u \in Thread \ {t} : pc'[u] = pc[u]
      /\ callback' \in [Thread -> 0..MaxEvents] /\ callback'[t] = 0
      /\ \A u \in Thread \ {t} : callback'[u] = callback[u]
      /\ awaited' \in [Caller -> 0..MaxEvents]
  BY <1>0, <1>1, <1>2 DEF Place, Client!ProcessStates
<1>4. running = TRUE /\ callback[t] # 0 /\ \A u \in Thread \ {t} : pc[u] \notin InCallback /\ callback[u] = 0
  BY <1>1 DEF ClientInv, OneRuns, InCallback
<1>5. Client!TypeOK'
  BY <1>1, <1>2, <1>3 DEF Client!TypeOK, Place, Thread
<1>6. OneRuns'
  BY <1>1, <1>3, <1>4 DEF OneRuns, InCallback
<1>7. (pc[Main] \in BeforeFlush => added < MaxEvents)'
  BY <1>1, <1>3 DEF ClientInv, BeforeFlush, Thread, Client!Thread
<1>8. active # {} /\ active' = {}
  BY <1>3, <1>4 DEF active
<1>9. Events!Finish
  BY <1>1, <1>8 DEF Events!Finish, active
<1> QED
  BY <1>5, <1>6, <1>7, <1>9 DEF ClientInv

LEMMA ResetKeeps ==
  ASSUME ClientInv, NEW t \in Thread, Client!ResetRunning(t)
  PROVE  ClientInv' /\ UNCHANGED <<added, pending, active>>
<1>1. /\ pc[t] = "reset" /\ running' = FALSE /\ pc' = [pc EXCEPT ![t] = "maybe"]
      /\ UNCHANGED <<tasks, stopRequested, pending, added, awaited, callback>>
  BY DEF Client!ResetRunning, Client!schedulerVars, Client!Go
<1>2. Client!TypeOK /\ pc \in [Thread -> Place]
  BY DEF ClientInv, Client!TypeOK, Place, Thread
<1>3. pc' \in [Thread -> Place] /\ pc'[t] = "maybe" /\ \A u \in Thread \ {t} : pc'[u] = pc[u]
  BY <1>1, <1>2 DEF Place, Client!ProcessStates
<1>4. \A u \in Thread \ {t} : pc[u] \notin InCallback
  BY <1>1 DEF ClientInv, OneRuns, InCallback
<1>5. Client!TypeOK'
  BY Zenon, <1>1, <1>2, <1>3 DEF Client!TypeOK, Place, Thread
<1>6. OneRuns'
  BY <1>1, <1>3, <1>4 DEF ClientInv, OneRuns, InCallback
<1>7. (pc[Main] \in BeforeFlush => added < MaxEvents)'
  BY <1>1, <1>3 DEF ClientInv, BeforeFlush, Thread, Client!Thread
<1> QED
  BY <1>1, <1>5, <1>6, <1>7 DEF ClientInv, active

LEMMA AddsKeep ==
  ASSUME ClientInv,
         \/ \E c \in Caller : Client!CallerAdds(c) \/ Client!SyncWithValidationInterfaceQueue(c)
         \/ Client!FlushAdds
  PROVE  ClientInv' /\ Events!Add
<1>0. /\ MaxEvents \in Nat /\ added \in 0..MaxEvents
      /\ Caller \subseteq Thread /\ Main \in Thread \ Caller
      /\ awaited \in [Caller -> 0..MaxEvents]
  BY ThreadsAssumption DEF ThreadsAssumption, Thread, Client!Thread, ClientInv, Client!TypeOK
<1>1. ASSUME NEW c \in Caller, Client!CallerAdds(c)
      PROVE  ClientInv' /\ Events!Add
  <2>1. /\ pc[c] \notin InCallback /\ added < MaxEvents - 1 /\ Client!AddToProcessQueue(c) /\ awaited' = awaited
    BY <1>1 DEF Client!CallerAdds, Client!MayCall, InCallback
  <2> QED
    BY <1>0, <2>1, AddKeeps
<1>2. ASSUME NEW c \in Caller, Client!SyncWithValidationInterfaceQueue(c)
      PROVE  ClientInv' /\ Events!Add
  <2>1. /\ pc[c] \notin InCallback /\ added < MaxEvents - 1 /\ Client!AddToProcessQueue(c)
        /\ awaited' = [awaited EXCEPT ![c] = added + 1]
    BY <1>2 DEF Client!SyncWithValidationInterfaceQueue, Client!MayCall, InCallback
  <2>2. awaited' \in [Caller -> 0..MaxEvents]
    BY <1>0, <2>1
  <2> QED
    BY <1>0, <2>1, <2>2, AddKeeps
<1>3. ASSUME Client!FlushAdds
      PROVE  ClientInv' /\ Events!Add
  <2>1. pc[Main] = "flush" /\ Client!AddToProcessQueue(Main) /\ awaited' = awaited
    BY <1>3 DEF Client!FlushAdds
  <2>2. added < MaxEvents /\ pc[Main] \notin InCallback
    BY <2>1 DEF ClientInv, BeforeFlush, InCallback
  <2> QED
    BY <1>0, <2>1, <2>2, AddKeeps
<1> QED
  BY <1>1, <1>2, <1>3

LEMMA StepKeeps ==
  ASSUME ClientInv, NEW t \in Thread, Client!Step(t)
  PROVE  ClientInv' /\ (Events!Next \/ UNCHANGED <<added, pending, active>>)
<1>1. CASE t \in Worker /\ (Client!Service(t) \/ Client!Leave(t) \/ Client!TakeTask(t))
  BY <1>1, ServiceAside, AsideKeeps
<1>2. CASE Client!ProcessQueue(t)
  BY <1>2, ProcessKeeps DEF Events!Next
<1>3. CASE Client!ResetRunning(t)
  BY <1>3, ResetKeeps
<1>4. CASE Client!MaybeScheduleProcessQueue(t) \/ Client!Schedule(t) \/ Client!NotifyOne(t)
  BY <1>4, ScheduleAside, AsideKeeps
<1>5. CASE t \in Caller /\ Client!FutureReady(t)
  BY <1>5, FutureAside, AsideKeeps
<1>6. CASE Client!NotifyAll \/ Client!JoinThreads \/ Client!EmptyQueue
  BY <1>6, ShutdownAside, AsideKeeps
<1>7. CASE Client!FlushAdds
  BY <1>7, AddsKeep DEF Events!Next
<1> QED
  BY <1>1, <1>2, <1>3, <1>4, <1>5, <1>6, <1>7 DEF Client!Step

\* The step of the abstract queue that a step of the threads is.
LEMMA QueueStep ==
  ASSUME ClientInv, [Next]_vars
  PROVE  ClientInv' /\ (Events!Next \/ UNCHANGED <<added, pending, active>>)
<1>1. ASSUME UNCHANGED clientVars
      PROVE  ClientInv' /\ UNCHANGED <<added, pending, active>>
  BY <1>1 DEF clientVars, ClientInv, Client!TypeOK, OneRuns, active
<1>2. ASSUME NEW t \in Thread, Moves(t)
      PROVE  ClientInv' /\ (Events!Next \/ UNCHANGED <<added, pending, active>>)
  <2>1. Client!Step(t) \/ Client!CallbackReturns(t) \/ UNCHANGED clientVars
    BY <1>2 DEF Moves, ClientStep, EventBegins, EventAdvances, EventEnds, SyncAdvances
  <2> QED
    BY <1>1, <2>1, StepKeeps, ReturnKeeps DEF Events!Next
<1>3. ASSUME NEW w \in Worker, Client!SpuriousWakeup(w)
      PROVE  ClientInv' /\ UNCHANGED <<added, pending, active>>
  BY <1>3, ServiceAside, AsideKeeps
<1>4. ASSUME NEW c \in Caller, CallerAdds(c) \/ CallerSyncs(c) \/ SyncBegins(c)
      PROVE  ClientInv' /\ (Events!Next \/ UNCHANGED <<added, pending, active>>)
  <2>1. \/ Client!CallerAdds(c) \/ Client!SyncWithValidationInterfaceQueue(c)
        \/ UNCHANGED clientVars
    BY <1>4 DEF CallerAdds, CallerSyncs, SyncBegins
  <2> QED
    BY <1>1, <2>1, AddsKeep DEF Events!Next
<1>5. ASSUME Shutdown
      PROVE  ClientInv' /\ UNCHANGED <<added, pending, active>>
  BY <1>5, ShutdownAside, AsideKeeps DEF Shutdown
<1>6. ASSUME \/ \E s \in Subscriber : Register(s) \/ Unregister(s)
             \/ UnregisterAll \/ Stopped \/ UNCHANGED vars
      PROVE  UNCHANGED clientVars
  BY <1>6 DEF Register, Unregister, UnregisterAll, Stopped, vars
<1> QED
  BY <1>1, <1>2, <1>3, <1>4, <1>5, <1>6 DEF Next

LEMMA ClientInit == Init => ClientInv /\ Events!Init
<1> SUFFICES ASSUME Init PROVE ClientInv /\ Events!Init
  OBVIOUS
<1>0. MaxEvents \in Nat \ {0} /\ Worker \cap Caller = {} /\ Main \in Thread
  BY ThreadsAssumption DEF ThreadsAssumption, Thread, Client!Thread
<1>1. /\ tasks = 0 /\ stopRequested = FALSE /\ pending = <<>> /\ running = FALSE /\ added = 0
      /\ pc = [t \in Thread |-> IF t \in Worker THEN "top" ELSE IF t = Main THEN "up" ELSE "idle"]
      /\ callback = [t \in Thread |-> 0] /\ awaited = [c \in Caller |-> 0]
  BY DEF Init, Client!Init, Thread
<1>2. Client!TypeOK
  <2>1. pc \in [Thread -> Place]
    BY <1>1 DEF Place, Client!ServiceStates, Client!ShutdownStates
  <2>2. pending \in Seq(1..MaxEvents) /\ callback \in [Thread -> 0..MaxEvents] /\ awaited \in [Caller -> 0..MaxEvents]
    BY <1>0, <1>1
  <2> QED
    BY Zenon, <1>0, <1>1, <2>1, <2>2 DEF Client!TypeOK, Thread, Place
<1>3. OneRuns
  BY <1>1 DEF OneRuns, InCallback
<1>4. Events!Init
  BY <1>1 DEF Events!Init
<1> QED
  BY <1>0, <1>1, <1>2, <1>3, <1>4 DEF ClientInv

(* For any threads and any number of events: SingleThreadedSchedulerClient runs
   the callbacks one at a time, each to its end before the next, in the order of
   AddToProcessQueue, whatever workers, callers, Shutdown and subscribers do: the
   safety half of InOrder. *)
THEOREM CallbacksInOrder == Spec => Events!Init /\ [][Events!Next]_Events!vars
<1>1. ASSUME ClientInv, [Next]_vars
      PROVE  ClientInv' /\ [Events!Next]_Events!vars
  BY <1>1, QueueStep DEF Events!vars, active
<1> QED
  BY <1>1, ClientInit, PTL DEF Spec
=============================================================================
