---------------------------- MODULE MainSignals -----------------------------
(***************************************************************************)
(* MainSignalsInstance (validationinterface.cpp): the list of subscribers, *)
(* edited while threads are in the middle of it.                           *)
(*                                                                         *)
(* m_list only grows at its end, so its entries are numbered by insertion  *)
(* and an entry's place in the list is its number.  An entry is in the     *)
(* list while its count is not zero.  Iterate holds m_mutex except while   *)
(* a subscriber's function runs: at[t] is the entry whose function thread  *)
(* t is running, and the lock is free then.                                *)
(***************************************************************************)
EXTENDS Naturals, Sequences, FiniteSets

CONSTANTS
  Subscriber, Thread,
  MaxEntries           \* bound on the registrations
VARIABLES
  count,               \* ListEntry::count of every entry ever made
  map,                 \* m_map: the entry of a registered subscriber, else 0
  at                   \* the entry a thread is at, 0 outside Iterate

signalVars == <<count, map, at>>

TypeOK ==
  /\ count \in Seq(Nat) /\ Len(count) <= MaxEntries
  /\ map \in [Subscriber -> 0..Len(count)]
  /\ at \in [Thread -> 0..Len(count)]

Init ==
  /\ count = <<>>
  /\ map = [s \in Subscriber |-> 0]
  /\ at = [t \in Thread |-> 0]

Listed(c) == {i \in DOMAIN c : c[i] > 0}

\* The first entry listed after i, 0 at the end of the list.
NextEntry(c, i) ==
  IF \E j \in Listed(c) : j > i
  THEN CHOOSE j \in Listed(c) : j > i /\ \A k \in Listed(c) : k > i => j <= k
  ELSE 0
-----------------------------------------------------------------------------
\* Registering twice only replaces the pointer.
Register(s) ==
  /\ map[s] = 0
  /\ Len(count) < MaxEntries
  /\ count' = Append(count, 1)
  /\ map' = [map EXCEPT ![s] = Len(count) + 1]
  /\ UNCHANGED at

\* Mutant: the entry is erased whether or not a thread is at it.
FaultUnregister(s) ==
  /\ map[s] # 0
  /\ count' = [count EXCEPT ![map[s]] = 0]
  /\ map' = [map EXCEPT ![s] = 0]
  /\ UNCHANGED at

Unregister(s) ==
  /\ map[s] # 0
  /\ count' = [count EXCEPT ![map[s]] = @ - 1]
  /\ map' = [map EXCEPT ![s] = 0]
  /\ UNCHANGED at

\* UnregisterAllValidationInterfaces.
Clear ==
  /\ \E s \in Subscriber : map[s] # 0
  /\ count' = [i \in DOMAIN count |-> IF \E s \in Subscriber : map[s] = i THEN count[i] - 1 ELSE count[i]]
  /\ map' = [s \in Subscriber |-> 0]
  /\ UNCHANGED at

\* Step to entry i, holding it.
Enter(t, c, i) ==
  /\ at' = [at EXCEPT ![t] = i]
  /\ count' = IF i = 0 THEN c ELSE [c EXCEPT ![i] = @ + 1]
  /\ UNCHANGED map

Begin(t) ==
  /\ at[t] = 0
  /\ Listed(count) # {}
  /\ Enter(t, count, NextEntry(count, 0))

\* Mutant: the iterator erase returns is advanced once more.
FaultAdvance(t) ==
  /\ at[t] # 0
  /\ LET c == [count EXCEPT ![at[t]] = @ - 1]
         n == NextEntry(c, at[t])
     IN  Enter(t, c, IF c[at[t]] = 0 /\ n # 0 THEN NextEntry(c, n) ELSE n)

\* The subscriber's function returns: drop the entry if it was unregistered
\* meanwhile and nobody else is at it, and go on.
Advance(t) ==
  /\ at[t] # 0
  /\ LET c == [count EXCEPT ![at[t]] = @ - 1]
     IN  Enter(t, c, NextEntry(c, at[t]))
-----------------------------------------------------------------------------
(* The comment on ListEntry: the count of an entry is the number of threads
   running its function, plus one while it is registered.  So an entry a thread
   is at is never erased under it, and none is kept for ever. *)
CountExact ==
  \A i \in DOMAIN count :
     count[i] = Cardinality({t \in Thread : at[t] = i})
                + Cardinality({s \in Subscriber : map[s] = i})

(* Iterate passes over no subscriber that is registered, whatever was
   registered or unregistered while the functions of others ran. *)
NoneSkipped ==
  [][\A t \in Thread : at'[t] # at[t] =>
       \A s \in Subscriber : ~ (map[s] > at[t] /\ (at'[t] = 0 \/ map[s] < at'[t]))]_signalVars
=============================================================================
