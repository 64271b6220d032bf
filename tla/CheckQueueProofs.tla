-------------------------- MODULE CheckQueueProofs --------------------------
(***************************************************************************)
(* For every number of workers, every set of checks and every batch size:  *)
(* nTodo and nIdle never wrap, nTodo counts exactly the checks that are    *)
(* queued or in a thread's hands, and Wait's answer is right.              *)
(*                                                                         *)
(* VerdictRight is not inductive.  Its strengthening says where a failed   *)
(* check can be while the master is busy: still outstanding, or, once      *)
(* accounted for, recorded in fAllOk; the master returns when nTodo is 0,  *)
(* which TodoExact turns into "nothing is outstanding".                    *)
(***************************************************************************)
EXTENDS CheckQueue, FiniteSetTheorems, TLAPS

Sleepers == {t \in Thread : pc[t] \in {"wait", "woken"}}

Looping == {t \in Thread : InLoop(t)}

\* How the program counters, the pool and the batches go together.
Shape ==
  /\ \A w \in Worker : pc[w] \in {"off", "run", "wait", "woken", "work"}
  /\ stop <=> pool \in {"stop", "join"}
  /\ pool # "up" => pc[Master] = "off"
  /\ pool = "down" => \A t \in Thread : pc[t] = "off"
  /\ \A t \in Thread : batch[t] # {} => pc[t] \in {"run", "work"}
  /\ \A t \in Thread : pc[t] = "work" => batch[t] # {}

Counts ==
  /\ nIdle = Cardinality(Sleepers)
  /\ pool = "up" => nTotal = Cardinality(Looping)

\* Where the failed checks are.
Failures ==
  /\ Outstanding \subseteq added
  /\ ~fAllOk => added \cap Bad # {}
  /\ \A t \in Thread : t \in notOk /\ batch[t] # {} => added \cap Bad # {}
  /\ \A t \in Thread : pc[t] = "run" /\ batch[t] \cap Bad # {} => t \in notOk
  /\ pc[Master] # "off" /\ fAllOk => added \cap Bad \subseteq Outstanding
  /\ verdict # "none" => pc[Master] = "off"

IInv == TypeOK /\ Shape /\ TodoExact /\ Counts /\ Failures /\ NothingLeft /\ VerdictRight
-----------------------------------------------------------------------------
(* What a thread does under m_mutex in Loop, whichever way it goes on: it      *)
(* accounts for its last batch and takes S from the queue.                     *)

Locked(t, S, next) ==
  /\ pc[t] \in {"run", "woken"}
  /\ batch' = [batch EXCEPT ![t] = S]
  /\ queue' = queue \ S
  /\ nTodo' = TodoAfter(t)
  /\ nIdle' = IF next = "wait" THEN IdleAfter(t) + 1 ELSE IdleAfter(t)
  /\ pc' = PcAfter(t, next)

\* Taking a subset away from a finite set takes its cardinality away.
LEMMA CardinalityDifference ==
  ASSUME NEW A, IsFiniteSet(A), NEW B \in SUBSET A
  PROVE  /\ IsFiniteSet(A \ B) /\ IsFiniteSet(B)
         /\ Cardinality(A) \in Nat /\ Cardinality(B) \in Nat
         /\ Cardinality(A \ B) = Cardinality(A) - Cardinality(B)
         /\ Cardinality(A \ B) \in Nat
<1>1. IsFiniteSet(B) /\ IsFiniteSet(A \ B)
  BY FS_Subset
<1>2. Cardinality(A) \in Nat /\ Cardinality(B) \in Nat /\ Cardinality(A \ B) \in Nat
  BY <1>1, FS_CardinalityType
<1>3. (A \ B) \cup B = A /\ (A \ B) \cap B = {}
  OBVIOUS
<1>4. Cardinality(A) = Cardinality(A \ B) + Cardinality(B) - Cardinality({})
  BY <1>1, <1>3, FS_Union
<1> QED
  BY <1>1, <1>2, <1>4, FS_EmptySet

\* The checks that are outstanding are finitely many.
LEMMA OutstandingFinite ==
  ASSUME TypeOK
  PROVE  /\ Outstanding \subseteq Check
         /\ IsFiniteSet(Outstanding)
         /\ \A t \in Thread : batch[t] \subseteq Outstanding /\ batch[t] \subseteq Check
<1>1. Outstanding \subseteq Check
  BY DEF TypeOK, Outstanding
<1>2. IsFiniteSet(Outstanding)
  BY <1>1, QueueAssumption, FS_Subset DEF QueueAssumption
<1>3. \A t \in Thread : batch[t] \subseteq Outstanding /\ batch[t] \subseteq Check
  BY DEF TypeOK, Outstanding
<1> QED
  BY <1>1, <1>2, <1>3

\* Accounting for a batch and taking the next keeps nTodo exact: what was
\* outstanding less the old batch is outstanding.
LEMMA LockedTodo ==
  ASSUME TypeOK, Shape, TodoExact, NEW t \in Thread, NEW S \in SUBSET queue, NEW next,
         Locked(t, S, next)
  PROVE  /\ Outstanding' = Outstanding \ batch[t]
         /\ TodoExact'
         /\ nTodo' \in Nat
         /\ batch' \in [Thread -> SUBSET Check]
         /\ queue' \subseteq Check
<1>1. batch' \in [Thread -> SUBSET Check] /\ queue' \subseteq Check
  BY DEF TypeOK, Locked
<1>2. batch'[t] = S /\ \A u \in Thread : u # t => batch'[u] = batch[u]
  BY DEF TypeOK, Locked
<1>3. \A x : x \in Outstanding <=> x \in queue \/ \E u \in Thread : x \in batch[u]
  BY DEF Outstanding
<1>4. \A x : x \in Outstanding' <=> x \in queue' \/ \E u \in Thread : x \in batch'[u]
  BY DEF Outstanding
<1>5. queue' = queue \ S
  BY DEF Locked
<1>6. \A x : x \in Outstanding' <=> x \in Outstanding /\ x \notin batch[t]
  BY <1>2, <1>3, <1>4, <1>5 DEF TodoExact
<1>7. Outstanding' = Outstanding \ batch[t]
  BY <1>6
<1>8. nTodo' = nTodo - Cardinality(batch[t])
  <2>1. CASE pc[t] = "run"
    BY <2>1 DEF Locked, TodoAfter
  <2>2. CASE pc[t] = "woken"
    <3>1. batch[t] = {}
      BY <2>2 DEF Shape
    <3> QED
      BY <2>2, <3>1, FS_EmptySet DEF Locked, TodoAfter, TypeOK
  <2> QED
    BY <2>1, <2>2 DEF Locked
<1>9. /\ Cardinality(Outstanding \ batch[t]) = Cardinality(Outstanding) - Cardinality(batch[t])
      /\ Cardinality(Outstanding \ batch[t]) \in Nat
  BY OutstandingFinite, CardinalityDifference
<1>10. nTodo' = Cardinality(Outstanding') /\ nTodo' \in Nat
  BY <1>7, <1>8, <1>9 DEF TodoExact
<1>11. /\ \A u \in Thread : batch'[u] \cap queue' = {}
       /\ \A u, v \in Thread : u # v => batch'[u] \cap batch'[v] = {}
  BY <1>2, <1>5 DEF TodoExact
<1> QED
  BY <1>1, <1>7, <1>10, <1>11 DEF TodoExact

\* Adding an element to, and removing one from, a set of threads.
LEMMA ThreadSets ==
  ASSUME NEW A \in SUBSET Thread, NEW t \in Thread
  PROVE  /\ IsFiniteSet(A) /\ Cardinality(A) \in Nat
         /\ Cardinality(A \cup {t}) = IF t \in A THEN Cardinality(A) ELSE Cardinality(A) + 1
         /\ Cardinality(A \ {t}) = IF t \in A THEN Cardinality(A) - 1 ELSE Cardinality(A)
         /\ t \in A => Cardinality(A) > 0
<1>1. IsFiniteSet(Thread)
  BY QueueAssumption, FS_AddElement DEF QueueAssumption, Thread
<1>2. IsFiniteSet(A)
  BY <1>1, FS_Subset
<1>3. Cardinality(A) \in Nat
  BY <1>2, FS_CardinalityType
<1>4. t \in A => Cardinality(A) # 0
  BY <1>2, FS_EmptySet
<1>5. Cardinality(A \cup {t}) = IF t \in A THEN Cardinality(A) ELSE Cardinality(A) + 1
  BY <1>2, FS_AddElement
<1>6. Cardinality(A \ {t}) = IF t \in A THEN Cardinality(A) - 1 ELSE Cardinality(A)
  BY <1>2, FS_RemoveElement
<1> QED
  BY <1>2, <1>3, <1>4, <1>5, <1>6

\* nIdle keeps counting the sleepers.
LEMMA LockedIdle ==
  ASSUME TypeOK, nIdle = Cardinality(Sleepers), NEW t \in Thread, NEW S,
         NEW next \in {"off", "wait", "work"}, Locked(t, S, next)
  PROVE  /\ nIdle' = Cardinality(Sleepers')
         /\ nIdle' \in Nat
         /\ pc' \in [Thread -> {"off", "hold", "notify_one", "notify_all", "run", "wait",
                                "woken", "work"}]
         /\ pc'[t] = next
         /\ \A u \in Thread : u # t =>
              pc'[u] = pc[u] \/ (u = Master /\ pc[u] = "wait" /\ pc'[u] = "woken")
<1>1. /\ pc'[t] = next
      /\ \A u \in Thread : u # t =>
              pc'[u] = pc[u] \/ (u = Master /\ pc[u] = "wait" /\ pc'[u] = "woken")
      /\ pc' \in [Thread -> {"off", "hold", "notify_one", "notify_all", "run", "wait",
                                "woken", "work"}]
  BY DEF TypeOK, Locked, PcAfter
<1>2. Sleepers' = IF next = "wait" THEN Sleepers \cup {t} ELSE Sleepers \ {t}
  BY <1>1 DEF Sleepers
<1>3. t \in Sleepers <=> pc[t] = "woken"
  BY DEF Sleepers, Locked
<1>4. Sleepers \in SUBSET Thread
  BY DEF Sleepers
<1>5. /\ Cardinality(Sleepers) \in Nat
      /\ Cardinality(Sleepers \cup {t}) = IF t \in Sleepers THEN Cardinality(Sleepers)
                                                           ELSE Cardinality(Sleepers) + 1
      /\ Cardinality(Sleepers \ {t}) = IF t \in Sleepers THEN Cardinality(Sleepers) - 1
                                                        ELSE Cardinality(Sleepers)
      /\ t \in Sleepers => Cardinality(Sleepers) > 0
  BY Zenon, <1>4, ThreadSets
<1>6. nIdle' = Cardinality(Sleepers') /\ nIdle' \in Nat
  BY <1>2, <1>3, <1>5 DEF Locked, IdleAfter
<1> QED
  BY <1>1, <1>6

\* nTotal keeps counting the threads in the loop while the pool is up.
LEMMA LockedTotal ==
  ASSUME TypeOK, Shape, nTotal = Cardinality(Looping), NEW t \in Thread, NEW S,
         NEW next \in {"off", "wait", "work"}, Locked(t, S, next)
  PROVE  /\ TotalAfter(t) = Cardinality(Looping \cup {t})
         /\ TotalAfter(t) \in Nat \ {0}
         /\ Cardinality(Looping') = IF next = "off" THEN TotalAfter(t) - 1 ELSE TotalAfter(t)
<1>1. /\ pc'[t] = next
      /\ \A u \in Thread : u # t =>
              pc'[u] = pc[u] \/ (u = Master /\ pc[u] = "wait" /\ pc'[u] = "woken")
  BY DEF TypeOK, Locked, PcAfter
<1>2. \A u \in Thread : u # t => batch'[u] = batch[u]
  BY DEF TypeOK, Locked
<1>3. Looping' = IF next = "off" THEN (Looping \cup {t}) \ {t} ELSE Looping \cup {t}
  BY <1>1, <1>2 DEF Looping, InLoop
<1>4. t \in Looping <=> ~(pc[t] = "run" /\ batch[t] = {})
  BY DEF Looping, InLoop, Locked
<1>5. Looping \in SUBSET Thread /\ Looping \cup {t} \in SUBSET Thread
  BY DEF Looping
<1>6. /\ Cardinality(Looping) \in Nat
      /\ Cardinality(Looping \cup {t}) = IF t \in Looping THEN Cardinality(Looping)
                                                          ELSE Cardinality(Looping) + 1
  BY Zenon, <1>5, ThreadSets
<1>7. /\ Cardinality((Looping \cup {t}) \ {t}) = Cardinality(Looping \cup {t}) - 1
      /\ Cardinality(Looping \cup {t}) > 0
      /\ Cardinality(Looping \cup {t}) \in Nat
  <2>1. t \in Looping \cup {t}
    OBVIOUS
  <2> QED
    BY Zenon, <1>5, <2>1, ThreadSets
<1>8. TotalAfter(t) = Cardinality(Looping \cup {t})
  BY <1>4, <1>6 DEF TotalAfter
<1> QED
  BY <1>3, <1>7, <1>8

\* Accounting for a batch loses no failure.
LEMMA LockedFailures ==
  ASSUME TypeOK, Shape, TodoExact, Failures, NEW t \in Thread, pc[t] \in {"run", "woken"}
  PROVE  /\ ~OkAfter(t) => added \cap Bad # {}
         /\ pc[Master] # "off" /\ OkAfter(t) => added \cap Bad \subseteq Outstanding \ batch[t]
<1>1. ~OkAfter(t) => added \cap Bad # {}
  BY DEF OkAfter, Failures
<1>2. ASSUME pc[Master] # "off", OkAfter(t), NEW c \in added \cap Bad
      PROVE  c \in Outstanding \ batch[t]
  <2>1. fAllOk
    BY <1>2 DEF OkAfter
  <2>2. c \in Outstanding
    BY <1>2, <2>1 DEF Failures
  <2>3. ASSUME c \in batch[t] PROVE FALSE
    <3>1. batch[t] # {} /\ batch[t] \cap Bad # {}
      BY <1>2, <2>3
    <3>2. pc[t] = "run"
      BY <3>1 DEF Shape
    <3>3. t \in notOk
      BY <3>1, <3>2 DEF Failures
    <3> QED
      BY <1>2, <3>1, <3>2, <3>3 DEF OkAfter
  <2> QED
    BY <2>2, <2>3
<1> QED
  BY <1>1, <1>2
-----------------------------------------------------------------------------
(* The steps of Loop preserve the invariant. *)

\* Sleep, Quit and Take: a thread goes on under m_mutex without returning from
\* Wait.
LEMMA LockedStep ==
  ASSUME IInv, NEW t \in Thread, NEW S \in SUBSET queue, NEW next \in {"off", "wait", "work"},
         Locked(t, S, next),
         next = "off" => t \in Worker /\ pool # "up" /\ pool # "down",
         S # {} <=> next = "work",
         nTotal' = TotalAfter(t), fAllOk' = OkAfter(t),
         notOk' \subseteq Thread,
         \A u \in Thread : u # t => (u \in notOk' <=> u \in notOk),
         t \in notOk' => S = {} \/ ~OkAfter(t),
         UNCHANGED <<stop, pool, history, rounds, starts>>
  PROVE  IInv'
<1> USE DEF history
<1>0. /\ TypeOK /\ Shape /\ TodoExact /\ Counts /\ Failures /\ NothingLeft /\ VerdictRight
      /\ pc[t] \in {"run", "woken"}
      /\ fAllOk' = OkAfter(t)
  BY DEF IInv, Locked
<1>1. /\ Outstanding' = Outstanding \ batch[t]
      /\ TodoExact'
      /\ nTodo' \in Nat
      /\ batch' \in [Thread -> SUBSET Check]
      /\ queue' \subseteq Check
  BY <1>0, LockedTodo
<1>2. /\ nIdle' = Cardinality(Sleepers')
      /\ nIdle' \in Nat
      /\ pc' \in [Thread -> {"off", "hold", "notify_one", "notify_all", "run", "wait",
                             "woken", "work"}]
      /\ pc'[t] = next
      /\ \A u \in Thread : u # t =>
           pc'[u] = pc[u] \/ (u = Master /\ pc[u] = "wait" /\ pc'[u] = "woken")
  BY <1>0, LockedIdle DEF Counts
<1>3. batch'[t] = S /\ \A u \in Thread : u # t => batch'[u] = batch[u]
  BY <1>0 DEF TypeOK, Locked
<1>4. nTotal' \in Nat
  BY <1>0 DEF TotalAfter, TypeOK
<1>5. fAllOk' \in BOOLEAN
  BY <1>0 DEF OkAfter, TypeOK
<1>6. TypeOK'
  BY <1>0, <1>1, <1>2, <1>4, <1>5 DEF TypeOK
<1>7. Shape'
  BY <1>0, <1>2, <1>3 DEF Shape, Thread
<1>8. Counts'
  <2>1. ASSUME pool = "up" PROVE nTotal' = Cardinality(Looping')
    BY Zenon, <1>0, <2>1, LockedTotal DEF Counts
  <2> QED
    BY <1>2, <2>1 DEF Counts
<1>9. /\ ~OkAfter(t) => added \cap Bad # {}
      /\ pc[Master] # "off" /\ OkAfter(t) => added \cap Bad \subseteq Outstanding'
  BY <1>0, <1>1, LockedFailures
<1>10. Master \in Thread /\ (pc'[Master] = "off" <=> pc[Master] = "off")
  BY <1>0, <1>2, QueueAssumption DEF QueueAssumption, Thread, Shape
<1>11. Failures'
  <2>1. Outstanding' \subseteq added'
    BY <1>0, <1>1 DEF Failures
  <2>2. ~fAllOk' => added' \cap Bad # {}
    BY <1>0, <1>9
  <2>3. \A u \in Thread : u \in notOk' /\ batch'[u] # {} => added' \cap Bad # {}
    BY <1>0, <1>3, <1>9 DEF Failures
  <2>4. \A u \in Thread : pc'[u] = "run" /\ batch'[u] \cap Bad # {} => u \in notOk'
    BY <1>0, <1>2, <1>3 DEF Failures
  <2>5. pc'[Master] # "off" /\ fAllOk' => added' \cap Bad \subseteq Outstanding'
    BY <1>0, <1>9, <1>10
  <2>6. verdict' # "none" => pc'[Master] = "off"
    BY <1>0, <1>10 DEF Failures
  <2> QED
    BY <2>1, <2>2, <2>3, <2>4, <2>5, <2>6 DEF Failures
<1>12. NothingLeft'
  <2>1. ASSUME pc'[Master] = "off" PROVE Outstanding' = {} /\ fAllOk'
    <3>1. Outstanding = {} /\ fAllOk
      BY <1>0, <1>10, <2>1 DEF NothingLeft
    <3>2. batch[t] = {}
      BY <1>0, <3>1, OutstandingFinite
    <3> QED
      BY Zenon, <1>0, <1>1, <3>1, <3>2 DEF OkAfter
  <2> QED
    BY <2>1 DEF NothingLeft
<1>13. VerdictRight'
  BY <1>0 DEF VerdictRight
<1> QED
  BY <1>1, <1>6, <1>7, <1>8, <1>11, <1>12, <1>13 DEF IInv

\* The master returns: nTodo is 0, so nothing is outstanding and every failure
\* is in fAllOk.
LEMMA ReturnStep ==
  ASSUME IInv, Return
  PROVE  IInv'
<1>0. /\ TypeOK /\ Shape /\ TodoExact /\ Counts /\ Failures
      /\ Master \in Thread /\ pc[Master] \in {"run", "woken"} /\ pool = "up"
  BY DEF IInv, Return, Thread, Shape
<1>1. Locked(Master, {}, "off") /\ {} \in SUBSET queue
  BY DEF Return, Locked, IdleAfter
<1>2. /\ Outstanding' = Outstanding \ batch[Master]
      /\ TodoExact'
      /\ batch' \in [Thread -> SUBSET Check]
      /\ queue' \subseteq Check
  BY <1>0, <1>1, LockedTodo
<1>3. /\ nIdle' = Cardinality(Sleepers')
      /\ nIdle' \in Nat
      /\ pc' \in [Thread -> {"off", "hold", "notify_one", "notify_all", "run", "wait",
                             "woken", "work"}]
      /\ pc'[Master] = "off"
      /\ \A u \in Worker : pc'[u] = pc[u]
  <2>1. /\ nIdle' = Cardinality(Sleepers')
        /\ nIdle' \in Nat
        /\ pc' \in [Thread -> {"off", "hold", "notify_one", "notify_all", "run", "wait",
                             "woken", "work"}]
        /\ pc'[Master] = "off"
        /\ \A u \in Thread : u # Master =>
             pc'[u] = pc[u] \/ (u = Master /\ pc[u] = "wait" /\ pc'[u] = "woken")
    BY <1>0, <1>1, LockedIdle DEF Counts
  <2> QED
    BY <2>1, QueueAssumption DEF Thread, QueueAssumption
<1>4. nTotal' = Cardinality(Looping') /\ nTotal' \in Nat
  <2>1. nTotal = Cardinality(Looping)
    BY <1>0 DEF Counts
  <2>2. /\ TotalAfter(Master) \in Nat \ {0}
        /\ Cardinality(Looping') = TotalAfter(Master) - 1
    BY Zenon, <1>0, <1>1, <2>1, LockedTotal
  <2> QED
    BY <2>2 DEF Return
<1>5. batch'[Master] = {} /\ \A u \in Worker : batch'[u] = batch[u]
  BY <1>0, QueueAssumption DEF TypeOK, Return, Thread, QueueAssumption
<1>6. Outstanding' = {}
  <2>1. IsFiniteSet(Outstanding')
    BY <1>0, <1>2, OutstandingFinite, FS_Subset
  <2>2. Cardinality(Outstanding') = 0
    BY <1>2 DEF TodoExact, Return
  <2> QED
    BY <2>1, <2>2, FS_EmptySet
<1>7. /\ ~OkAfter(Master) => added \cap Bad # {}
      /\ OkAfter(Master) => added \cap Bad = {}
  BY <1>0, <1>2, <1>6, LockedFailures
<1>8. /\ added' = added /\ fAllOk' = TRUE /\ pool' = pool
      /\ verdict' = IF OkAfter(Master) THEN "true" ELSE "false"
  BY DEF Return
<1>9. TypeOK'
  BY <1>0, <1>2, <1>3, <1>4, <1>8 DEF TypeOK, Return
<1>10. Shape'
  BY <1>0, <1>3, <1>5 DEF Shape, Return, Thread
<1>11. Counts'
  BY <1>3, <1>4 DEF Counts
<1>12. \A u \in Thread : batch'[u] = {}
  BY <1>6 DEF Outstanding
<1>13. Failures'
  BY <1>3, <1>6, <1>8, <1>12 DEF Failures
<1>14. NothingLeft'
  BY <1>6, <1>8 DEF NothingLeft
<1>15. VerdictRight'
  BY <1>7, <1>8 DEF VerdictRight
<1> QED
  BY <1>2, <1>9, <1>10, <1>11, <1>13, <1>14, <1>15 DEF IInv

\* Running the checks of a batch: a failed one makes fOk false.
LEMMA WorkStep ==
  ASSUME IInv, NEW t \in Thread, Work(t)
  PROVE  IInv'
<1> USE DEF shared, history
<1>0. TypeOK /\ Shape /\ TodoExact /\ Counts /\ Failures /\ NothingLeft /\ VerdictRight
  BY DEF IInv
<1>1. /\ pc'[t] = "run" /\ pc[t] = "work"
      /\ \A u \in Thread : u # t => pc'[u] = pc[u]
  BY <1>0 DEF TypeOK, Work
<1>2. /\ Outstanding' = Outstanding /\ TodoExact'
      /\ UNCHANGED <<queue, nIdle, nTotal, fAllOk, nTodo, stop, pool, batch, added, verdict, rounds, starts>>
  BY <1>0 DEF Work, Outstanding, TodoExact
<1>3. /\ batch[t] \subseteq added /\ batch[t] # {}
      /\ Master \in Thread /\ (pc'[Master] = "off" <=> pc[Master] = "off")
  BY <1>0, <1>1, OutstandingFinite DEF Failures, Shape, Thread
<1>4. TypeOK'
  BY <1>0, <1>2 DEF TypeOK, Work
<1>5. Shape'
  BY <1>0, <1>1, <1>2, <1>3 DEF Shape, Thread
<1>6. Counts'
  <2>1. Sleepers' = Sleepers
    BY <1>1 DEF Sleepers
  <2>2. Looping' = Looping
    BY <1>1, <1>2, <1>3 DEF Looping, InLoop
  <2> QED
    BY <1>0, <1>2, <2>1, <2>2 DEF Counts
<1>7. Failures'
  <2>1. \A u \in Thread : u \in notOk' /\ batch'[u] # {} => added' \cap Bad # {}
    BY <1>0, <1>2, <1>3 DEF Failures, Work
  <2>2. \A u \in Thread : pc'[u] = "run" /\ batch'[u] \cap Bad # {} => u \in notOk'
    BY <1>0, <1>1, <1>2 DEF Failures, Work
  <2> QED
    BY <1>0, <1>2, <1>3, <2>1, <2>2 DEF Failures
<1>8. NothingLeft' /\ VerdictRight'
  BY <1>0, <1>2, <1>3 DEF NothingLeft, VerdictRight
<1> QED
  BY <1>2, <1>4, <1>5, <1>6, <1>7, <1>8 DEF IInv

\* A step that only moves program counters, the master staying in or out of its
\* control object, and no thread entering or leaving a loop or its sleep.
LEMMA PcStep ==
  ASSUME IInv,
         UNCHANGED <<shared, locals, history>>,
         pc' \in [Thread -> {"off", "hold", "notify_one", "notify_all", "run", "wait",
                            "woken", "work"}],
         \A t \in Thread :
           /\ pc[t] \in {"wait", "woken"} <=> pc'[t] \in {"wait", "woken"}
           /\ pc[t] = "work" <=> pc'[t] = "work"
           /\ pc'[t] = "run" => pc[t] \in {"run", "hold"}
           /\ pc[t] = "run" => pc'[t] = "run"
           /\ pc[t] = "off" <=> pc'[t] = "off",
         Shape', pool' \in {"down", "up", "stop", "join"}, stop' \in BOOLEAN,
         pool' = "up" => pool = "up",
         rounds' \in Nat, starts' \in Nat
  PROVE  IInv'
<1> USE DEF shared, locals, history
<1>0. /\ TypeOK /\ Shape /\ TodoExact /\ Counts /\ Failures /\ NothingLeft /\ VerdictRight
      /\ Master \in Thread
  BY DEF IInv, Thread
<1>1. Outstanding' = Outstanding /\ TodoExact'
  BY <1>0 DEF Outstanding, TodoExact
<1>2. TypeOK'
  BY <1>0 DEF TypeOK
<1>3. Sleepers' = Sleepers
  BY DEF Sleepers
<1>4. Looping' = Looping
  BY <1>0 DEF Looping, InLoop, Shape
<1>5. Counts'
  BY <1>0, <1>3, <1>4 DEF Counts
<1>6. Failures'
  BY <1>0, <1>1 DEF Failures, Shape
<1>7. NothingLeft' /\ VerdictRight'
  BY <1>0, <1>1 DEF NothingLeft, VerdictRight
<1> QED
  BY <1>1, <1>2, <1>5, <1>6, <1>7 DEF IInv

\* Adding checks: they are new, so nTodo grows by as many as become outstanding.
LEMMA AddStep ==
  ASSUME IInv, NEW S \in SUBSET Check, Add(S)
  PROVE  IInv'
<1>0. /\ TypeOK /\ Shape /\ TodoExact /\ Counts /\ Failures /\ NothingLeft /\ VerdictRight
      /\ Master \in Thread /\ pc[Master] = "hold" /\ batch[Master] = {}
      /\ UNCHANGED <<nIdle, nTotal, fAllOk, stop, pool, batch, notOk, verdict, rounds, starts>>
  BY DEF IInv, Thread, Add, Shape, locals
<1>1. /\ pc'[Master] \in {"notify_one", "notify_all"}
      /\ \A t \in Thread : t # Master => pc'[t] = pc[t]
      /\ pc' \in [Thread -> {"off", "hold", "notify_one", "notify_all", "run", "wait",
                            "woken", "work"}]
  BY <1>0 DEF TypeOK, Add, Notice
<1>2. /\ S \cap Outstanding = {} /\ queue' = queue \cup S /\ added' = added \cup S
      /\ nTodo' = nTodo + Cardinality(S)
  BY <1>0 DEF Add, Failures
<1>3. Outstanding' = Outstanding \cup S
  BY <1>0, <1>2 DEF Outstanding
<1>4. Cardinality(Outstanding \cup S) = Cardinality(Outstanding) + Cardinality(S)
  <2>1. IsFiniteSet(S) /\ IsFiniteSet(Outstanding)
    BY <1>0, OutstandingFinite, QueueAssumption, FS_Subset DEF QueueAssumption
  <2>2. Cardinality(Outstanding) \in Nat /\ Cardinality(S) \in Nat /\ Cardinality({}) = 0
    BY <2>1, FS_CardinalityType, FS_EmptySet
  <2>3. Outstanding \cap S = {}
    BY <1>2
  <2>4. Cardinality(Outstanding \cup S)
          = Cardinality(Outstanding) + Cardinality(S) - Cardinality({})
    BY <2>1, <2>3, FS_Union
  <2> QED
    BY <2>2, <2>4
<1>5. nTodo' \in Nat
  BY <1>0, <1>2, QueueAssumption, FS_Subset, FS_CardinalityType DEF TypeOK, QueueAssumption
<1>6. TypeOK'
  BY <1>0, <1>1, <1>2, <1>5 DEF TypeOK
<1>7. TodoExact'
  <2>1. \A t \in Thread : batch[t] \subseteq Outstanding
    BY <1>0, OutstandingFinite
  <2> QED
    BY <1>0, <1>2, <1>3, <1>4, <2>1 DEF TodoExact
<1>8. Shape'
  BY <1>0, <1>1 DEF Shape, Thread
<1>9. Counts'
  <2>1. Sleepers' = Sleepers /\ Looping' = Looping
    BY <1>0, <1>1 DEF Sleepers, Looping, InLoop
  <2> QED
    BY <1>0, <2>1 DEF Counts
<1>10. Failures'
  BY <1>0, <1>1, <1>2, <1>3 DEF Failures
<1>11. NothingLeft' /\ VerdictRight'
  BY Zenon, <1>0, <1>1 DEF NothingLeft, VerdictRight, Failures
<1> QED
  BY <1>6, <1>7, <1>8, <1>9, <1>10, <1>11 DEF IInv

\* A new control object starts from an empty queue and a clean result.
LEMMA MakeControlStep ==
  ASSUME IInv, MakeControl
  PROVE  IInv'
<1> USE DEF shared, locals
<1>0. /\ TypeOK /\ Shape /\ TodoExact /\ Counts /\ Failures /\ NothingLeft /\ VerdictRight
      /\ Master \in Thread /\ pc[Master] = "off" /\ pool = "up"
      /\ UNCHANGED <<queue, nIdle, nTotal, fAllOk, nTodo, stop, pool, batch, notOk, starts>>
      /\ added' = {} /\ verdict' = "none" /\ rounds' = rounds + 1
  BY DEF IInv, Thread, MakeControl
<1>1. /\ pc'[Master] = "hold" /\ \A t \in Thread : t # Master => pc'[t] = pc[t]
      /\ pc' \in [Thread -> {"off", "hold", "notify_one", "notify_all", "run", "wait",
                            "woken", "work"}]
  BY <1>0 DEF TypeOK, MakeControl
<1>2. /\ Outstanding' = {} /\ Outstanding = {} /\ fAllOk
      /\ \A t \in Thread : batch[t] = {}
  BY <1>0 DEF Outstanding, NothingLeft
<1>3. TypeOK'
  BY <1>0, <1>1 DEF TypeOK
<1>4. Shape'
  BY <1>0, <1>1, <1>2, QueueAssumption DEF Shape, Thread, QueueAssumption
<1>5. TodoExact'
  BY <1>0, <1>2 DEF TodoExact
<1>6. Counts'
  <2>1. Sleepers' = Sleepers /\ Looping' = Looping
    BY <1>0, <1>1, <1>2 DEF Sleepers, Looping, InLoop
  <2> QED
    BY <1>0, <2>1 DEF Counts
<1>7. Failures'
  BY <1>0, <1>2 DEF Failures
<1>8. NothingLeft' /\ VerdictRight'
  BY <1>0, <1>1 DEF NothingLeft, VerdictRight
<1> QED
  BY <1>3, <1>4, <1>5, <1>6, <1>7, <1>8 DEF IInv

\* The pool starts with nobody asleep and nobody counted.
LEMMA StartStep ==
  ASSUME IInv, StartWorkerThreads
  PROVE  IInv'
<1> USE DEF locals, history
<1>0. /\ TypeOK /\ Shape /\ TodoExact /\ Counts /\ Failures /\ NothingLeft /\ VerdictRight
      /\ Master \in Thread /\ Master \notin Worker /\ pool = "down" /\ pool' = "up"
      /\ UNCHANGED <<queue, nTodo, stop, batch, notOk, added, verdict, rounds>>
      /\ nIdle' = 0 /\ nTotal' = 0 /\ fAllOk' = TRUE /\ starts' = starts + 1
  BY QueueAssumption DEF QueueAssumption, IInv, Thread, StartWorkerThreads
<1>1. /\ \A t \in Thread : pc[t] = "off"
      /\ pc'[Master] = "off" /\ \A w \in Worker : pc'[w] = "run"
      /\ pc' \in [Thread -> {"off", "hold", "notify_one", "notify_all", "run", "wait",
                            "woken", "work"}]
  BY <1>0 DEF TypeOK, Shape, StartWorkerThreads, Thread
<1>2. /\ Outstanding' = {} /\ Outstanding = {}
      /\ \A t \in Thread : batch[t] = {}
  BY <1>0, <1>1 DEF Outstanding, NothingLeft
<1>3. TypeOK'
  BY <1>0, <1>1 DEF TypeOK
<1>4. Shape'
  BY <1>0, <1>1, <1>2 DEF Shape, Thread
<1>5. TodoExact'
  BY <1>0, <1>2 DEF TodoExact
<1>6. Counts'
  <2>1. Sleepers' = {} /\ Looping' = {}
    BY <1>0, <1>1, <1>2 DEF Sleepers, Looping, InLoop, Thread
  <2> QED
    BY <1>0, <2>1, FS_EmptySet DEF Counts
<1>7. Failures'
  BY <1>0, <1>1, <1>2 DEF Failures
<1>8. NothingLeft' /\ VerdictRight'
  BY <1>0, <1>2 DEF NothingLeft, VerdictRight
<1> QED
  BY <1>3, <1>4, <1>5, <1>6, <1>7, <1>8 DEF IInv

\* The steps that only move program counters, and the pool going down.
LEMMA OtherSteps ==
  ASSUME IInv,
         \/ NotifyOne \/ NotifyAll \/ Wait \/ StopWorkerThreads \/ StopNotify \/ Join
         \/ \E t \in Thread : SpuriousWakeup(t)
  PROVE  IInv'
<1>0. TypeOK /\ Shape /\ Master \in Thread /\ Master \notin Worker
  BY QueueAssumption DEF QueueAssumption, IInv, Thread
<1>1. CASE NotifyOne
  <2>1. UNCHANGED <<shared, locals, history, stop, pool, rounds, starts>>
    BY <1>1 DEF NotifyOne
  <2>2. /\ pc[Master] = "notify_one" /\ pc'[Master] = "hold"
        /\ \A w \in Worker : pc'[w] = pc[w] \/ (pc[w] = "wait" /\ pc'[w] = "woken")
        /\ pc' \in [Thread -> {"off", "hold", "notify_one", "notify_all", "run", "wait",
                              "woken", "work"}]
    BY <1>0, <1>1 DEF NotifyOne, TypeOK, Thread
  <2>3. Shape'
    BY <1>0, <2>1, <2>2 DEF Shape, Thread, locals
  <2> QED
    BY <1>0, <2>1, <2>2, <2>3, PcStep DEF TypeOK, Thread
<1>2. CASE NotifyAll
  <2>1. UNCHANGED <<shared, locals, history, stop, pool, rounds, starts>>
    BY <1>2 DEF NotifyAll
  <2>2. /\ pc[Master] = "notify_all" /\ pc'[Master] = "hold"
        /\ \A w \in Worker : pc'[w] = pc[w] \/ (pc[w] = "wait" /\ pc'[w] = "woken")
        /\ pc' \in [Thread -> {"off", "hold", "notify_one", "notify_all", "run", "wait",
                              "woken", "work"}]
    BY <1>0, <1>2 DEF NotifyAll, TypeOK, Thread
  <2>3. Shape'
    BY Zenon, <1>0, <2>1, <2>2 DEF Shape, Thread, locals
  <2> QED
    BY <1>0, <2>1, <2>2, <2>3, PcStep DEF TypeOK, Thread
<1>3. CASE Wait
  <2>1. UNCHANGED <<shared, locals, history, stop, pool, rounds, starts>>
    BY <1>3 DEF Wait
  <2>2. /\ pc[Master] = "hold" /\ pc'[Master] = "run"
        /\ \A w \in Worker : pc'[w] = pc[w]
        /\ pc' \in [Thread -> {"off", "hold", "notify_one", "notify_all", "run", "wait",
                              "woken", "work"}]
    BY <1>0, <1>3 DEF Wait, TypeOK, Thread
  <2>3. Shape'
    BY Zenon, <1>0, <2>1, <2>2 DEF Shape, Thread, locals
  <2> QED
    BY <1>0, <2>1, <2>2, <2>3, PcStep DEF TypeOK, Thread
<1>4. CASE StopWorkerThreads
  <2>1. /\ UNCHANGED <<shared, locals, history, pc, rounds, starts>>
        /\ stop' = TRUE /\ pool = "up" /\ pool' = "stop" /\ pc[Master] = "off"
    BY <1>4 DEF StopWorkerThreads
  <2>2. Shape'
    BY <1>0, <2>1 DEF Shape, Thread, locals
  <2> QED
    BY <1>0, <2>1, <2>2, PcStep DEF TypeOK, Thread, shared, locals, history
<1>5. CASE StopNotify
  <2>1. /\ UNCHANGED <<shared, locals, history, stop, rounds, starts>>
        /\ pool = "stop" /\ pool' = "join"
    BY <1>5 DEF StopNotify
  <2>2. /\ pc'[Master] = pc[Master]
        /\ \A w \in Worker : pc'[w] = pc[w] \/ (pc[w] = "wait" /\ pc'[w] = "woken")
        /\ pc' \in [Thread -> {"off", "hold", "notify_one", "notify_all", "run", "wait",
                              "woken", "work"}]
    BY <1>0, <1>5 DEF StopNotify, TypeOK, Thread
  <2>3. Shape'
    BY Zenon, <1>0, <2>1, <2>2 DEF Shape, Thread, locals
  <2> QED
    BY <1>0, <2>1, <2>2, <2>3, PcStep DEF TypeOK, Thread
<1>6. CASE Join
  <2>1. /\ UNCHANGED <<shared, locals, history, pc, rounds, starts>>
        /\ stop' = FALSE /\ pool = "join" /\ pool' = "down" /\ \A w \in Worker : pc[w] = "off"
    BY <1>6 DEF Join
  <2>2. Shape'
    BY <1>0, <2>1 DEF Shape, Thread, locals
  <2> QED
    BY Zenon, <1>0, <2>1, <2>2, PcStep DEF TypeOK, Thread, shared, locals, history
<1>7. CASE \E t \in Thread : SpuriousWakeup(t)
  <2> PICK t \in Thread : SpuriousWakeup(t)
    BY <1>7
  <2>1. UNCHANGED <<shared, locals, history, stop, pool, rounds, starts>>
    BY DEF SpuriousWakeup
  <2>2. /\ pc[t] = "wait" /\ pc'[t] = "woken"
        /\ \A u \in Thread : u # t => pc'[u] = pc[u]
        /\ pc' \in [Thread -> {"off", "hold", "notify_one", "notify_all", "run", "wait",
                              "woken", "work"}]
    BY <1>0 DEF SpuriousWakeup, TypeOK, Thread
  <2>3. Shape'
    BY <1>0, <2>1, <2>2 DEF Shape, Thread, locals
  <2> QED
    BY <1>0, <2>1, <2>2, <2>3, PcStep DEF TypeOK, Thread
<1> QED
  BY <1>1, <1>2, <1>3, <1>4, <1>5, <1>6, <1>7

\* Going to sleep, leaving on request, and taking work.
LEMMA LoopSteps ==
  ASSUME IInv, NEW t \in Thread, LoopStep(t)
  PROVE  IInv'
<1> USE DEF history
<1>0. TypeOK /\ Shape /\ Master \in Thread /\ Master \notin Worker
  BY QueueAssumption DEF QueueAssumption, IInv, Thread
<1>1. CASE Sleep(t)
  <2>1. Locked(t, {}, "wait") /\ {} \in SUBSET queue
    BY <1>1 DEF Sleep, Locked
  <2>2. /\ nTotal' = TotalAfter(t) /\ fAllOk' = OkAfter(t) /\ notOk' = notOk \ {t}
        /\ UNCHANGED <<stop, pool, history, rounds, starts>>
    BY <1>1 DEF Sleep
  <2>3. notOk' \subseteq Thread
    BY <1>0, <2>2 DEF TypeOK
  <2> QED
    BY <2>1, <2>2, <2>3, LockedStep
<1>2. CASE Quit(t)
  <2>1. Locked(t, {}, "off") /\ {} \in SUBSET queue
    BY <1>2 DEF Quit, Locked
  <2>2. /\ nTotal' = TotalAfter(t) /\ fAllOk' = OkAfter(t) /\ notOk' = notOk \ {t}
        /\ UNCHANGED <<stop, pool, history, rounds, starts>>
    BY <1>2 DEF Quit
  <2>3. notOk' \subseteq Thread
    BY <1>0, <2>2 DEF TypeOK
  <2>4. t \in Worker /\ pool # "up" /\ pool # "down"
    BY <1>0, <1>2 DEF Quit, Shape, Thread
  <2> QED
    BY <2>1, <2>2, <2>3, <2>4, LockedStep
<1>3. CASE Take(t)
  <2>1. PICK S \in SUBSET queue : /\ Cardinality(S) = NowFor(t)
                                 /\ batch' = [batch EXCEPT ![t] = S]
                                 /\ queue' = queue \ S
    BY Zenon, <1>3 DEF Take
  <2>2. Locked(t, S, "work")
    BY Zenon, <1>3, <2>1 DEF Take, Locked
  <2>3. S # {}
    <3>1. NowFor(t) # 0
      BY QueueAssumption DEF NowFor, QueueAssumption
    <3> QED
      BY <2>1, <3>1, FS_EmptySet
  <2>4. /\ nTotal' = TotalAfter(t) /\ fAllOk' = OkAfter(t)
        /\ notOk' = IF OkAfter(t) THEN notOk \ {t} ELSE notOk \cup {t}
        /\ UNCHANGED <<stop, pool, history, rounds, starts>>
    BY <1>3 DEF Take
  <2>5. notOk' \subseteq Thread /\ \A u \in Thread : u # t => (u \in notOk' <=> u \in notOk)
    BY <1>0, <2>4 DEF TypeOK
  <2>6. t \in notOk' => ~OkAfter(t)
    BY <2>4
  <2> QED
    BY <2>2, <2>3, <2>4, <2>5, <2>6, LockedStep
<1>4. CASE Work(t)
  BY <1>4, WorkStep
<1> QED
  BY <1>1, <1>2, <1>3, <1>4 DEF LoopStep
-----------------------------------------------------------------------------
(* The theorems. *)

\* Before the first start nothing is queued, asleep or counted.
LEMMA InitIInv == Init => IInv
<1> SUFFICES ASSUME Init PROVE IInv
  OBVIOUS
<1>1. Outstanding = {} /\ Sleepers = {} /\ Looping = {}
  BY DEF Init, Outstanding, Sleepers, Looping, InLoop
<1>2. TypeOK
  BY Zenon DEF Init, TypeOK
<1>3. Shape
  BY DEF Init, Shape, Thread
<1>4. TodoExact
  BY <1>1, FS_EmptySet DEF Init, TodoExact
<1>5. Counts
  BY <1>1, FS_EmptySet DEF Init, Counts
<1>6. Failures
  BY <1>1 DEF Init, Failures, Thread
<1>7. NothingLeft /\ VerdictRight
  BY <1>1 DEF Init, NothingLeft, VerdictRight
<1> QED
  BY <1>2, <1>3, <1>4, <1>5, <1>6, <1>7 DEF IInv

\* Every step of master, workers and pool preserves the invariant.
LEMMA NextIInv == IInv /\ [Next]_vars => IInv'
<1> SUFFICES ASSUME IInv, [Next]_vars PROVE IInv'
  OBVIOUS
<1>1. CASE UNCHANGED vars
  BY SMTT(20), <1>1 DEF vars, shared, locals, history, IInv, TypeOK, Shape, TodoExact, Counts, Failures,
       NothingLeft, VerdictRight, Outstanding, Sleepers, Looping, InLoop
<1>2. CASE MakeControl
  BY <1>2, MakeControlStep
<1>3. CASE Return
  BY <1>3, ReturnStep
<1>4. CASE \E S \in SUBSET Check : Add(S)
  BY <1>4, AddStep
<1>5. CASE \E t \in Thread : LoopStep(t)
  BY <1>5, LoopSteps
<1>6. CASE StartWorkerThreads
  BY <1>6, StartStep
<1>7. CASE \/ NotifyOne \/ NotifyAll \/ Wait \/ StopWorkerThreads \/ StopNotify \/ Join
           \/ \E t \in Thread : SpuriousWakeup(t)
  BY <1>7, OtherSteps
<1> QED
  BY <1>1, <1>2, <1>3, <1>4, <1>5, <1>6, <1>7 DEF Next

\* The invariant holds in every reachable state.
LEMMA Invariance == Spec => []IInv
  BY InitIInv, NextIInv, PTL DEF Spec

\* nTodo, nIdle and nTotal never wrap below zero, for any number of threads.
THEOREM QueueTypeCorrect == Spec => []TypeOK
<1>1. IInv => TypeOK
  BY DEF IInv
<1> QED
  BY <1>1, Invariance, PTL

\* nTodo is the number of checks queued or in some thread's hands.
THEOREM TodoAlwaysExact == Spec => []TodoExact
<1>1. IInv => TodoExact
  BY DEF IInv
<1> QED
  BY <1>1, Invariance, PTL

\* Wait returns true exactly when every check added for the block succeeds.
THEOREM VerdictAlwaysRight == Spec => []VerdictRight
<1>1. IInv => VerdictRight
  BY DEF IInv
<1> QED
  BY <1>1, Invariance, PTL

\* No check and no failure outlives the control object it was added under.
THEOREM NothingIsLeft == Spec => []NothingLeft
<1>1. IInv => NothingLeft
  BY DEF IInv
<1> QED
  BY <1>1, Invariance, PTL

\* nIdle and nTotal count the sleeping threads and those in the loop.
THEOREM CountersAlwaysExact == Spec => []CountersExact
<1>1. IInv => CountersExact
  BY DEF IInv, Counts, CountersExact, Sleepers, Looping
<1> QED
  BY <1>1, Invariance, PTL
=============================================================================
