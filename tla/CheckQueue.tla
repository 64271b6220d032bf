----------------------------- MODULE CheckQueue -----------------------------
(***************************************************************************)
(* CCheckQueue and CCheckQueueControl (checkqueue.h): the pool of threads  *)
(* that verifies a block's scripts.  ConnectBlock's thread, the master,    *)
(* adds batches of checks while the workers take them; it then calls Wait, *)
(* works along until nothing is left, and returns whether all succeeded.   *)
(*                                                                         *)
(* An action is a stretch of code under m_mutex, or one outside it.  A     *)
(* thread in pc "wait" sleeps in cond.wait; notified, or woken without     *)
(* reason, it is "woken" and must get m_mutex again.  The queue is a set:  *)
(* which checks a thread pops is left open, the stack order being of no    *)
(* consequence.  Whether a check succeeds is a constant, Bad.              *)
(***************************************************************************)
EXTENDS Naturals, FiniteSets

CONSTANTS
  Worker, Master,
  Check, Bad,             \* the checks, and those that return false
  BatchSize,              \* nBatchSize
  MaxRounds, MaxStarts    \* bounds on the blocks checked and on thread starts

Thread == Worker \cup {Master}

ASSUME QueueAssumption ==
  /\ IsFiniteSet(Worker) /\ Master \notin Worker
  /\ IsFiniteSet(Check) /\ Bad \subseteq Check
  /\ BatchSize \in Nat \ {0}
  /\ MaxRounds \in Nat /\ MaxStarts \in Nat

VARIABLES
  queue, nIdle, nTotal, fAllOk, nTodo,
  stop,                   \* m_request_stop
  pool,                   \* where Start- and StopWorkerThreads are
  pc,
  batch,                  \* checks a thread took and has not accounted for, nNow of them
  notOk,                  \* the threads whose fOk is false
  added,                  \* history: the checks added since the control object was made
  verdict,                \* history: what the last Wait returned
  rounds, starts

shared == <<queue, nIdle, nTotal, fAllOk, nTodo>>
locals == <<batch, notOk>>
history == <<added, verdict>>
vars == <<shared, stop, pool, pc, locals, history, rounds, starts>>

(* Counters and sets have the types of the C++ members; nTodo and nIdle,
   decremented without a test, do not wrap below zero. *)
TypeOK ==
  /\ queue \subseteq Check
  /\ nIdle \in Nat /\ nTotal \in Nat /\ nTodo \in Nat
  /\ fAllOk \in BOOLEAN /\ stop \in BOOLEAN
  /\ pool \in {"down", "up", "stop", "join"}
  /\ pc \in [Thread -> {"off", "hold", "notify_one", "notify_all", "run", "wait", "woken", "work"}]
  /\ batch \in [Thread -> SUBSET Check]
  /\ notOk \subseteq Thread
  /\ added \subseteq Check
  /\ verdict \in {"none", "true", "false"}
  /\ rounds \in Nat /\ starts \in Nat

Init ==
  /\ queue = {} /\ nIdle = 0 /\ nTotal = 0 /\ fAllOk = TRUE /\ nTodo = 0
  /\ stop = FALSE /\ pool = "down"
  /\ pc = [t \in Thread |-> "off"]
  /\ batch = [t \in Thread |-> {}]
  /\ notOk = {}
  /\ added = {} /\ verdict = "none"
  /\ rounds = 0 /\ starts = 0
-----------------------------------------------------------------------------
(* The master's side: CCheckQueueControl. *)

\* The constructor takes m_control_mutex.  ConnectBlock uses the queue only
\* when the threads were started (g_parallel_script_checks).
MakeControl ==
  /\ pc[Master] = "off" /\ pool = "up"
  /\ rounds < MaxRounds /\ rounds' = rounds + 1
  /\ pc' = [pc EXCEPT ![Master] = "hold"]
  /\ added' = {} /\ verdict' = "none"
  /\ UNCHANGED <<shared, stop, pool, locals, starts>>

Notice(S) == IF Cardinality(S) = 1 THEN "notify_one" ELSE "notify_all"

Add(S) ==
  /\ pc[Master] = "hold"
  /\ S \subseteq Check \ added /\ S # {}
  /\ queue' = queue \cup S
  /\ nTodo' = nTodo + Cardinality(S)
  /\ added' = added \cup S
  /\ pc' = [pc EXCEPT ![Master] = Notice(S)]
  /\ UNCHANGED <<nIdle, nTotal, fAllOk, stop, pool, locals, verdict, rounds, starts>>

\* The end of Add, after m_mutex is let go.  A notification nobody waits for
\* is lost.
NotifyOne ==
  /\ pc[Master] = "notify_one"
  /\ \/ \E w \in Worker : /\ pc[w] = "wait"
                          /\ pc' = [pc EXCEPT ![w] = "woken", ![Master] = "hold"]
     \/ /\ \A w \in Worker : pc[w] # "wait"
        /\ pc' = [pc EXCEPT ![Master] = "hold"]
  /\ UNCHANGED <<shared, stop, pool, locals, history, rounds, starts>>

NotifyAll ==
  /\ pc[Master] = "notify_all"
  /\ pc' = [t \in Thread |-> IF t = Master THEN "hold"
                             ELSE IF pc[t] = "wait" THEN "woken" ELSE pc[t]]
  /\ UNCHANGED <<shared, stop, pool, locals, history, rounds, starts>>

\* Wait, called by the destructor when ConnectBlock gives up early.
Wait ==
  /\ pc[Master] = "hold"
  /\ pc' = [pc EXCEPT ![Master] = "run"]
  /\ UNCHANGED <<shared, stop, pool, locals, history, rounds, starts>>
-----------------------------------------------------------------------------
(* Loop.  A thread comes under m_mutex at the top of its loop, "run", or from *)
(* cond.wait, "woken".  First what it does there in either case.              *)

\* Mutant: fAllOk takes the value of the batch that was accounted for last.
FaultOkAfter(t) == IF pc[t] = "run" /\ batch[t] # {} THEN t \notin notOk ELSE fAllOk

OkAfter(t) == fAllOk /\ ~(pc[t] = "run" /\ batch[t] # {} /\ t \in notOk)

\* Mutant: checks count as done once they are taken.
FaultTodoAfter(t) == Cardinality(queue)

TodoAfter(t) == IF pc[t] = "run" THEN nTodo - Cardinality(batch[t]) ELSE nTodo

TotalAfter(t) == IF pc[t] = "run" /\ batch[t] = {} THEN nTotal + 1 ELSE nTotal

IdleAfter(t) == IF pc[t] = "woken" THEN nIdle - 1 ELSE nIdle

\* Mutant: the master is not told.
FaultLastDone(t) == FALSE

\* t accounted for the last check and is not the master: m_master_cv.notify_one.
LastDone(t) == pc[t] = "run" /\ batch[t] # {} /\ TodoAfter(t) = 0 /\ t # Master

PcAfter(t, next) ==
  [u \in Thread |-> IF u = t THEN next
                    ELSE IF u = Master /\ pc[u] = "wait" /\ LastDone(t) THEN "woken" ELSE pc[u]]

\* Nothing is queued and nothing is being worked on: the master returns and
\* resets the result.
Return ==
  /\ pc[Master] \in {"run", "woken"}
  /\ queue = {} /\ ~stop /\ TodoAfter(Master) = 0
  /\ nTodo' = 0 /\ nTotal' = TotalAfter(Master) - 1 /\ nIdle' = IdleAfter(Master)
  /\ fAllOk' = TRUE
  /\ verdict' = IF OkAfter(Master) THEN "true" ELSE "false"
  /\ batch' = [batch EXCEPT ![Master] = {}] /\ notOk' = notOk \ {Master}
  /\ pc' = PcAfter(Master, "off")
  /\ UNCHANGED <<queue, stop, pool, added, rounds, starts>>

\* Nothing is queued: cond.wait.
Sleep(t) ==
  /\ pc[t] \in {"run", "woken"}
  /\ queue = {} /\ ~stop /\ ~(t = Master /\ TodoAfter(t) = 0)
  /\ nTodo' = TodoAfter(t) /\ nTotal' = TotalAfter(t) /\ nIdle' = IdleAfter(t) + 1
  /\ fAllOk' = OkAfter(t)
  /\ batch' = [batch EXCEPT ![t] = {}] /\ notOk' = notOk \ {t}
  /\ pc' = PcAfter(t, "wait")
  /\ UNCHANGED <<queue, stop, pool, history, rounds, starts>>

\* m_request_stop: the loop is left without touching nTotal.
Quit(t) ==
  /\ pc[t] \in {"run", "woken"}
  /\ stop
  /\ nTodo' = TodoAfter(t) /\ nTotal' = TotalAfter(t) /\ nIdle' = IdleAfter(t)
  /\ fAllOk' = OkAfter(t)
  /\ batch' = [batch EXCEPT ![t] = {}] /\ notOk' = notOk \ {t}
  /\ pc' = PcAfter(t, "off")
  /\ UNCHANGED <<queue, stop, pool, history, rounds, starts>>

\* How many checks to take.
Share(t) == Cardinality(queue) \div (TotalAfter(t) + IdleAfter(t) + 1)
NowFor(t) == IF Share(t) = 0 THEN 1 ELSE IF Share(t) < BatchSize THEN Share(t) ELSE BatchSize

Take(t) ==
  /\ pc[t] \in {"run", "woken"}
  /\ queue # {} /\ ~stop
  /\ \E S \in SUBSET queue :
       /\ Cardinality(S) = NowFor(t)
       /\ batch' = [batch EXCEPT ![t] = S]
       /\ queue' = queue \ S
  /\ nTodo' = TodoAfter(t) /\ nTotal' = TotalAfter(t) /\ nIdle' = IdleAfter(t)
  /\ fAllOk' = OkAfter(t)
  /\ notOk' = IF OkAfter(t) THEN notOk \ {t} ELSE notOk \cup {t}
  /\ pc' = PcAfter(t, "work")
  /\ UNCHANGED <<stop, pool, history, rounds, starts>>

\* The checks are run, up to the first that fails; m_mutex is not held.
Work(t) ==
  /\ pc[t] = "work"
  /\ notOk' = IF batch[t] \cap Bad = {} THEN notOk ELSE notOk \cup {t}
  /\ pc' = [pc EXCEPT ![t] = "run"]
  /\ UNCHANGED <<shared, stop, pool, batch, history, rounds, starts>>

\* A condition variable may wake a thread for no reason.
SpuriousWakeup(t) ==
  /\ pc[t] = "wait"
  /\ pc' = [pc EXCEPT ![t] = "woken"]
  /\ UNCHANGED <<shared, stop, pool, locals, history, rounds, starts>>
-----------------------------------------------------------------------------
(* Starting and stopping the workers.  Shutdown stops them once the threads   *)
(* that connect blocks are gone.                                              *)

StartWorkerThreads ==
  /\ pool = "down" /\ starts < MaxStarts
  /\ starts' = starts + 1
  /\ pool' = "up"
  /\ nIdle' = 0 /\ nTotal' = 0 /\ fAllOk' = TRUE
  /\ pc' = [t \in Thread |-> IF t \in Worker THEN "run" ELSE pc[t]]
  /\ UNCHANGED <<queue, nTodo, stop, locals, history, rounds>>

StopWorkerThreads ==
  /\ pool = "up" /\ pc[Master] = "off"
  /\ stop' = TRUE /\ pool' = "stop"
  /\ UNCHANGED <<shared, pc, locals, history, rounds, starts>>

\* Mutant: the sleeping workers are not told.
FaultStopNotify ==
  /\ pool = "stop"
  /\ pool' = "join"
  /\ UNCHANGED <<shared, stop, pc, locals, history, rounds, starts>>

StopNotify ==
  /\ pool = "stop"
  /\ pool' = "join"
  /\ pc' = [t \in Thread |-> IF t \in Worker /\ pc[t] = "wait" THEN "woken" ELSE pc[t]]
  /\ UNCHANGED <<shared, stop, locals, history, rounds, starts>>

Join ==
  /\ pool = "join"
  /\ \A w \in Worker : pc[w] = "off"
  /\ stop' = FALSE /\ pool' = "down"
  /\ UNCHANGED <<shared, pc, locals, history, rounds, starts>>

LoopStep(t) == Sleep(t) \/ Quit(t) \/ Take(t) \/ Work(t)

Next ==
  \/ MakeControl \/ NotifyOne \/ NotifyAll \/ Wait \/ Return
  \/ \E S \in SUBSET Check : Add(S)
  \/ \E t \in Thread : LoopStep(t) \/ SpuriousWakeup(t)
  \/ StartWorkerThreads \/ StopWorkerThreads \/ StopNotify \/ Join

\* Every thread that can run does; the control object's owner calls Wait in
\* the end, its destructor does if nothing else.
Fairness ==
  /\ \A t \in Thread : WF_vars(LoopStep(t))
  /\ WF_vars(Return) /\ WF_vars(NotifyOne) /\ WF_vars(NotifyAll) /\ WF_vars(Wait)
  /\ WF_vars(StopNotify) /\ WF_vars(Join)

Spec == Init /\ [][Next]_vars /\ Fairness
-----------------------------------------------------------------------------
(* Properties. *)

InLoop(t) == \/ pc[t] \in {"wait", "woken", "work"}
             \/ pc[t] = "run" /\ batch[t] # {}

(* Wait returns true exactly when every check added since the control object was
   made succeeds: no check is lost between queue and batches, none is skipped
   unless another failed, and no failure of an earlier block is carried over. *)
VerdictRight == verdict # "none" => (verdict = "true" <=> added \cap Bad = {})

\* What has not been accounted for, in the queue or with a thread.
Outstanding == queue \cup UNION {batch[t] : t \in Thread}

(* nTodo, on which the master's return depends, is the number of checks that
   are queued or in some thread's hands, and no check is in two places. *)
TodoExact ==
  /\ nTodo = Cardinality(Outstanding)
  /\ \A t \in Thread : batch[t] \cap queue = {}
  /\ \A t, u \in Thread : t # u => batch[t] \cap batch[u] = {}

(* nIdle and nTotal, which decide how work is shared, count the sleeping threads
   and those in the loop, through stops and restarts of the pool. *)
CountersExact ==
  pool = "up" =>
    /\ nIdle = Cardinality({t \in Thread : pc[t] \in {"wait", "woken"}})
    /\ nTotal = Cardinality({t \in Thread : InLoop(t)})

(* Nothing of a block's checks outlives its control object: the checks point
   into the block and the view ConnectBlock owns. *)
NothingLeft == pc[Master] = "off" => Outstanding = {} /\ fAllOk

(* No wakeup is lost: the master's Wait returns. *)
WaitReturns == pc[Master] = "run" ~> pc[Master] = "off"

(* StopWorkerThreads returns: every sleeping worker learns of the request. *)
StopReturns == pool = "stop" ~> pool = "down"
=============================================================================
