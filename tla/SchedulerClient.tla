-------------------------- MODULE SchedulerClient ---------------------------
(***************************************************************************)
(* CScheduler (scheduler.cpp) and the SingleThreadedSchedulerClient that   *)
(* the validation interface queues its events with.                        *)
(*                                                                         *)
(* Worker threads sit in CScheduler::serviceQueue and run tasks; every     *)
(* task here is a ProcessQueue of the one client, due when it is scheduled.*)
(* Callers add callbacks, or one that they wait for.  Main is the thread   *)
(* that runs Shutdown: it joins the network and RPC threads, stops the     *)
(* scheduler, joins the thread that loads blocks, adds the event of the    *)
(* last flush and empties the queue itself.  A step is what a thread does  *)
(* under one lock, or between two of them; pc says where each thread is.   *)
(***************************************************************************)
EXTENDS Naturals, Sequences, FiniteSets

CONSTANTS
  Worker, Caller, Main,
  Loader,              \* the callers that Shutdown joins after it stopped the scheduler
  QueueLimit,          \* what LimitValidationInterfaceQueue lets be pending: 10 in the code
  MaxEvents            \* bound on the callbacks added
VARIABLES
  tasks,               \* taskQueue: how many ProcessQueue tasks it holds
  stopRequested,
  pending,             \* m_callbacks_pending
  running,             \* m_are_callbacks_running
  pc,
  callback,            \* the callback in a thread's hands, 0 for none
  added,               \* callbacks added so far; also the last one's number
  awaited              \* the callback whose promise a caller waits for, 0 for none

schedulerVars == <<tasks, stopRequested>>
clientVars == <<pending, running, added, awaited>>
vars == <<tasks, stopRequested, pending, running, pc, callback, added, awaited>>

Thread == Worker \cup Caller \cup {Main}

\* "wait": in newTaskScheduled.wait; "due": in wait_until for the first task,
\* whose time has come.
ServiceStates == {"top", "wait", "due", "exit"}
ProcessStates == {"process", "call", "reset", "maybe", "schedule", "notify"}
ShutdownStates == {"up", "stopping", "join", "flush", "drain", "down"}

TypeOK ==
  /\ tasks \in Nat
  /\ stopRequested \in BOOLEAN /\ running \in BOOLEAN
  /\ added \in 0..MaxEvents
  /\ pending \in Seq(1..MaxEvents)
  /\ pc \in [Thread -> ServiceStates \cup ProcessStates \cup ShutdownStates \cup {"idle", "sync"}]
  /\ callback \in [Thread -> 0..MaxEvents] /\ awaited \in [Caller -> 0..MaxEvents]

Init ==
  /\ tasks = 0 /\ stopRequested = FALSE
  /\ pending = <<>> /\ running = FALSE /\ added = 0
  /\ pc = [t \in Thread |-> IF t \in Worker THEN "top" ELSE IF t = Main THEN "up" ELSE "idle"]
  /\ callback = [t \in Thread |-> 0] /\ awaited = [c \in Caller |-> 0]

Go(t, s) == pc' = [pc EXCEPT ![t] = s]

\* Where a thread goes on when the call of MaybeScheduleProcessQueue or of
\* ProcessQueue it is in returns.
Back(t) ==
  IF t \in Worker THEN "top"
  ELSE IF t = Main THEN "drain"
  ELSE IF awaited[t] = 0 THEN "idle" ELSE "sync"

\* The threads that may receive a notification of newTaskScheduled.  The time
\* of the first task has passed, so wait_until reports a timeout to one in
\* "due" whether or not it was notified.
Sleepers == {w \in Worker : pc[w] \in {"wait", "due"}}
Woken(w) == IF pc[w] = "wait" THEN "top" ELSE pc[w]
-----------------------------------------------------------------------------
(* CScheduler::serviceQueue. *)

\* newTaskMutex is held from the top of the loop to a wait.
Service(w) ==
  /\ pc[w] = "top"
  /\ ~stopRequested
  /\ Go(w, IF tasks = 0 THEN "wait" ELSE "due")
  /\ UNCHANGED <<schedulerVars, clientVars, callback>>

\* t goes on at s and one of the sleepers, if any, is woken.
GoNotifying(t, s) ==
  \/ Sleepers = {} /\ Go(t, s)
  \/ \E w \in Sleepers : pc' = [pc EXCEPT ![t] = s, ![w] = Woken(w)]

\* shouldStop() at the top of the loop; the thread leaves and wakes another.
Leave(w) ==
  /\ pc[w] = "top"
  /\ stopRequested
  /\ GoNotifying(w, "exit")
  /\ UNCHANGED <<schedulerVars, clientVars, callback>>

\* wait_until reports a timeout: the first task is due.  Another worker may
\* have taken it.
TakeTask(w) ==
  /\ pc[w] = "due"
  /\ IF stopRequested \/ tasks = 0
     THEN Go(w, "top") /\ UNCHANGED tasks
     ELSE Go(w, "process") /\ tasks' = tasks - 1
  /\ UNCHANGED <<stopRequested, clientVars, callback>>

SpuriousWakeup(w) ==
  /\ pc[w] = "wait"
  /\ Go(w, "top")
  /\ UNCHANGED <<schedulerVars, clientVars, callback>>
-----------------------------------------------------------------------------
(* SingleThreadedSchedulerClient. *)

\* Mutant: the flag is set and not tested.
FaultProcessQueue(t) ==
  /\ pc[t] = "process"
  /\ IF pending = <<>>
     THEN Go(t, Back(t)) /\ UNCHANGED <<pending, running, callback>>
     ELSE /\ running' = TRUE
          /\ callback' = [callback EXCEPT ![t] = Head(pending)]
          /\ pending' = Tail(pending)
          /\ Go(t, "call")
  /\ UNCHANGED <<schedulerVars, added, awaited>>

\* ProcessQueue up to the callback.
ProcessQueue(t) ==
  /\ pc[t] = "process"
  /\ IF running \/ pending = <<>>
     THEN Go(t, Back(t)) /\ UNCHANGED <<pending, running, callback>>
     ELSE /\ running' = TRUE
          /\ callback' = [callback EXCEPT ![t] = Head(pending)]
          /\ pending' = Tail(pending)
          /\ Go(t, "call")
  /\ UNCHANGED <<schedulerVars, added, awaited>>

\* Some caller waits for the callback in t's hands.
Promised(t) == \E c \in Caller : awaited[c] = callback[t]

\* The callback returns, or throws; one that was waited for sets the promise.
CallbackReturns(t) ==
  /\ pc[t] = "call"
  /\ callback' = [callback EXCEPT ![t] = 0]
  /\ awaited' = [c \in Caller |-> IF awaited[c] = callback[t] THEN 0 ELSE awaited[c]]
  /\ Go(t, "reset")
  /\ UNCHANGED <<schedulerVars, pending, running, added>>

\* Mutant: the rest of the queue is left to the next caller that adds to it.
FaultResetRunning(t) ==
  /\ pc[t] = "reset"
  /\ running' = FALSE
  /\ Go(t, Back(t))
  /\ UNCHANGED <<schedulerVars, pending, added, awaited, callback>>

\* ~RAIICallbacksRunning.
ResetRunning(t) ==
  /\ pc[t] = "reset"
  /\ running' = FALSE
  /\ Go(t, "maybe")
  /\ UNCHANGED <<schedulerVars, pending, added, awaited, callback>>

\* MaybeScheduleProcessQueue tests under m_callbacks_mutex ...
MaybeScheduleProcessQueue(t) ==
  /\ pc[t] = "maybe"
  /\ Go(t, IF running \/ pending = <<>> THEN Back(t) ELSE "schedule")
  /\ UNCHANGED <<schedulerVars, clientVars, callback>>

\* ... then CScheduler::schedule inserts the task under newTaskMutex ...
Schedule(t) ==
  /\ pc[t] = "schedule"
  /\ tasks' = tasks + 1
  /\ Go(t, "notify")
  /\ UNCHANGED <<stopRequested, clientVars, callback>>

\* ... and notifies after letting go of it.
NotifyOne(t) ==
  /\ pc[t] = "notify"
  /\ GoNotifying(t, Back(t))
  /\ UNCHANGED <<schedulerVars, clientVars, callback>>

\* AddToProcessQueue, up to the call of MaybeScheduleProcessQueue.
AddToProcessQueue(t) ==
  /\ added' = added + 1
  /\ pending' = Append(pending, added + 1)
  /\ Go(t, "maybe")
  /\ UNCHANGED <<schedulerVars, running, callback>>

\* The network and RPC threads are joined before the scheduler is stopped, the
\* thread that loads blocks after.
MayCall(c) ==
  /\ pc[c] = "idle"
  /\ pc[Main] \in IF c \in Loader THEN {"up", "stopping", "join"} ELSE {"up"}

\* The bound leaves one event for Shutdown.
CallerAdds(c) ==
  /\ MayCall(c)
  /\ added < MaxEvents - 1
  /\ AddToProcessQueue(c)
  /\ UNCHANGED awaited

\* SyncWithValidationInterfaceQueue: from LimitValidationInterfaceQueue, in
\* ActivateBestChain, when too much is pending; RPC calls do it at any time.
SyncWithValidationInterfaceQueue(c) ==
  /\ MayCall(c)
  /\ added < MaxEvents - 1
  /\ c \in Loader => Len(pending) > QueueLimit
  /\ AddToProcessQueue(c)
  /\ awaited' = [awaited EXCEPT ![c] = added + 1]

\* promise.get_future().wait() returns.
FutureReady(c) ==
  /\ pc[c] = "sync"
  /\ awaited[c] = 0
  /\ Go(c, "idle")
  /\ UNCHANGED <<schedulerVars, clientVars, callback>>
-----------------------------------------------------------------------------
(* init.cpp Shutdown. *)

\* The network and RPC threads have ended; CScheduler::stop sets the flag under
\* newTaskMutex, then notifies.
StopScheduler ==
  /\ pc[Main] = "up"
  /\ \A c \in Caller \ Loader : pc[c] = "idle"
  /\ stopRequested' = TRUE
  /\ Go(Main, "stopping")
  /\ UNCHANGED <<tasks, clientVars, callback>>

\* Mutant: the flag is set and nobody is told.
FaultNotifyAll ==
  /\ pc[Main] = "stopping"
  /\ Go(Main, "join")
  /\ UNCHANGED <<schedulerVars, clientVars, callback>>

NotifyAll ==
  /\ pc[Main] = "stopping"
  /\ pc' = [t \in Thread |-> IF t = Main THEN "join" ELSE Woken(t)]
  /\ UNCHANGED <<schedulerVars, clientVars, callback>>

\* The workers have left serviceQueue and the loading thread is joined.
JoinThreads ==
  /\ pc[Main] = "join"
  /\ \A w \in Worker : pc[w] = "exit"
  /\ \A c \in Loader : pc[c] = "idle"
  /\ Go(Main, "flush")
  /\ UNCHANGED <<schedulerVars, clientVars, callback>>

\* ForceFlushStateToDisk adds a ChainStateFlushed event.
FlushAdds ==
  /\ pc[Main] = "flush"
  /\ AddToProcessQueue(Main)
  /\ UNCHANGED awaited

\* EmptyQueue's test: ProcessQueue again while something is pending.
EmptyQueue ==
  /\ pc[Main] = "drain"
  /\ Go(Main, IF pending = <<>> THEN "down" ELSE "process")
  /\ UNCHANGED <<schedulerVars, clientVars, callback>>
-----------------------------------------------------------------------------
\* What a thread does by itself, the callback apart.
Step(t) ==
  \/ t \in Worker /\ (Service(t) \/ Leave(t) \/ TakeTask(t))
  \/ ProcessQueue(t) \/ ResetRunning(t)
  \/ MaybeScheduleProcessQueue(t) \/ Schedule(t) \/ NotifyOne(t)
  \/ t \in Caller /\ FutureReady(t)
  \/ t = Main /\ (NotifyAll \/ JoinThreads \/ FlushAdds \/ EmptyQueue)
=============================================================================
