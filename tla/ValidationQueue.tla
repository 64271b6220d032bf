-------------------------- MODULE ValidationQueue ---------------------------
(***************************************************************************)
(* The validation interface: events queued with SchedulerClient, each run  *)
(* by going through the subscribers of MainSignals, while other threads    *)
(* signal some events at once (BlockChecked, NewPoWValidBlock) and         *)
(* subscribers come and go.                                                *)
(***************************************************************************)
EXTENDS Naturals, Sequences, FiniteSets

CONSTANTS Worker, Caller, Main, Loader, QueueLimit, MaxEvents, Subscriber, MaxEntries
VARIABLES
  tasks, stopRequested, pending, running, pc, callback, added, awaited,  \* SchedulerClient
  count, map, at                                                         \* MainSignals

ASSUME ThreadsAssumption ==
  /\ IsFiniteSet(Worker) /\ IsFiniteSet(Caller) /\ IsFiniteSet(Subscriber)
  /\ Worker \cap Caller = {} /\ Main \notin Worker \cup Caller
  /\ Loader \subseteq Caller
  /\ MaxEvents \in Nat \ {0} /\ MaxEntries \in Nat /\ QueueLimit \in Nat

Client == INSTANCE SchedulerClient
Signals == INSTANCE MainSignals WITH Thread <- Client!Thread

Thread == Client!Thread
clientVars == <<tasks, stopRequested, pending, running, pc, callback, added, awaited>>
signalVars == <<count, map, at>>
vars == <<clientVars, signalVars>>

TypeOK == Client!TypeOK /\ Signals!TypeOK
Init == Client!Init /\ Signals!Init
-----------------------------------------------------------------------------
\* The event of ENQUEUE_AND_LOG_EVENT goes from subscriber to subscriber.
EventBegins(t) ==
  /\ pc[t] = "call"
  /\ ~Client!Promised(t)
  /\ Signals!Begin(t)
  /\ UNCHANGED clientVars

EventAdvances(t) ==
  /\ pc[t] = "call"
  /\ Signals!Advance(t)
  /\ at'[t] # 0
  /\ UNCHANGED clientVars

EventEnds(t) ==
  /\ \/ Signals!Advance(t) /\ at'[t] = 0
     \/ at[t] = 0 /\ (Signals!Listed(count) = {} \/ Client!Promised(t)) /\ UNCHANGED signalVars
  /\ Client!CallbackReturns(t)

\* CMainSignals::BlockChecked and NewPoWValidBlock call Iterate directly.
SyncBegins(c) ==
  /\ Client!MayCall(c)
  /\ Signals!Begin(c)
  /\ UNCHANGED clientVars

SyncAdvances(c) ==
  /\ pc[c] = "idle"
  /\ Signals!Advance(c)
  /\ UNCHANGED clientVars

CallerAdds(c) == at[c] = 0 /\ Client!CallerAdds(c) /\ UNCHANGED signalVars
CallerSyncs(c) == at[c] = 0 /\ Client!SyncWithValidationInterfaceQueue(c) /\ UNCHANGED signalVars

Register(s) == pc[Main] # "down" /\ Signals!Register(s) /\ UNCHANGED clientVars
Unregister(s) == pc[Main] # "down" /\ Signals!Unregister(s) /\ UNCHANGED clientVars

\* The end of Shutdown: UnregisterAllValidationInterfaces.
UnregisterAll == pc[Main] = "down" /\ Signals!Clear /\ UNCHANGED clientVars

\* Threads are joined once they are out of Iterate too.
ClientStep(t) ==
  /\ Client!Step(t)
  /\ pc[Main] = "join" /\ t = Main => \A c \in Caller : at[c] = 0
  /\ UNCHANGED signalVars
Shutdown ==
  /\ Client!StopScheduler
  /\ \A c \in Caller \ Loader : at[c] = 0
  /\ UNCHANGED signalVars

\* The loading thread waits in LimitValidationInterfaceQueue for a callback that
\* only the scheduler's threads would run, and they have left.
Hung == \E c \in Loader : awaited[c] # 0 /\ \A w \in Worker : pc[w] = "exit"

Stopped == (pc[Main] = "down" \/ Hung) /\ UNCHANGED vars

\* What a thread does once it is in a call.
Moves(t) ==
  \/ ClientStep(t)
  \/ EventBegins(t) \/ EventAdvances(t) \/ EventEnds(t)
  \/ t \in Caller /\ SyncAdvances(t)

Next ==
  \/ \E t \in Thread : Moves(t)
  \/ \E w \in Worker : Client!SpuriousWakeup(w) /\ UNCHANGED signalVars
  \/ \E c \in Caller : CallerAdds(c) \/ CallerSyncs(c) \/ SyncBegins(c)
  \/ \E s \in Subscriber : Register(s) \/ Unregister(s)
  \/ Shutdown
  \/ UnregisterAll
  \/ Stopped

\* When Moves(t) and, for Main, ClientStep(Main) are enabled.
Busy(t) ==
  IF t \in Worker THEN pc[t] \notin {"wait", "exit"}
  ELSE \/ at[t] # 0
       \/ pc[t] \in {"maybe", "schedule", "notify"}
       \/ pc[t] = "sync" /\ awaited[t] = 0
ShutdownGoesOn ==
  /\ pc[Main] \notin {"up", "call", "down"}
  /\ pc[Main] = "join" => /\ \A w \in Worker : pc[w] = "exit"
                          /\ \A c \in Loader : pc[c] = "idle"
                          /\ \A c \in Caller : at[c] = 0

\* A thread that can take a step of its own takes it; a subscriber's function
\* returns.  Nothing makes a caller add events or Shutdown begin.  The threads
\* Shutdown joins end, since they test ShutdownRequested between two blocks:
\* they cannot be busy for ever each time Shutdown looks.
Fairness ==
  /\ <>[]~ShutdownGoesOn \/ []<><<ClientStep(Main)>>_vars
  /\ []<>(pc[Main] # "call") \/ []<><<Moves(Main)>>_vars
  /\ \A t \in Thread \ {Main} : []<>~Busy(t) \/ []<><<Moves(t)>>_vars

Spec == Init /\ [][Next]_vars /\ Fairness
-----------------------------------------------------------------------------
(* Properties. *)

(* An entry's count is its number of executions in progress plus one while it is
   registered, as ListEntry says, whatever Register and Unregister do meanwhile. *)
CountExact == Signals!CountExact

(* Iterate passes over no subscriber that stays registered, also when the entry
   it stands on is unregistered under it. *)
NoneSkipped == Signals!NoneSkipped

Events == INSTANCE EventQueue WITH queue <- pending, active <- {callback[t] : t \in Thread} \ {0}

(* Whatever the interleaving of workers, callers and Shutdown, events are run
   one at a time, each to its end, in the order in which they were added:
   SingleThreadedSchedulerClient implements a queue served by one thread. *)
InOrder == Events!Spec

(* A network or RPC thread that waits for the queue to drain goes on: every
   event before its own is run, and its own, while the scheduler is up. *)
SyncReturns == \A c \in Caller \ Loader : pc[c] = "sync" ~> pc[c] = "idle"

(* Shutdown, once begun, gets to its end, with no event left behind, unless the
   stop of the scheduler overtakes a loading thread that waits for the queue. *)
ShutdownEnds ==
  pc[Main] = "stopping" ~> \/ pc[Main] = "down" /\ pending = <<>> /\ ~running
                           \/ Hung
=============================================================================
