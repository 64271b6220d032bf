----------------------------- MODULE EventQueue -----------------------------
(***************************************************************************)
(* What SingleThreadedSchedulerClient promises: callbacks "behave as if    *)
(* they are executed in order by a single thread".  Events are numbered in *)
(* the order in which they were added.                                     *)
(***************************************************************************)
EXTENDS Naturals, Sequences

CONSTANT MaxEvents
VARIABLES
  added,    \* how many events have been added
  queue,    \* added and not started
  active    \* the events whose callback runs: at most one

vars == <<added, queue, active>>

Init == added = 0 /\ queue = <<>> /\ active = {}

Add ==
  /\ added < MaxEvents
  /\ added' = added + 1
  /\ queue' = Append(queue, added + 1)
  /\ UNCHANGED active

Start ==
  /\ active = {}
  /\ queue # <<>>
  /\ active' = {Head(queue)}
  /\ queue' = Tail(queue)
  /\ UNCHANGED added

Finish ==
  /\ active # {}
  /\ active' = {}
  /\ UNCHANGED <<added, queue>>

Next == Add \/ Start \/ Finish

\* An event that is started is run to its end.
Spec == Init /\ [][Next]_vars /\ WF_vars(Finish)
=============================================================================
