--------------------------- MODULE TaskScheduler ---------------------------
(***************************************************************************)
(* What a ProcMachine promises about its internal tasks, with no bit masks *)
(* and no threads: a task runs only because somebody woke it, a wake stays *)
(* on record until the task runs or is finished, one task runs at a time,  *)
(* and a finished task never runs again.                                   *)
(***************************************************************************)
EXTENDS Naturals

CONSTANT NTasks

Tasks == 1..NTasks

NoTask == 0

VARIABLES
  pend,     \* tasks woken (or never run) since they last started
  alive,    \* tasks that have not returned TaskEnd
  running   \* the task being polled, or NoTask

vars == <<pend, alive, running>>

Init ==
  /\ pend = Tasks
  /\ alive = Tasks
  /\ running = NoTask

Wake(n) ==
  /\ pend' = pend \cup {n}
  /\ UNCHANGED <<alive, running>>

\* The wake that is served may stay on record and be served once more: a wake
\* repeated between its claim and the run counts for two.
Start(n) ==
  /\ running = NoTask
  /\ n \in pend \cap alive
  /\ pend' \in {pend, pend \ {n}}
  /\ running' = n
  /\ UNCHANGED alive

Stop ==
  /\ running # NoTask
  /\ alive' \in {alive, alive \ {running}}
  /\ running' = NoTask
  /\ UNCHANGED pend

\* A wake of a finished task may be dropped, and only such a wake.
Forget ==
  /\ pend' \subseteq pend
  /\ pend \ pend' \subseteq Tasks \ alive
  /\ UNCHANGED <<alive, running>>

Next ==
  \/ \E n \in Tasks : Wake(n) \/ Start(n)
  \/ Stop
  \/ Forget

Spec == Init /\ [][Next]_vars
=============================================================================
