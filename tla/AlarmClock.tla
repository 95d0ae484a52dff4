----------------------------- MODULE AlarmClock -----------------------------
(***************************************************************************)
(* The clock of src/alarm_clock.rs, the alarms on it, and the one provider *)
(* task that advances it.  Every call takes the clock's mutex, so a call   *)
(* is one step; the provider's loop (advance, then external_poll_new_alarm,*)
(* then sleep until the earliest alarm or until it is woken) is several.   *)
(* Dropping an alarm and making another one acts as set_alarm does.        *)
(***************************************************************************)
EXTENDS Naturals

CONSTANTS
  Alarms,    \* the ClockAlarm futures, each polled by a task of its own
  MaxTime,   \* bound on the time
  NoTime     \* None, for an Option of a time

ASSUME TimeAssumption == MaxTime \in Nat /\ NoTime \notin Nat

Times == 0..MaxTime
MaybeTimes == Times \cup {NoTime}

VARIABLES
  time,       \* ClockHeadInner::time
  threshold,  \* ClockHeadInner::external_threshold
  extWaker,   \* external_waker holds the provider's waker
  at,         \* the wake-up time of each alarm
  linked,     \* alarms in the clock's list
  waker,      \* alarms that hold their task's waker
  waits,      \* alarms whose last poll, since they were set, was Pending
  woken,      \* alarms whose task was woken since its last poll began
  \* The world around the clock.
  now,        \* the time outside
  pc,         \* where the provider stands
  deadline,   \* what its last advance returned
  pWoken,     \* the provider was woken since it last began to run
  \* History variables, which guard only the provider's choice to arm once.
  armed,      \* it registered for any alarm before it called advance
  raced       \* since that advance an alarm that it missed was polled

clock == <<time, threshold, extWaker>>
alarms == <<at, linked, waker, waits, woken>>
provider == <<pc, deadline, pWoken, armed, raced>>
vars == <<clock, alarms, now, provider>>

\* A node is linked only with a waker to call.
TypeOK ==
  /\ time \in Times /\ threshold \in MaybeTimes /\ extWaker \in BOOLEAN
  /\ at \in [Alarms -> MaybeTimes]
  /\ linked \subseteq waker /\ waker \subseteq Alarms
  /\ waits \subseteq Alarms /\ woken \subseteq Alarms
  /\ now \in Times
  /\ pc \in {"run", "advanced", "parked"}
  /\ deadline \in MaybeTimes
  /\ pWoken \in BOOLEAN /\ armed \in BOOLEAN /\ raced \in BOOLEAN

Init ==
  /\ time = 0 /\ threshold = NoTime /\ extWaker = FALSE
  /\ at \in [Alarms -> MaybeTimes]
  /\ linked = {} /\ waker = {} /\ waits = {} /\ woken = {}
  /\ now = 0
  /\ pc = "run" /\ deadline = NoTime /\ pWoken = FALSE
  /\ armed = FALSE /\ raced = FALSE

-----------------------------------------------------------------------------
(* The waker of a node: set_waker, drop_waker and, for nodes that advance  *)
(* takes out, wake, which uses it up.                                      *)

SetWaker(a) == waker' = waker \cup {a}
DropWaker(a) == waker' = waker \ {a}
WakeNodes(nodes) ==
  /\ waker' = waker \ nodes
  /\ woken' = woken \cup (nodes \cap waker)

-----------------------------------------------------------------------------
(* ClockAlarm: alarm_poll and set_alarm.                                   *)

\* The alarm is disabled.
PollDisabled(a) ==
  /\ at[a] = NoTime
  /\ linked' = linked \ {a}
  /\ waits' = waits \cup {a} /\ woken' = woken \ {a}
  /\ UNCHANGED <<clock, at, waker, now, provider>>

\* Ready, and so at every further poll.
PollMet(a) ==
  /\ at[a] # NoTime /\ time >= at[a]
  /\ linked' = linked \ {a}
  /\ waits' = waits \ {a} /\ woken' = woken \ {a}
  /\ UNCHANGED <<clock, at, waker, now, provider>>

\* Seeded fault: without a threshold the provider is not woken.
TellProviderNone(a) ==
  IF threshold = NoTime \/ at[a] >= threshold
    THEN UNCHANGED <<threshold, extWaker, pWoken>>
    ELSE /\ threshold' = NoTime
         /\ extWaker' = FALSE
         /\ pWoken' = (pWoken \/ extWaker)

\* The provider wants to know of alarms before its threshold, or of any.
TellProvider(a) ==
  IF threshold # NoTime /\ at[a] >= threshold
    THEN UNCHANGED <<threshold, extWaker, pWoken>>
    ELSE /\ threshold' = NoTime
         /\ extWaker' = FALSE
         /\ pWoken' = (pWoken \/ extWaker)

\* The provider has looked at the alarms, will sleep past this one, and has
\* left no waker by which to tell it.
Missed(a) ==
  /\ pc = "advanced" /\ ~extWaker /\ ~pWoken
  /\ deadline = NoTime \/ at[a] < deadline

\* Seeded fault: the waker is kept but the node is not linked.
PollWaitUnlinked(a) ==
  /\ at[a] # NoTime /\ time < at[a]
  /\ TellProvider(a)
  /\ raced' = (raced \/ Missed(a))
  /\ SetWaker(a)
  /\ waits' = waits \cup {a} /\ woken' = woken \ {a}
  /\ UNCHANGED <<time, at, linked, now, pc, deadline, armed>>

PollWait(a) ==
  /\ at[a] # NoTime /\ time < at[a]
  /\ TellProvider(a)
  /\ raced' = (raced \/ Missed(a))
  /\ SetWaker(a) /\ linked' = linked \cup {a}
  /\ waits' = waits \cup {a} /\ woken' = woken \ {a}
  /\ UNCHANGED <<time, at, now, pc, deadline, armed>>

\* Seeded fault: the registration survives.
SetAlarmLinked(a, t) ==
  /\ at' = [at EXCEPT ![a] = t]
  /\ waits' = waits \ {a}
  /\ UNCHANGED <<clock, linked, waker, woken, now, provider>>

\* The registration is dropped and nobody is woken: the task has to poll again.
SetAlarm(a, t) ==
  /\ at' = [at EXCEPT ![a] = t]
  /\ linked' = linked \ {a} /\ DropWaker(a)
  /\ waits' = waits \ {a}
  /\ UNCHANGED <<clock, woken, now, provider>>

-----------------------------------------------------------------------------
(* AlarmClock: advance and external_poll_new_alarm.                        *)

\* Seeded fault: an alarm set for exactly the new time is not due.
AdvanceStrict(t) ==
  /\ time' = IF t > time THEN t ELSE time
  /\ threshold' = NoTime
  /\ UNCHANGED extWaker
  /\ LET due == {a \in linked : at[a] = NoTime \/ time' > at[a]}
     IN linked' = linked \ due /\ WakeNodes(due)
  /\ UNCHANGED <<at, waits>>

\* Seeded fault: the provider's waker is thrown away with its threshold.
AdvanceForgets(t) ==
  /\ time' = IF t > time THEN t ELSE time
  /\ threshold' = NoTime /\ extWaker' = FALSE
  /\ LET due == {a \in linked : at[a] = NoTime \/ time' >= at[a]}
     IN linked' = linked \ due /\ WakeNodes(due)
  /\ UNCHANGED <<at, waits>>

\* The clock never goes back; every linked alarm that is due is unlinked and
\* woken; the provider's threshold is gone but not its waker.
Advance(t) ==
  /\ time' = IF t > time THEN t ELSE time
  /\ threshold' = NoTime
  /\ UNCHANGED extWaker
  /\ LET due == {a \in linked : at[a] = NoTime \/ time' >= at[a]}
     IN linked' = linked \ due /\ WakeNodes(due)
  /\ UNCHANGED <<at, waits>>

\* What advance returns: the earliest alarm that is still linked.
Earliest(t, nodes) ==
  \/ nodes = {} /\ t = NoTime
  \/ \E a \in nodes : t = at[a] /\ \A b \in nodes : at[a] <= at[b]

PollNewAlarm(t) ==
  /\ threshold' = t
  /\ extWaker' = TRUE

-----------------------------------------------------------------------------
(* The provider, and anyone else who advances the clock.                   *)

\* It may register for any alarm before it looks at the alarms.
ProviderArm ==
  /\ pc = "run" /\ ~armed
  /\ PollNewAlarm(NoTime)
  /\ armed' = TRUE
  /\ UNCHANGED <<time, alarms, now, pc, deadline, pWoken, raced>>

ProviderAdvance ==
  /\ pc = "run"
  /\ Advance(now)
  /\ \E t \in MaybeTimes : Earliest(t, linked') /\ deadline' = t
  /\ pc' = "advanced"
  /\ raced' = FALSE
  /\ UNCHANGED <<now, pWoken, armed>>

ProviderRegister ==
  /\ pc = "advanced"
  /\ PollNewAlarm(deadline)
  /\ pc' = "parked"
  /\ UNCHANGED <<time, alarms, now, deadline, pWoken, armed, raced>>

\* It runs again, because it has to or for a reason of its own.
ProviderRun ==
  /\ pc = "parked"
  /\ pc' = "run"
  /\ pWoken' = FALSE /\ armed' = FALSE
  /\ UNCHANGED <<clock, alarms, now, deadline, raced>>

\* A time read earlier, or by somebody else, may be stale.
OtherAdvance(t) ==
  /\ t <= now
  /\ Advance(t)
  /\ UNCHANGED <<now, provider>>

TimePasses ==
  /\ now < MaxTime
  /\ now' = now + 1
  /\ UNCHANGED <<clock, alarms, provider>>

-----------------------------------------------------------------------------

Poll(a) == PollDisabled(a) \/ PollMet(a) \/ PollWait(a)

Next ==
  \/ \E a \in Alarms : Poll(a) \/ \E t \in MaybeTimes : SetAlarm(a, t)
  \/ ProviderArm \/ ProviderAdvance \/ ProviderRegister \/ ProviderRun
  \/ \E t \in Times : OtherAdvance(t)
  \/ TimePasses

Spec == Init /\ [][Next]_vars

-----------------------------------------------------------------------------
(* Safety.                                                                 *)

\* A linked alarm is armed and ahead of the clock; an alarm off the list holds
\* no waker ("already consumed by the clock advance, or never stored").
Registered ==
  /\ waker \subseteq linked
  /\ \A a \in linked : at[a] # NoTime /\ time < at[a]

\* A task that waits for an enabled alarm has been woken if the clock has
\* reached it, and has not been woken before.
AlarmExact == \A a \in waits :
  at[a] # NoTime => (a \in woken <=> time >= at[a])

\* The provider sleeps past no alarm, unless it was polled between the
\* advance and the external_poll_new_alarm and found no waker to call.
MissedOnlyInWindow == \A a \in linked :
  pc = "parked" /\ ~pWoken /\ ~raced => deadline # NoTime /\ deadline <= at[a]

\* A provider that has registered for any alarm before its advance misses
\* none: advance leaves its waker in place.
ArmedNeverMisses == armed /\ pc # "run" => ~raced

-----------------------------------------------------------------------------
(* Liveness.                                                               *)

MustRun == pWoken \/ (deadline # NoTime /\ deadline <= now)

\* The provider goes on once it runs, and runs when it was woken and when its
\* timer is over.
FairSpec ==
  /\ Spec
  /\ WF_vars(ProviderAdvance) /\ WF_vars(ProviderRegister)
  /\ WF_vars(MustRun /\ ProviderRun)

\* A task that waits for an alarm whose time has come is woken, as long as the
\* provider misses none.
AlarmsRing == []~raced =>
  \A a \in Alarms :
    (a \in waits /\ at[a] # NoTime /\ at[a] <= now) ~> (a \in woken \/ a \notin waits)
=============================================================================
