-------------------------- MODULE AlarmClockProofs --------------------------
(***************************************************************************)
(* Theorems about the clock, for any set of alarms and any bound on time.  *)
(***************************************************************************)
EXTENDS AlarmClock, TLAPS

\* A task that waits for an enabled alarm, and was not woken, is on the list.
WaitingLinked == \A a \in waits :
  at[a] # NoTime /\ a \notin woken => a \in linked

AlarmInv == TypeOK /\ Registered /\ AlarmExact /\ WaitingLinked

\* While the provider decides it has no threshold; while it sleeps unwoken it
\* can be woken, for any alarm or for those before its deadline.
ThresholdKnown ==
  /\ pc = "advanced" => threshold = NoTime
  /\ pc = "parked" => threshold \in {NoTime, deadline}
  /\ pc = "parked" /\ ~pWoken => extWaker

\* What MissedOnlyInWindow says of a sleeping provider, from its advance on.
NoneEarlier == \A a \in linked :
  pc # "run" /\ ~pWoken /\ ~raced => deadline # NoTime /\ deadline <= at[a]

ArmedHeld == armed /\ ~pWoken => extWaker

ProviderInv == ThresholdKnown /\ NoneEarlier /\ ArmedHeld /\ ArmedNeverMisses

-----------------------------------------------------------------------------
(* The alarms and their tasks.                                             *)

\* advance keeps what the clock knows of its alarms.
LEMMA AdvanceKeeps ==
  ASSUME AlarmInv, NEW t \in Times, Advance(t)
  PROVE  /\ time' \in Times /\ threshold' \in MaybeTimes /\ extWaker' \in BOOLEAN
         /\ at' \in [Alarms -> MaybeTimes]
         /\ linked' \subseteq waker' /\ waker' \subseteq Alarms
         /\ waits' \subseteq Alarms /\ woken' \subseteq Alarms
         /\ linked' \subseteq linked
         /\ Registered' /\ AlarmExact' /\ WaitingLinked'
<1> USE TimeAssumption DEF AlarmInv, TypeOK, Times, MaybeTimes
<1> DEFINE due == {a \in linked : at[a] = NoTime \/ time' >= at[a]}
<1>1. /\ time' \in Times /\ time <= time' /\ at' = at /\ waits' = waits
      /\ threshold' = NoTime /\ extWaker' = extWaker
  BY DEF Advance, WakeNodes
<1>2. /\ linked' = linked \ due /\ waker' = waker \ due
      /\ woken' = woken \cup (due \cap waker)
  BY DEF Advance, WakeNodes
<1>3. extWaker' \in BOOLEAN
  BY <1>1, Zenon
<1>4. Registered'
  BY <1>1, <1>2, SMT DEF Registered
<1>5. AlarmExact'
  <2> SUFFICES ASSUME NEW a \in waits, at[a] # NoTime
               PROVE  a \in woken' <=> time' >= at[a]
    BY <1>1 DEF AlarmExact
  <2>1. at[a] \in Times
    OBVIOUS
  <2>2. CASE a \in woken
    BY <1>1, <1>2, <2>1, <2>2, SMT DEF AlarmExact
  <2>3. CASE a \notin woken
    <3>1. a \in linked /\ a \in waker
      BY <2>3 DEF WaitingLinked
    <3> QED BY <1>2, <2>3, <3>1
  <2> QED BY <2>2, <2>3
<1>6. WaitingLinked'
  <2> SUFFICES ASSUME NEW a \in waits, at[a] # NoTime, a \notin woken'
               PROVE  a \in linked'
    BY <1>1 DEF WaitingLinked
  <2> QED BY <1>2 DEF WaitingLinked
<1> QED BY <1>1, <1>2, <1>3, <1>4, <1>5, <1>6

\* A poll and a set_alarm keep it too.
LEMMA AlarmCallsKeep ==
  ASSUME AlarmInv, NEW a \in Alarms,
         Poll(a) \/ \E t \in MaybeTimes : SetAlarm(a, t)
  PROVE  AlarmInv'
<1> USE TimeAssumption DEF AlarmInv, TypeOK, Times, MaybeTimes
<1>1. CASE PollDisabled(a)
  <2>1. UNCHANGED <<extWaker, pWoken, armed, raced>>
    BY <1>1 DEF PollDisabled, clock, provider
  <2> QED
    BY <1>1, <2>1, SMT
    DEF PollDisabled, clock, provider, Registered, AlarmExact, WaitingLinked
<1>2. CASE PollMet(a)
  <2> QED
    BY <1>2, SMT
    DEF PollMet, clock, provider, Registered, AlarmExact, WaitingLinked
<1>3. CASE PollWait(a)
  <2>1. extWaker' \in BOOLEAN /\ pWoken' \in BOOLEAN /\ armed' \in BOOLEAN
    BY <1>3, Zenon DEF PollWait, SetWaker, TellProvider
  <2>2. raced' \in BOOLEAN
    <3>1. raced' = (raced \/ Missed(a))
      BY <1>3 DEF PollWait, SetWaker
    <3> QED BY <3>1, Zenon DEF Missed
  <2>3. threshold' \in MaybeTimes
    BY <1>3 DEF PollWait, SetWaker, TellProvider
  <2>4. /\ UNCHANGED <<time, at, now, pc, deadline>>
        /\ waker' = waker \cup {a} /\ linked' = linked \cup {a}
        /\ waits' = waits \cup {a} /\ woken' = woken \ {a}
        /\ at[a] # NoTime /\ time < at[a]
    BY <1>3 DEF PollWait, SetWaker
  <2>5. TypeOK'
    BY <2>1, <2>2, <2>3, <2>4
  <2> QED BY <2>4, <2>5, SMT DEF Registered, AlarmExact, WaitingLinked
<1>4. ASSUME NEW t \in MaybeTimes, SetAlarm(a, t)
      PROVE  AlarmInv'
  BY <1>4, SMT DEF SetAlarm, DropWaker, clock, provider, Registered, AlarmExact, WaitingLinked
<1> QED BY <1>1, <1>2, <1>3, <1>4 DEF Poll

LEMMA AlarmInvInit == Init => AlarmInv
<1> SUFFICES ASSUME Init PROVE AlarmInv
  OBVIOUS
<1>1. /\ extWaker \in BOOLEAN /\ pWoken \in BOOLEAN
      /\ armed \in BOOLEAN /\ raced \in BOOLEAN
  BY Zenon DEF Init
<1> QED
  BY <1>1, TimeAssumption, SMT
  DEF Init, AlarmInv, TypeOK, Times, MaybeTimes, Registered, AlarmExact, WaitingLinked

LEMMA AlarmInvStep == AlarmInv /\ [Next]_vars => AlarmInv'
<1> SUFFICES ASSUME AlarmInv, [Next]_vars PROVE AlarmInv'
  OBVIOUS
<1> USE TimeAssumption DEF AlarmInv, TypeOK, Times, MaybeTimes
<1>1. ASSUME NEW a \in Alarms, Poll(a) \/ \E t \in MaybeTimes : SetAlarm(a, t)
      PROVE  AlarmInv'
  BY <1>1, AlarmCallsKeep
<1>2. CASE ProviderArm
  <2>1. extWaker' \in BOOLEAN /\ armed' \in BOOLEAN /\ pWoken' \in BOOLEAN
        /\ raced' \in BOOLEAN
    BY <1>2, Zenon DEF ProviderArm, PollNewAlarm
  <2> QED
    BY <1>2, <2>1, SMT
    DEF ProviderArm, PollNewAlarm, alarms, Registered, AlarmExact, WaitingLinked
<1>3. CASE ProviderAdvance
  <2>1. Advance(now) /\ now \in Times
    BY <1>3 DEF ProviderAdvance
  <2>2. /\ pWoken' \in BOOLEAN /\ armed' \in BOOLEAN /\ raced' \in BOOLEAN
        /\ now' \in Times /\ pc' = "advanced"
    BY <1>3, Zenon DEF ProviderAdvance
  <2>3. deadline' \in MaybeTimes
    BY <1>3 DEF ProviderAdvance
  <2> QED BY <2>1, <2>2, <2>3, AdvanceKeeps, Zenon
<1>4. CASE ProviderRegister
  <2>1. extWaker' \in BOOLEAN /\ armed' \in BOOLEAN /\ pWoken' \in BOOLEAN
        /\ raced' \in BOOLEAN
    BY <1>4, Zenon DEF ProviderRegister, PollNewAlarm
  <2> QED
    BY <1>4, <2>1, SMT
    DEF ProviderRegister, PollNewAlarm, alarms, Registered, AlarmExact, WaitingLinked
<1>5. CASE ProviderRun
  <2>1. /\ extWaker' \in BOOLEAN /\ pWoken' \in BOOLEAN
        /\ armed' \in BOOLEAN /\ raced' \in BOOLEAN
    BY <1>5, Zenon DEF ProviderRun, clock
  <2> QED
    BY <1>5, <2>1, SMT
    DEF ProviderRun, clock, alarms, Registered, AlarmExact, WaitingLinked
<1>6. ASSUME NEW t \in Times, OtherAdvance(t)
      PROVE  AlarmInv'
  <2>1. Advance(t)
    BY <1>6 DEF OtherAdvance
  <2>2. UNCHANGED <<now, pc, deadline, pWoken, armed, raced>>
    BY <1>6 DEF OtherAdvance, provider
  <2> QED BY <2>1, <2>2, AdvanceKeeps, Zenon
<1>7. CASE TimePasses
  BY <1>7, SMT
  DEF TimePasses, clock, alarms, provider, Registered, AlarmExact, WaitingLinked
<1>8. CASE UNCHANGED vars
  BY <1>8, SMT
  DEF vars, clock, alarms, provider, Registered, AlarmExact, WaitingLinked
<1> QED BY <1>1, <1>2, <1>3, <1>4, <1>5, <1>6, <1>7, <1>8 DEF Next

\* The clock's variables keep their types, and only nodes that hold a waker
\* are linked.
THEOREM TypeCorrect == Spec => []TypeOK
<1>1. AlarmInv => TypeOK
  BY DEF AlarmInv
<1> QED BY <1>1, AlarmInvInit, AlarmInvStep, PTL DEF Spec

\* link, unlink and the wakers agree: no node is on the list with a time that
\* has come or without one, and no waker outlives its registration.
THEOREM NodesAreRegistered == Spec => []Registered
<1>1. AlarmInv => Registered
  BY DEF AlarmInv
<1> QED BY <1>1, AlarmInvInit, AlarmInvStep, PTL DEF Spec

\* advance wakes exactly the waiting tasks whose time has come.
THEOREM AlarmsAreExact == Spec => []AlarmExact
<1>1. AlarmInv => AlarmExact
  BY DEF AlarmInv
<1> QED BY <1>1, AlarmInvInit, AlarmInvStep, PTL DEF Spec
-----------------------------------------------------------------------------
(* The provider.                                                           *)

\* What a poll that has to wait does to the provider: it may take its waker
\* and threshold, and only to wake it.
LEMMA Told ==
  ASSUME TypeOK, NEW a \in Alarms, at[a] # NoTime, TellProvider(a)
  PROVE  /\ threshold' \in {threshold, NoTime}
         /\ extWaker' => extWaker
         /\ pWoken => pWoken'
         /\ extWaker /\ ~pWoken' =>
              extWaker' /\ threshold' = threshold /\ threshold # NoTime
                /\ ~(at[a] < threshold)
<1>1. CASE threshold # NoTime /\ at[a] >= threshold
  <2>1. UNCHANGED <<threshold, extWaker, pWoken>>
    BY <1>1 DEF TellProvider
  <2>2. ~(at[a] < threshold)
    BY <1>1, TimeAssumption, SMT DEF TypeOK, Times, MaybeTimes
  <2> QED BY <1>1, <2>1, <2>2, Zenon
<1>2. CASE ~(threshold # NoTime /\ at[a] >= threshold)
  <2>1. threshold' = NoTime /\ extWaker' = FALSE /\ pWoken' = (pWoken \/ extWaker)
    BY <1>2 DEF TellProvider
  <2> QED BY <2>1, Zenon
<1> QED BY <1>1, <1>2

LEMMA ProviderInvInit == Init => ProviderInv
BY Zenon
DEF Init, ProviderInv, ThresholdKnown, NoneEarlier, ArmedHeld, ArmedNeverMisses

\* advance takes alarms off the list and the threshold, never the waker.
LEMMA AdvanceProvider ==
  ASSUME TypeOK, ProviderInv, NEW t \in Times, Advance(t),
         UNCHANGED provider
  PROVE  ProviderInv'
<1>1. /\ threshold' = NoTime /\ extWaker' = extWaker /\ at' = at
      /\ linked' \subseteq linked
  BY DEF Advance, WakeNodes
<1>2. UNCHANGED <<pc, deadline, pWoken, armed, raced>>
  BY DEF provider
<1> QED
  BY <1>1, <1>2, Zenon
  DEF ProviderInv, ThresholdKnown, NoneEarlier, ArmedHeld, ArmedNeverMisses

LEMMA ProviderInvStep == AlarmInv /\ ProviderInv /\ [Next]_vars => ProviderInv'
<1> SUFFICES ASSUME AlarmInv, ProviderInv, [Next]_vars PROVE ProviderInv'
  OBVIOUS
<1> USE DEF ProviderInv
<1>t. TypeOK
  BY DEF AlarmInv
<1>1. ASSUME NEW a \in Alarms, PollDisabled(a) \/ PollMet(a)
               \/ \E t \in MaybeTimes : SetAlarm(a, t)
      PROVE  ProviderInv'
  <2>1. UNCHANGED <<threshold, extWaker, pc, deadline, pWoken, armed, raced>>
    BY <1>1, Zenon DEF PollDisabled, PollMet, SetAlarm, DropWaker, clock, provider
  <2>2. linked' \subseteq linked /\ \A b \in linked' : at'[b] = at[b]
    BY <1>1, <1>t DEF PollDisabled, PollMet, SetAlarm, DropWaker, TypeOK
  <2> QED
    BY <2>1, <2>2, Zenon DEF ThresholdKnown, NoneEarlier, ArmedHeld, ArmedNeverMisses
<1>2. ASSUME NEW a \in Alarms, PollWait(a)
      PROVE  ProviderInv'
  <2>1. /\ UNCHANGED <<pc, deadline, armed, at>>
        /\ linked' = linked \cup {a} /\ raced' = (raced \/ Missed(a))
        /\ TellProvider(a) /\ at[a] # NoTime
    BY <1>2 DEF PollWait, SetWaker
  <2>2. /\ threshold' \in {threshold, NoTime}
        /\ extWaker' => extWaker
        /\ pWoken => pWoken'
        /\ extWaker /\ ~pWoken' =>
             extWaker' /\ threshold' = threshold /\ threshold # NoTime
               /\ ~(at[a] < threshold)
    BY <2>1, <1>t, Told
  <2>3. ThresholdKnown'
    BY <2>1, <2>2, Zenon DEF ThresholdKnown
  <2>4. ArmedHeld'
    BY <2>1, <2>2, Zenon DEF ArmedHeld
  <2>5. ArmedNeverMisses'
    BY <2>1, <2>2, Zenon DEF ArmedNeverMisses, ArmedHeld, Missed
  <2>6. NoneEarlier'
    <3> SUFFICES ASSUME NEW b \in linked \cup {a}, pc # "run", ~pWoken', ~raced'
                 PROVE  deadline # NoTime /\ deadline <= at[b]
      BY <2>1, Zenon DEF NoneEarlier
    <3>1. ~pWoken /\ ~raced /\ ~Missed(a)
      BY <2>1, <2>2, Zenon
    <3>2. CASE b \in linked
      BY <3>1, <3>2, Zenon DEF NoneEarlier
    <3>3. CASE b = a
      <4>1. pc = "advanced" \/ pc = "parked"
        BY <1>t DEF TypeOK
      <4>2. CASE pc = "advanced"
        <5>1. ~extWaker
          BY <4>2, <2>2, Zenon DEF ThresholdKnown
        <5>2. deadline # NoTime /\ ~(at[a] < deadline)
          BY <3>1, <4>2, <5>1, Zenon DEF Missed
        <5> QED
          BY <5>2, <3>3, <2>1, <1>t, TimeAssumption, SMT DEF TypeOK, Times, MaybeTimes
      <4>3. CASE pc = "parked"
        <5>1. threshold = deadline /\ deadline # NoTime /\ ~(at[a] < deadline)
          BY <4>3, <3>1, <2>2, Zenon DEF ThresholdKnown
        <5> QED
          BY <5>1, <3>3, <2>1, <1>t, TimeAssumption, SMT DEF TypeOK, Times, MaybeTimes
      <4> QED BY <4>1, <4>2, <4>3
    <3> QED BY <3>2, <3>3
  <2> QED BY <2>3, <2>4, <2>5, <2>6
<1>3. CASE ProviderArm
  BY <1>3, Zenon
  DEF ProviderArm, PollNewAlarm, alarms,
      ThresholdKnown, NoneEarlier, ArmedHeld, ArmedNeverMisses
<1>4. CASE ProviderAdvance
  <2>1. /\ Advance(now) /\ pc' = "advanced" /\ raced' = FALSE
        /\ UNCHANGED <<pWoken, armed>> /\ Earliest(deadline', linked')
    BY <1>4 DEF ProviderAdvance
  <2>2. threshold' = NoTime /\ extWaker' = extWaker /\ at' = at
        /\ linked' \subseteq linked
    BY <2>1 DEF Advance, WakeNodes
  <2>3. NoneEarlier'
    <3> SUFFICES ASSUME NEW a \in linked'
                 PROVE  deadline' # NoTime /\ deadline' <= at[a]
      BY <2>2, Zenon DEF NoneEarlier
    <3>1. PICK b \in linked' : deadline' = at[b] /\ \A c \in linked' : at[b] <= at[c]
      BY <2>1 DEF Earliest
    <3> QED BY <3>1, <2>2, Zenon DEF AlarmInv, Registered
  <2> QED
    BY <2>1, <2>2, <2>3, Zenon DEF ThresholdKnown, ArmedHeld, ArmedNeverMisses
<1>5. CASE ProviderRegister
  <2>1. /\ pc = "advanced" /\ pc' = "parked" /\ threshold' = deadline
        /\ extWaker' = TRUE
        /\ UNCHANGED <<at, linked, deadline, pWoken, armed, raced>>
    BY <1>5 DEF ProviderRegister, PollNewAlarm, alarms
  <2> QED
    BY <2>1, Zenon DEF ThresholdKnown, NoneEarlier, ArmedHeld, ArmedNeverMisses
<1>6. CASE ProviderRun
  BY <1>6, Zenon
  DEF ProviderRun, ThresholdKnown, NoneEarlier, ArmedHeld, ArmedNeverMisses
<1>7. ASSUME NEW t \in Times, OtherAdvance(t)
      PROVE  ProviderInv'
  <2>1. Advance(t) /\ UNCHANGED provider
    BY <1>7 DEF OtherAdvance
  <2> QED BY <2>1, <1>t, AdvanceProvider
<1>8. CASE TimePasses \/ UNCHANGED vars
  <2>1. UNCHANGED <<threshold, extWaker, at, linked, pc, deadline, pWoken, armed, raced>>
    BY <1>8, Zenon DEF TimePasses, vars, clock, alarms, provider
  <2> QED
    BY <2>1, Zenon DEF ThresholdKnown, NoneEarlier, ArmedHeld, ArmedNeverMisses
<1> QED BY <1>1, <1>2, <1>3, <1>4, <1>5, <1>6, <1>7, <1>8 DEF Next, Poll

\* The provider sleeps past no alarm but those of the window between its
\* advance and its external_poll_new_alarm.
THEOREM OnlyTheWindowMisses == Spec => []MissedOnlyInWindow
<1>1. ProviderInv => MissedOnlyInWindow
  BY DEF ProviderInv, NoneEarlier, MissedOnlyInWindow
<1> QED
  BY <1>1, AlarmInvInit, AlarmInvStep, ProviderInvInit, ProviderInvStep, PTL DEF Spec

\* A provider that registers for any alarm before its advance misses none.
THEOREM ArmingCloses == Spec => []ArmedNeverMisses
<1>1. ProviderInv => ArmedNeverMisses
  BY DEF ProviderInv
<1> QED
  BY <1>1, AlarmInvInit, AlarmInvStep, ProviderInvInit, ProviderInvStep, PTL DEF Spec
=============================================================================
