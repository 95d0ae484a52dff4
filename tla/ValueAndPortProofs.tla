------------------------- MODULE ValueAndPortProofs -------------------------
(***************************************************************************)
(* Theorems about the two small objects that keep the wakers of tasks: the *)
(* watchable value, for any watchers and tasks and for every number of     *)
(* values, and the port, for every number of resets.                       *)
(***************************************************************************)
EXTENDS WatchableValue, IoPort, TLAPS

-----------------------------------------------------------------------------
(* The watchable value.                                                    *)

USE WatchAssumption DEF MaybeTasks

\* No watch has seen a value of the future, and one never polled has seen none.
SeenInv == \A w \in Watchers :
  /\ seen[w] <= version
  /\ poller[w] = NoTask <=> seen[w] = 0

\* A watch is linked exactly while it has seen the current value, and then
\* holds the waker of the task that polled it last.
LinkInv == \A w \in Watchers :
  /\ w \in linked <=> seen[w] = version
  /\ w \in linked => waker[w] = poller[w]

IInv == TypeOK /\ SeenInv /\ LinkInv /\ ToldOfChange

\* A poll by any task leaves the watch linked, registered and up to date, and
\* the other watches alone.
LEMMA ArmKeeps ==
  ASSUME IInv, NEW w \in Watchers, NEW t \in Tasks, Arm(w, t),
         given' \in [Watchers -> BOOLEAN]
  PROVE  IInv'
<1> USE DEF IInv, TypeOK, SeenInv, LinkInv, ToldOfChange
<1>1. /\ seen' = [seen EXCEPT ![w] = version] /\ version' = version
      /\ waker' = [waker EXCEPT ![w] = t] /\ poller' = [poller EXCEPT ![w] = t]
      /\ linked' = linked \cup {w} /\ woken' = woken \ {w}
  BY DEF Arm
<1>2. TypeOK'
  BY <1>1
<1>3. ASSUME NEW v \in Watchers
      PROVE  /\ seen'[v] <= version'
             /\ poller'[v] = NoTask <=> seen'[v] = 0
             /\ v \in linked' <=> seen'[v] = version'
             /\ v \in linked' => waker'[v] = poller'[v]
             /\ poller'[v] # NoTask => (v \in woken' <=> seen'[v] # version')
  <2>1. CASE v = w
    BY <1>1, <2>1
  <2>2. CASE v # w
    <3>1. /\ seen'[v] = seen[v] /\ waker'[v] = waker[v] /\ poller'[v] = poller[v]
          /\ v \in linked' <=> v \in linked
          /\ v \in woken' <=> v \in woken
      BY <1>1, <2>2
    <3> QED
      BY <1>1, <3>1
  <2> QED
    BY <2>1, <2>2
<1> QED
  BY <1>2, <1>3

\* Every call keeps the invariant; set, because filter hands every node it
\* unlinks to wake.
LEMMA Step ==
  ASSUME IInv, [Next]_vars
  PROVE  IInv'
<1> USE DEF IInv
<1>1. CASE Set
  <2> USE DEF TypeOK, SeenInv, LinkInv, ToldOfChange
  <2>1. /\ version \in Nat /\ version' = version + 1 /\ version' \in 1..MaxVersion
        /\ linked' = {} /\ UNCHANGED <<poller, seen, given>>
        /\ woken' = woken \cup {w \in linked : waker[w] # NoTask /\ waker[w] = poller[w]}
        /\ waker' = [w \in Watchers |-> IF w \in linked THEN NoTask ELSE waker[w]]
    BY <1>1 DEF Set, WakeAll
  <2>2. TypeOK'
    BY <2>1
  <2>3. ASSUME NEW v \in Watchers
        PROVE  /\ seen'[v] < version'
               /\ poller'[v] = NoTask <=> seen'[v] = 0
               /\ poller'[v] # NoTask => v \in woken'
    <3>1. seen[v] \in Nat /\ seen[v] <= version
      BY <2>1
    <3>2. poller[v] # NoTask => v \in woken \/ v \in linked
      BY <2>1
    <3>3. poller[v] # NoTask => v \in woken'
      BY <2>1, <3>2
    <3> QED
      BY <2>1, <3>1, <3>3
  <2> QED
    BY <2>1, <2>2, <2>3
<1>2. ASSUME NEW w \in Watchers, NEW t \in Tasks, WatchPoll(w, t) \/ WatchCheck(w, t)
      PROVE  IInv'
  <2>1. Arm(w, t)
    BY <1>2 DEF WatchPoll, WatchCheck
  <2>2. given' \in [Watchers -> BOOLEAN]
    BY <1>2 DEF WatchPoll, WatchCheck, TypeOK
  <2> QED
    BY <2>1, <2>2, ArmKeeps
<1>3. ASSUME NEW w \in Watchers, Drop(w)
      PROVE  IInv'
  <2> USE DEF TypeOK, SeenInv, LinkInv, ToldOfChange
  <2>1. /\ seen' = [seen EXCEPT ![w] = 0] /\ version' = version
        /\ waker' = [waker EXCEPT ![w] = NoTask] /\ poller' = [poller EXCEPT ![w] = NoTask]
        /\ linked' = linked \ {w} /\ woken' = woken \ {w}
    BY <1>3 DEF Drop
  <2>2. TypeOK'
    BY <1>3, <2>1 DEF Drop
  <2>3. ASSUME NEW v \in Watchers
        PROVE  /\ seen'[v] <= version'
               /\ poller'[v] = NoTask <=> seen'[v] = 0
               /\ v \in linked' <=> seen'[v] = version'
               /\ v \in linked' => waker'[v] = poller'[v]
               /\ poller'[v] # NoTask => (v \in woken' <=> seen'[v] # version')
    <3>1. CASE v = w
      BY <2>1, <3>1
    <3>2. CASE v # w
      <4>1. /\ seen'[v] = seen[v] /\ waker'[v] = waker[v] /\ poller'[v] = poller[v]
            /\ v \in linked' <=> v \in linked
            /\ v \in woken' <=> v \in woken
        BY <2>1, <3>2
      <4> QED
        BY <2>1, <4>1
    <3> QED
      BY <3>1, <3>2
  <2> QED
    BY <2>2, <2>3
<1>4. CASE UNCHANGED vars
  BY <1>4 DEF vars, TypeOK, SeenInv, LinkInv, ToldOfChange
<1> QED
  BY <1>1, <1>2, <1>3, <1>4 DEF Next

\* The links and the wakers say what was seen, in every reachable state.
LEMMA Invariant == Spec => []IInv
<1>1. Init => IInv
  BY DEF Init, IInv, TypeOK, SeenInv, LinkInv, ToldOfChange
<1>2. IInv /\ [Next]_vars => IInv'
  BY Step
<1> QED
  BY <1>1, <1>2, PTL DEF Spec

(***************************************************************************)
(* The variables have their types; in particular no watch returns a value  *)
(* that was never set.                                                     *)
(***************************************************************************)
THEOREM TypeCorrect == Spec => []TypeOK
<1>1. IInv => TypeOK
  BY DEF IInv
<1> QED
  BY <1>1, Invariant, PTL

(***************************************************************************)
(* The task that polled a watch last is woken exactly when there is a      *)
(* value it was not given, through every change of task.                   *)
(***************************************************************************)
THEOREM ChangesAreTold == Spec => []ToldOfChange
<1>1. IInv => ToldOfChange
  BY DEF IInv
<1> QED
  BY <1>1, Invariant, PTL

(***************************************************************************)
(* A bit per watch, its being linked, implements the comparison of what    *)
(* was seen with what there is.                                            *)
(***************************************************************************)
THEOREM ValueImplementsLatestValue == Spec => ImplementsLatestValue
<1>1. Init => Promise!Init
  BY DEF Init, Promise!Init
<1>2. IInv /\ [Next]_vars => [Promise!Next]_(Promise!vars)
  <2> SUFFICES ASSUME IInv, [Next]_vars
               PROVE  [Promise!Next]_(Promise!vars)
    OBVIOUS
  <2>1. CASE Set
    BY <2>1 DEF Set, Promise!Next, Promise!Publish
  <2>2. ASSUME NEW w \in Watchers, NEW t \in Tasks, WatchPoll(w, t)
        PROVE  Promise!Next
    <3>1. w \notin linked <=> seen[w] # version
      BY DEF IInv, LinkInv
    <3>2. given' = [given EXCEPT ![w] = seen[w] # version]
      BY <2>2, <3>1, Zenon DEF WatchPoll
    <3>3. Promise!Look(w)
      BY <2>2, <3>2 DEF WatchPoll, Arm, Promise!Look
    <3> QED
      BY <3>3 DEF Promise!Next
  <2>3. ASSUME NEW w \in Watchers, NEW t \in Tasks, WatchCheck(w, t)
        PROVE  Promise!Next
    BY <2>3 DEF WatchCheck, Arm, Promise!Check, Promise!Next
  <2>4. ASSUME NEW w \in Watchers, Drop(w)
        PROVE  Promise!Next
    BY <2>4 DEF Drop, Promise!Renew, Promise!Next
  <2>5. CASE UNCHANGED vars
    BY <2>5 DEF vars, Promise!vars
  <2> QED
    BY <2>1, <2>2, <2>3, <2>4, <2>5 DEF Next
<1> QED
  BY <1>1, <1>2, Invariant, PTL DEF Spec, ImplementsLatestValue, Promise!Spec

-----------------------------------------------------------------------------
(* The port.                                                               *)

(***************************************************************************)
(* The variables have their types.                                         *)
(***************************************************************************)
THEOREM PortTypeCorrect == PortSpec => []PortTypeOK
<1> USE ResetsAssumption DEF PortTypeOK
<1>1. PortInit => PortTypeOK
  <2> SUFFICES ASSUME PortInit PROVE PortTypeOK
    OBVIOUS
  <2>1. isPredropped \in BOOLEAN
    BY Zenon DEF PortInit
  <2> QED
    BY <2>1 DEF PortInit
<1>2. PortTypeOK /\ [PortNext]_portVars => PortTypeOK'
  <2> SUFFICES ASSUME PortTypeOK, [PortNext]_portVars PROVE PortTypeOK'
    OBVIOUS
  <2>1. ASSUME NEW r \in Roles, PollPending(r) \/ PollEnd(r) \/ InnerWake(r) PROVE PortTypeOK'
    BY <2>1 DEF PollPending, PollEnd, InnerWake, Leave
  <2>2. ASSUME NEW r \in Roles, NEW ready \in BOOLEAN, PollInner(r, ready) PROVE PortTypeOK'
    BY <2>2 DEF PollInner, Leave
  <2>3. CASE Connect \/ TryPredrop
    <3>1. isPredropped' \in BOOLEAN
      BY <2>3, Zenon DEF Connect, TryPredrop
    <3> QED
      BY <2>3, <3>1 DEF Connect, TryPredrop, WakeWaiters
  <2>4. CASE DropRead
    <3>1. isPredropped' \in BOOLEAN
      BY <2>4, Zenon DEF DropRead
    <3> QED
      BY <2>4, <3>1 DEF DropRead, Leave, Roles
  <2>5. CASE Reset \/ DropPort
    <3>1. isPredropped' \in BOOLEAN
      BY <2>5, Zenon DEF Reset, DropPort
    <3> QED
      BY <2>5, <3>1 DEF Reset, DropPort, WakeWaiters
  <2>6. CASE UNCHANGED portVars
    BY <2>6 DEF portVars
  <2> QED
    BY <2>1, <2>2, <2>3, <2>4, <2>5, <2>6 DEF PortNext, Poll
<1> QED
  BY <1>1, <1>2, PTL DEF PortSpec

(***************************************************************************)
(* A task that waits for the connection is told of it, and of the port     *)
(* being dropped; a reset in between does not make the port forget it.     *)
(***************************************************************************)
THEOREM ConnectionIsTold == PortSpec => []ConnectTold
<1>1. PortInit => ConnectTold
  BY DEF PortInit, ConnectTold
<1>2. PortTypeOK /\ ConnectTold /\ [PortNext]_portVars => ConnectTold'
  <2> SUFFICES ASSUME PortTypeOK, ConnectTold, [PortNext]_portVars PROVE ConnectTold'
    OBVIOUS
  <2> USE DEF PortTypeOK, ConnectTold
  <2>1. ASSUME NEW r \in Roles, PollPending(r) \/ PollEnd(r) \/ InnerWake(r)
        PROVE  ConnectTold'
    BY <2>1 DEF PollPending, PollEnd, InnerWake, Leave
  <2>2. ASSUME NEW r \in Roles, NEW ready \in BOOLEAN, PollInner(r, ready)
        PROVE  ConnectTold'
    BY <2>2 DEF PollInner, Leave
  <2>3. CASE Connect \/ TryPredrop
    BY <2>3 DEF Connect, TryPredrop, WakeWaiters
  <2>4. CASE DropRead
    BY <2>4 DEF DropRead, Leave
  <2>5. CASE Reset \/ DropPort
    BY <2>5 DEF Reset, DropPort, WakeWaiters
  <2>6. CASE UNCHANGED portVars
    BY <2>6 DEF portVars
  <2> QED
    BY <2>1, <2>2, <2>3, <2>4, <2>5, <2>6 DEF PortNext, Poll
<1> QED
  BY <1>1, <1>2, PortTypeCorrect, PTL DEF PortSpec

\* Once a task was told of the end, the port is pre-dropped until it is reset.
EndInv ==
  told # {} => state # "connected" /\ (state = "disconnected" => isPredropped)

(***************************************************************************)
(* No connection is made between the report of the end and a reset.        *)
(***************************************************************************)
THEOREM EndStays == PortSpec => []EndIsFinal
<1>1. PortInit => EndInv
  BY DEF PortInit, EndInv
<1>2. EndInv /\ [PortNext]_portVars => EndInv'
  <2> SUFFICES ASSUME EndInv, [PortNext]_portVars PROVE EndInv'
    OBVIOUS
  <2> USE DEF EndInv
  <2>1. ASSUME NEW r \in Roles, PollPending(r) \/ PollEnd(r) \/ InnerWake(r) PROVE EndInv'
    BY <2>1, Zenon DEF PollPending, PollEnd, InnerWake
  <2>2. ASSUME NEW r \in Roles, NEW ready \in BOOLEAN, PollInner(r, ready) PROVE EndInv'
    BY <2>2, Zenon DEF PollInner
  <2>3. CASE Connect \/ TryPredrop \/ DropRead
    BY <2>3, Zenon DEF Connect, TryPredrop, DropRead
  <2>4. CASE Reset \/ DropPort
    BY <2>4 DEF Reset, DropPort
  <2>5. CASE UNCHANGED portVars
    BY <2>5, Zenon DEF portVars
  <2> QED
    BY <2>1, <2>2, <2>3, <2>4, <2>5 DEF PortNext, Poll
<1>3. EndInv => EndIsFinal
  BY DEF EndInv, EndIsFinal
<1> QED
  BY <1>1, <1>2, <1>3, PTL DEF PortSpec
=============================================================================
