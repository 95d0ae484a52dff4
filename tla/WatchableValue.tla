--------------------------- MODULE WatchableValue ---------------------------
(***************************************************************************)
(* The value of src/watchable_value.rs and the watches on it.  Every call  *)
(* takes the head's mutex, so a call is one step, the walk of set over the *)
(* list included: the wakers it calls only schedule their tasks.  Nothing  *)
(* records what a watcher has seen; being linked stands for "has seen the  *)
(* current value".  The list is the set of its nodes (its order shows only *)
(* in the order of the wake-ups).  A watch may be polled by one task now   *)
(* and by another later.                                                   *)
(***************************************************************************)
EXTENDS Naturals

CONSTANTS
  Watchers,    \* the ValueWatch futures
  Tasks,       \* the tasks that poll them
  NoTask,      \* None, for an Option of a waker
  MaxVersion   \* bound on the values

ASSUME WatchAssumption ==
  /\ NoTask \notin Tasks
  /\ MaxVersion \in Nat \ {0}

VARIABLES
  version,  \* the value: the values are told apart by their number
  linked,   \* watches in the value's list
  waker,    \* whose waker each node holds
  \* History variables: no guard reads them.
  poller,   \* the task that polled the watch last
  seen,     \* the version that the watch returned last, 0 for none
  given,    \* the watch's last poll returned a value
  woken     \* watches whose last poller was woken since that poll

vars == <<version, linked, waker, poller, seen, given, woken>>

MaybeTasks == Tasks \cup {NoTask}

TypeOK ==
  /\ version \in 1..MaxVersion
  /\ linked \subseteq Watchers /\ woken \subseteq Watchers
  /\ waker \in [Watchers -> MaybeTasks]
  /\ poller \in [Watchers -> MaybeTasks]
  /\ seen \in [Watchers -> 0..MaxVersion]
  /\ given \in [Watchers -> BOOLEAN]

Init ==
  /\ version = 1
  /\ linked = {} /\ woken = {}
  /\ waker = [w \in Watchers |-> NoTask]
  /\ poller = [w \in Watchers |-> NoTask]
  /\ seen = [w \in Watchers |-> 0]
  /\ given = [w \in Watchers |-> FALSE]

\* WatchNodeValue::wake on the nodes that filter walks over.
WakeAll(nodes) ==
  /\ woken' = woken \cup {w \in nodes : waker[w] # NoTask /\ waker[w] = poller[w]}
  /\ waker' = [w \in Watchers |-> IF w \in nodes THEN NoTask ELSE waker[w]]

\* Seeded fault: the nodes stay in the list.
SetKeepsLinks ==
  /\ version < MaxVersion /\ version' = version + 1
  /\ WakeAll(linked)
  /\ UNCHANGED <<linked, poller, seen, given>>

\* Seeded fault: the walk ends at the first node.
SetOnlyFirst ==
  /\ version < MaxVersion /\ version' = version + 1
  /\ linked' = {}
  /\ WakeAll(IF linked = {} THEN {} ELSE {CHOOSE w \in linked : TRUE})
  /\ UNCHANGED <<poller, seen, given>>

\* set: every call is a change, also to an equal value.
Set ==
  /\ version < MaxVersion /\ version' = version + 1
  /\ linked' = {}
  /\ WakeAll(linked)
  /\ UNCHANGED <<poller, seen, given>>

\* Seeded fault: a waker that is there already is kept.
ArmKeepsOld(w, t) ==
  /\ linked' = linked \cup {w}
  /\ waker' = [waker EXCEPT ![w] = IF @ = NoTask THEN t ELSE @]
  /\ poller' = [poller EXCEPT ![w] = t]
  /\ woken' = woken \ {w}
  /\ seen' = [seen EXCEPT ![w] = version]
  /\ UNCHANGED version

\* What a poll by task t leaves, whatever it answers: the node linked, with
\* the waker of t.
Arm(w, t) ==
  /\ linked' = linked \cup {w}
  /\ waker' = [waker EXCEPT ![w] = t]
  /\ poller' = [poller EXCEPT ![w] = t]
  /\ woken' = woken \ {w}
  /\ seen' = [seen EXCEPT ![w] = version]
  /\ UNCHANGED version

\* watch_poll: ready unless the node was still linked.
WatchPoll(w, t) ==
  /\ Arm(w, t)
  /\ given' = [given EXCEPT ![w] = w \notin linked]

\* watch_check: the current value in any case.
WatchCheck(w, t) ==
  /\ Arm(w, t)
  /\ given' = [given EXCEPT ![w] = TRUE]

\* The watch is dropped and another one made in its place.
Drop(w) ==
  /\ linked' = linked \ {w} /\ woken' = woken \ {w}
  /\ waker' = [waker EXCEPT ![w] = NoTask]
  /\ poller' = [poller EXCEPT ![w] = NoTask]
  /\ seen' = [seen EXCEPT ![w] = 0]
  /\ given' = [given EXCEPT ![w] = FALSE]
  /\ UNCHANGED version

Next ==
  \/ Set
  \/ \E w \in Watchers :
       \/ \E t \in Tasks : WatchPoll(w, t) \/ WatchCheck(w, t)
       \/ Drop(w)

Spec == Init /\ [][Next]_vars

-----------------------------------------------------------------------------

\* The task that polled a watch last has been woken if, and only if, there is
\* a value it was not given: no change passes it by, however the watch went
\* from task to task, and it is not woken for nothing.
ToldOfChange == \A w \in Watchers : poller[w] # NoTask =>
  (w \in woken <=> seen[w] # version)

\* Being linked is enough to know: the watches give every watcher the current
\* value when it looks, once, and after several changes only the last of them.
Promise == INSTANCE LatestValue
ImplementsLatestValue == Promise!Spec

\* A task polls a watch again when it was woken.
FairSpec ==
  Spec /\ \A w \in Watchers : WF_vars(w \in woken /\ WatchPoll(w, poller[w]))

\* Every watcher is given the latest value in the end, unless it is dropped.
EverySeesLatest == \A w \in Watchers :
  poller[w] # NoTask /\ seen[w] # version ~> poller[w] = NoTask \/ seen[w] = version
=============================================================================
