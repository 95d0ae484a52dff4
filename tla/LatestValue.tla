---------------------------- MODULE LatestValue ----------------------------
(***************************************************************************)
(* What a watchable value promises: a watcher is given the current value   *)
(* whenever it looks and has not been given it yet, and is given no value  *)
(* twice, unless it asks for it (a check).                                 *)
(***************************************************************************)
EXTENDS Naturals

CONSTANT Watchers

VARIABLES
  version,  \* how often the value was published, the first value included
  seen,     \* the version each watcher was given last, 0 for none
  given     \* whether the watcher's last look was answered with a value

vars == <<version, seen, given>>

Init ==
  /\ version = 1
  /\ seen = [w \in Watchers |-> 0]
  /\ given = [w \in Watchers |-> FALSE]

Publish ==
  /\ version' = version + 1
  /\ UNCHANGED <<seen, given>>

Look(w) ==
  /\ given' = [given EXCEPT ![w] = seen[w] # version]
  /\ seen' = [seen EXCEPT ![w] = version]
  /\ UNCHANGED version

Check(w) ==
  /\ given' = [given EXCEPT ![w] = TRUE]
  /\ seen' = [seen EXCEPT ![w] = version]
  /\ UNCHANGED version

\* A new watcher takes the place of w.
Renew(w) ==
  /\ given' = [given EXCEPT ![w] = FALSE]
  /\ seen' = [seen EXCEPT ![w] = 0]
  /\ UNCHANGED version

Next == Publish \/ \E w \in Watchers : Look(w) \/ Check(w) \/ Renew(w)

Spec == Init /\ [][Next]_vars
=============================================================================
