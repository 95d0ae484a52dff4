------------------------------- MODULE IoPort -------------------------------
(***************************************************************************)
(* The connection point of src/io_port.rs: a consumer task and a producer  *)
(* task poll it, and anyone connects it, pre-drops it or resets it.  Like  *)
(* an IoExchange it is not Sync, so a call is one step.  Once connected it *)
(* forwards the polls to the value it holds, which is arbitrary: it        *)
(* answers at once or keeps the waker and wakes the task later.            *)
(***************************************************************************)
EXTENDS Naturals

CONSTANT MaxResets   \* bound on the calls of reset

ASSUME ResetsAssumption == MaxResets \in Nat

Roles == {"con", "prod"}

VARIABLES
  state,         \* PortState, or "gone" once the port is dropped
  isPredropped,  \* IoPort::is_predropped
  wakers,        \* roles whose waker the Disconnected state holds
  innerWakers,   \* roles whose waker the connected value holds
  waits,         \* where the last poll of each role is left Pending
  wokenRoles,    \* roles whose task was woken since its last poll began
  \* History variables; only the bound on the resets reads them.
  told,          \* roles that were told of the end since the last reset
  resets

portVars == <<state, isPredropped, wakers, innerWakers, waits, wokenRoles, told, resets>>

\* The wakers live in the Disconnected variant of PortState.
PortTypeOK ==
  /\ state \in {"disconnected", "connected", "gone"}
  /\ isPredropped \in BOOLEAN
  /\ wakers \subseteq Roles /\ innerWakers \subseteq Roles
  /\ state # "disconnected" => wakers = {}
  /\ waits \in [Roles -> {"none", "port", "inner"}]
  /\ wokenRoles \subseteq Roles /\ told \subseteq Roles
  /\ resets \in 0..MaxResets

PortInit ==
  /\ state = "disconnected" /\ isPredropped = FALSE
  /\ wakers = {} /\ innerWakers = {}
  /\ waits = [r \in Roles |-> "none"] /\ wokenRoles = {}
  /\ told = {} /\ resets = 0

\* The call of r ends with r waiting in the given place, or nowhere.
Leave(r, place) ==
  /\ waits' = [waits EXCEPT ![r] = place]
  /\ wokenRoles' = wokenRoles \ {r}

WakeWaiters ==
  /\ wakers' = {}
  /\ wokenRoles' = wokenRoles \cup wakers

-----------------------------------------------------------------------------
(* con_poll_connected and prod_poll_connected, and the calls that go       *)
(* through them.                                                           *)

PollPending(r) ==
  /\ state = "disconnected" /\ ~isPredropped
  /\ wakers' = wakers \cup {r}
  /\ Leave(r, "port")
  /\ UNCHANGED <<state, isPredropped, innerWakers, told, resets>>

\* The end of the stream, or a write that is swallowed.
PollEnd(r) ==
  /\ state = "disconnected" /\ isPredropped
  /\ told' = told \cup {r}
  /\ Leave(r, "none")
  /\ UNCHANGED <<state, isPredropped, wakers, innerWakers, resets>>

PollInner(r, ready) ==
  /\ state = "connected"
  /\ innerWakers' = IF ready THEN innerWakers ELSE innerWakers \cup {r}
  /\ Leave(r, IF ready THEN "none" ELSE "inner")
  /\ UNCHANGED <<state, isPredropped, wakers, told, resets>>

\* The connected value, or one that was connected before, wakes a task.
InnerWake(r) ==
  /\ r \in innerWakers
  /\ innerWakers' = innerWakers \ {r}
  /\ wokenRoles' = wokenRoles \cup {r}
  /\ UNCHANGED <<state, isPredropped, wakers, waits, told, resets>>

-----------------------------------------------------------------------------

\* Seeded fault: a pre-dropped port is connected.
ConnectPredropped ==
  /\ state = "disconnected"
  /\ WakeWaiters
  /\ state' = "connected"
  /\ UNCHANGED <<isPredropped, innerWakers, waits, told, resets>>

\* A pre-dropped or connected port refuses and stays as it is.
Connect ==
  /\ state = "disconnected" /\ ~isPredropped
  /\ WakeWaiters
  /\ state' = "connected"
  /\ UNCHANGED <<isPredropped, innerWakers, waits, told, resets>>

\* try_predrop, and drop_read, on a port that is not connected.
TryPredrop ==
  /\ state = "disconnected"
  /\ isPredropped' = TRUE
  /\ UNCHANGED <<state, wakers, innerWakers, waits, wokenRoles, told, resets>>

\* drop_read by the consumer's task, which no longer waits for anything.
DropRead ==
  /\ state # "gone"
  /\ isPredropped' = (isPredropped \/ state = "disconnected")
  /\ Leave("con", "none")
  /\ UNCHANGED <<state, wakers, innerWakers, told, resets>>

\* Seeded fault: a disconnected port gets fresh wakers too.
ResetForgets ==
  /\ state # "gone"
  /\ resets < MaxResets /\ resets' = resets + 1
  /\ state' = "disconnected" /\ isPredropped' = FALSE
  /\ wakers' = {}
  /\ told' = {}
  /\ UNCHANGED <<innerWakers, waits, wokenRoles>>

\* Only a connected port gets fresh wakers: its tasks wait on the old value.
Reset ==
  /\ state # "gone"
  /\ resets < MaxResets /\ resets' = resets + 1
  /\ state' = "disconnected" /\ isPredropped' = FALSE
  /\ wakers' = IF state = "connected" THEN {} ELSE wakers
  /\ told' = {}
  /\ UNCHANGED <<innerWakers, waits, wokenRoles>>

DropPort ==
  /\ state # "gone"
  /\ IF state = "disconnected" THEN WakeWaiters ELSE UNCHANGED <<wakers, wokenRoles>>
  /\ state' = "gone"
  /\ UNCHANGED <<isPredropped, innerWakers, waits, told, resets>>

Poll(r) == PollPending(r) \/ PollEnd(r) \/ \E ready \in BOOLEAN : PollInner(r, ready)

PortNext ==
  \/ \E r \in Roles : Poll(r) \/ InnerWake(r)
  \/ Connect \/ TryPredrop \/ DropRead \/ Reset \/ DropPort

PortSpec == PortInit /\ [][PortNext]_portVars

-----------------------------------------------------------------------------

\* A task that waits for a connection is registered or has been woken, and is
\* woken once there is one or the port is gone, across any resets in between.
ConnectTold == \A r \in Roles : waits[r] = "port" =>
  r \in wokenRoles \/ (r \in wakers /\ state = "disconnected")

\* "Pre-dropped" is final until a reset: a task that was told of the end is
\* not contradicted by a later connection.
EndIsFinal == told # {} => state # "connected"

\* "either connect supplies an inner value or the port is pre-dropped, after
\* which they report end-of-connection": a task that was answered Pending is
\* told of the pre-drop.  The code breaks it (see the README).
PredropTold == \A r \in Roles : waits[r] = "port" /\ isPredropped => r \in wokenRoles
=============================================================================
