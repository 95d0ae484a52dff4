---------------------------- MODULE ProcMachine ----------------------------
(***************************************************************************)
(* The scheduler of src/proc_machines.rs: threads that lock a machine,     *)
(* tick its tasks while they hold the lock and release it, wakers that any *)
(* thread may invoke at any moment, and the one external task that drives  *)
(* the machine with external_poll.  Every access to the two atomics        *)
(* (wake_mask, external_waker) is a step of its own.                       *)
(*                                                                         *)
(* A bit mask is the set of its bit positions: 1 << n is {n} and the flag  *)
(* 0x80000000 is {TICKING}.  What a task does in a poll is arbitrary: it   *)
(* wakes any tasks, then stays pending or finishes.                        *)
(***************************************************************************)
EXTENDS Naturals

CONSTANTS
  NTasks,    \* number of tasks given to the builder
  Users,     \* threads that lock the machine and call wakers
  Poller,    \* the one task calling external_poll
  NoThread,  \* the holder of a free lock
  MaxWakes   \* bound on the calls of MultiWake::wake in a behaviour

\* get_multi_waker panics on any other depth.
WakerDepths == 0..30
ASSUME NTasksAssumption == NTasks \in WakerDepths
ASSUME ThreadsAssumption ==
  /\ Poller \notin Users
  /\ NoThread \notin Users \cup {Poller}
ASSUME MaxWakesAssumption == MaxWakes \in Nat

Tasks == 1..NTasks
NoTask == 0
TICKING == 31
Bits == Tasks \cup {TICKING}
Threads == Users \cup {Poller}

VARIABLES
  wakeMask,   \* ProcMachineImpl::wake_mask
  slot,       \* external_waker holds a waker
  holder,     \* the thread inside the mutex
  op,         \* what the holder took the mutex for
  futs,       \* depths whose Option<FUT> is Some
  aliveMask,  \* ProcMachineInner::alive_mask
  todo,       \* tick: tasks of the claimed mask not polled yet
  layer,      \* chain of polls: the depth whose turn it is, or past the last one
  kept,       \* chain of polls: what the layers before it return
  running,    \* chain of polls: the task inside Future::poll
  pc,         \* where each thread stands
  call,       \* each thread's frame of MultiWake::wake
  notified,   \* the executor has been told to run the external task again
  handed,     \* tasks that have been given a waker
  wakes,      \* calls of MultiWake::wake so far
  \* History variables: no action's guard reads them.
  owed,       \* tasks woken since their last poll began
  inner,      \* those of them woken by the holder since it took the mutex
  raced       \* a notification found no waker between a tick and a register

pass == <<todo, layer, kept, running>>
sched == <<futs, aliveMask, pass>>
lockVars == <<holder, op>>
ext == <<slot, notified, raced>>
wakeCalls == <<call, wakes>>
vars == <<wakeMask, ext, lockVars, sched, pc, wakeCalls, handed, owed, inner>>

NoCall == [at |-> "none", task |-> NoTask, old |-> {}]
Frames == [at : {"load", "cas", "notify"}, task : Tasks, old : SUBSET Bits]
Frame(label, n, seen) == [at |-> label, task |-> n, old |-> seen]

LockedPcs == {"crit", "swap", "poll", "cas", "doneWake", "release"}
TypeOK ==
  /\ wakeMask \subseteq Bits
  /\ holder \in Threads \cup {NoThread}
  /\ op \in {"none", "build", "new", "guard", "isDone", "ext"}
  /\ futs \subseteq Tasks /\ aliveMask \subseteq Tasks /\ todo \subseteq Tasks
  /\ layer \in 1..(NTasks + 1) /\ kept \subseteq Tasks
  /\ running \in Tasks \cup {NoTask}
  /\ pc \in [Threads -> LockedPcs \cup
               {"idle", "notify", "parked", "want", "register", "finished"}]
  /\ call \in [Threads -> Frames \cup {NoCall}]
  /\ slot \in BOOLEAN /\ notified \in BOOLEAN /\ raced \in BOOLEAN
  /\ handed \subseteq Tasks
  /\ wakes \in 0..MaxWakes
  /\ owed \subseteq Tasks /\ inner \subseteq Tasks

\* new: the builder thread holds the mutex and starts the poll with every bit
\* set, outside of any tick.  The external task has yet to poll for the first
\* time.
Init ==
  /\ wakeMask = {}
  /\ slot = FALSE /\ notified = TRUE /\ raced = FALSE
  /\ holder \in Users
  /\ op = "build"
  /\ futs = Tasks /\ aliveMask = {}
  /\ todo = Tasks /\ layer = 1 /\ kept = {} /\ running = NoTask
  /\ pc = [t \in Threads |-> IF t = holder THEN "poll"
                             ELSE IF t = Poller THEN "parked" ELSE "idle"]
  /\ call = [t \in Threads |-> NoCall]
  /\ handed = {} /\ wakes = 0 /\ owed = {} /\ inner = {}

Goto(t, label) == pc' = [pc EXCEPT ![t] = label]

-----------------------------------------------------------------------------
(* The external waker: AtomicWaker::wake takes the registered waker, if any,*)
(* and tells its executor.                                                  *)

\* The lock section of external_poll is over and its waker is not registered.
InWindow == pc[Poller] \in {"release", "register"}

AtomicWake ==
  /\ slot' = FALSE
  /\ notified' = (notified \/ slot)
  /\ raced' = (raced \/ (~slot /\ InWindow))

AtomicRegister ==
  /\ slot' = TRUE
  /\ UNCHANGED <<notified, raced>>

-----------------------------------------------------------------------------
(* MultiWake::wake.  A user calls it from outside the mutex, from inside a *)
(* critical section, or, being the ticking thread, from inside a task.     *)

InTask(t) == pc[t] = "poll" /\ running # NoTask

CallWake(t, n) ==
  /\ pc[t] \in {"idle", "crit"} \/ InTask(t)
  /\ call[t] = NoCall
  /\ n \in handed
  /\ wakes < MaxWakes
  /\ wakes' = wakes + 1
  /\ call' = [call EXCEPT ![t] = Frame("load", n, {})]
  /\ UNCHANGED <<wakeMask, ext, lockVars, sched, pc, handed, owed, inner>>

\* The wake of t's frame has taken effect.
Recorded(t) ==
  /\ owed' = owed \cup {call[t].task}
  /\ inner' = IF holder = t THEN inner \cup {call[t].task} ELSE inner

\* The bit is set already: nothing to do, not even to notify.
WakeAlreadySet(t) ==
  /\ call[t].at = "load"
  /\ call[t].task \in wakeMask
  /\ Recorded(t)
  /\ call' = [call EXCEPT ![t] = NoCall]
  /\ UNCHANGED <<wakeMask, ext, lockVars, sched, pc, wakes, handed>>

WakeLoad(t) ==
  /\ call[t].at = "load"
  /\ call[t].task \notin wakeMask
  /\ call' = [call EXCEPT ![t] = Frame("cas", call[t].task, wakeMask)]
  /\ UNCHANGED <<wakeMask, ext, lockVars, sched, pc, wakes, handed, owed, inner>>

\* Seeded fault: the test of the flag is inverted.
WakeCasInverted(t) ==
  /\ call[t].at = "cas"
  /\ wakeMask = call[t].old
  /\ wakeMask' = wakeMask \cup {call[t].task}
  /\ Recorded(t)
  /\ call' = [call EXCEPT ![t] = IF TICKING \notin call[t].old THEN NoCall
                                 ELSE Frame("notify", call[t].task, {})]
  /\ UNCHANGED <<ext, lockVars, sched, pc, wakes, handed>>

WakeCas(t) ==
  /\ call[t].at = "cas"
  /\ wakeMask = call[t].old
  /\ wakeMask' = wakeMask \cup {call[t].task}
  /\ Recorded(t)
  /\ call' = [call EXCEPT ![t] = IF TICKING \in call[t].old THEN NoCall
                                 ELSE Frame("notify", call[t].task, {})]
  /\ UNCHANGED <<ext, lockVars, sched, pc, wakes, handed>>

WakeCasFails(t) ==
  /\ call[t].at = "cas"
  /\ wakeMask # call[t].old
  /\ call' = [call EXCEPT ![t] = Frame("load", call[t].task, {})]
  /\ UNCHANGED <<wakeMask, ext, lockVars, sched, pc, wakes, handed, owed, inner>>

WakeNotify(t) ==
  /\ call[t].at = "notify"
  /\ AtomicWake
  /\ call' = [call EXCEPT ![t] = NoCall]
  /\ UNCHANGED <<wakeMask, lockVars, sched, pc, wakes, handed, owed, inner>>

WakeStep(t) ==
  WakeAlreadySet(t) \/ WakeLoad(t) \/ WakeCas(t) \/ WakeCasFails(t) \/ WakeNotify(t)

-----------------------------------------------------------------------------
(* Taking the mutex: a guard, is_done, or external_poll.                   *)

Acquire(t, what, label) ==
  /\ holder = NoThread
  /\ holder' = t
  /\ op' = what
  /\ Goto(t, label)

LockIo(t) ==
  /\ pc[t] = "idle" /\ call[t] = NoCall
  /\ Acquire(t, "guard", "crit")
  /\ UNCHANGED <<wakeMask, ext, sched, wakeCalls, handed, owed, inner>>

\* Seeded fault: the guard is dropped without a tick.
DropGuardUnticked(t) ==
  /\ pc[t] = "crit" /\ call[t] = NoCall
  /\ Goto(t, "release")
  /\ UNCHANGED <<wakeMask, ext, lockVars, sched, wakeCalls, handed, owed, inner>>

DropGuard(t) ==
  /\ pc[t] = "crit" /\ call[t] = NoCall
  /\ Goto(t, "swap")
  /\ UNCHANGED <<wakeMask, ext, lockVars, sched, wakeCalls, handed, owed, inner>>

IsDone(t) ==
  /\ pc[t] = "idle" /\ call[t] = NoCall
  /\ Acquire(t, "isDone", "swap")
  /\ UNCHANGED <<wakeMask, ext, sched, wakeCalls, handed, owed, inner>>

\* The executor runs the external task, because it was notified or for a
\* reason of its own (a select, another event of the same task).
ExtRun ==
  /\ pc[Poller] = "parked"
  /\ notified' = FALSE
  /\ Goto(Poller, "want")
  /\ UNCHANGED <<wakeMask, slot, raced, lockVars, sched, wakeCalls, handed, owed, inner>>

ExtLock ==
  /\ pc[Poller] = "want"
  /\ Acquire(Poller, "ext", "swap")
  /\ raced' = FALSE
  /\ UNCHANGED <<wakeMask, slot, notified, sched, wakeCalls, handed, owed, inner>>

-----------------------------------------------------------------------------
(* tick and the chain of polls, by the thread that holds the mutex.        *)

\* Seeded fault: an empty claim ends the tick and leaves the flag up.
TickSwapBreaks(t) ==
  /\ pc[t] = "swap"
  /\ todo' = (aliveMask \cap wakeMask) \ {TICKING}
  /\ wakeMask' = {TICKING}
  /\ Goto(t, IF todo' # {} THEN "poll" ELSE "release")
  /\ UNCHANGED <<ext, lockVars, futs, aliveMask, layer, kept, running, wakeCalls, handed,
                 owed, inner>>

\* Claim every pending wake and raise the flag.
TickSwap(t) ==
  /\ pc[t] = "swap"
  /\ todo' = (aliveMask \cap wakeMask) \ {TICKING}
  /\ wakeMask' = {TICKING}
  /\ Goto(t, IF todo' # {} THEN "poll" ELSE "cas")
  /\ UNCHANGED <<ext, lockVars, futs, aliveMask, layer, kept, running, wakeCalls, handed,
                 owed, inner>>

\* Each layer of the chain polls the layers before it, then sees to its own task;
\* so a pass goes from depth 1 up, and kept is what the layer gets to extend.
Turn(t) == pc[t] = "poll" /\ running = NoTask /\ layer \in Tasks

\* The task has finished in an earlier pass: the result goes on as it is.
SkipFinished(t) ==
  /\ Turn(t) /\ layer \notin futs
  /\ todo' = todo \ {layer}
  /\ layer' = layer + 1
  /\ UNCHANGED <<wakeMask, ext, lockVars, futs, aliveMask, kept, running, pc, wakeCalls,
                 handed, owed, inner>>

\* The task was not woken: it is not polled, but its bit is kept.
SkipIdle(t) ==
  /\ Turn(t) /\ layer \in futs /\ layer \notin todo
  /\ kept' = kept \cup {layer}
  /\ layer' = layer + 1
  /\ UNCHANGED <<wakeMask, ext, lockVars, futs, aliveMask, todo, running, pc, wakeCalls,
                 handed, owed, inner>>

BeginPoll(t) ==
  /\ Turn(t) /\ layer \in futs /\ layer \in todo
  /\ running' = layer
  /\ todo' = todo \ {layer}
  /\ handed' = handed \cup {layer}
  /\ owed' = owed \ {layer} /\ inner' = inner \ {layer}
  /\ UNCHANGED <<wakeMask, ext, lockVars, futs, aliveMask, layer, kept, pc, wakeCalls>>

\* Seeded fault: a task that stays pending returns its own bit alone.
EndPollAlone(t, ready) ==
  /\ InTask(t) /\ call[t] = NoCall
  /\ futs' = IF ready THEN futs \ {running} ELSE futs
  /\ kept' = IF ready THEN kept ELSE {running}
  /\ layer' = layer + 1
  /\ running' = NoTask
  /\ UNCHANGED <<wakeMask, ext, lockVars, aliveMask, todo, pc, wakeCalls, handed, owed, inner>>

\* A task that has finished loses its future and its bit.
EndPoll(t, ready) ==
  /\ InTask(t) /\ call[t] = NoCall
  /\ futs' = IF ready THEN futs \ {running} ELSE futs
  /\ kept' = IF ready THEN kept ELSE kept \cup {running}
  /\ layer' = layer + 1
  /\ running' = NoTask
  /\ UNCHANGED <<wakeMask, ext, lockVars, aliveMask, todo, pc, wakeCalls, handed, owed, inner>>

\* Seeded fault: the wakes are cleared after the pass instead of before it.
EndPassClears(t) ==
  /\ pc[t] = "poll" /\ layer = NTasks + 1
  /\ aliveMask' = kept
  /\ layer' = 1 /\ kept' = {}
  /\ wakeMask' = {TICKING}
  /\ op' = IF op = "build" THEN "new" ELSE op
  /\ Goto(t, "swap")
  /\ UNCHANGED <<ext, holder, futs, todo, running, wakeCalls, handed, owed, inner>>

\* The last layer has returned; the next pass starts from the base of the chain.
EndPass(t) ==
  /\ pc[t] = "poll" /\ layer = NTasks + 1
  /\ aliveMask' = kept
  /\ layer' = 1 /\ kept' = {}
  /\ op' = IF op = "build" THEN "new" ELSE op
  /\ Goto(t, "swap")
  /\ UNCHANGED <<wakeMask, ext, holder, futs, todo, running, wakeCalls, handed, owed, inner>>

\* Seeded fault: a store of 0 in place of the exchange.
TickExitStore(t) ==
  /\ pc[t] = "cas"
  /\ wakeMask' = {}
  /\ Goto(t, IF op = "isDone" /\ aliveMask = {} THEN "doneWake" ELSE "release")
  /\ UNCHANGED <<ext, lockVars, sched, wakeCalls, handed, owed, inner>>

TickExit(t) ==
  /\ pc[t] = "cas"
  /\ wakeMask = {TICKING}
  /\ wakeMask' = {}
  /\ Goto(t, IF op = "isDone" /\ aliveMask = {} THEN "doneWake" ELSE "release")
  /\ UNCHANGED <<ext, lockVars, sched, wakeCalls, handed, owed, inner>>

\* compare_exchange_weak: a wake came in, or it failed spuriously.
TickRetry(t) ==
  /\ pc[t] = "cas"
  /\ Goto(t, "swap")
  /\ UNCHANGED <<wakeMask, ext, lockVars, sched, wakeCalls, handed, owed, inner>>

-----------------------------------------------------------------------------
(* Leaving the mutex.                                                      *)

\* is_done notifies the external task before it drops its guard.
IsDoneWake(t) ==
  /\ pc[t] = "doneWake"
  /\ AtomicWake
  /\ Goto(t, "release")
  /\ UNCHANGED <<wakeMask, lockVars, sched, wakeCalls, handed, owed, inner>>

\* Seeded fault: only external_poll looks at the result of the last tick.
AfterReleaseSilent ==
  CASE op = "ext" /\ aliveMask = {} -> "notify"
    [] op = "ext" /\ aliveMask # {} -> "register"
    [] OTHER -> "idle"

AfterRelease ==
  CASE op \in {"guard", "ext"} /\ aliveMask = {} -> "notify"
    [] op = "ext" /\ aliveMask # {} -> "register"
    [] OTHER -> "idle"

Release(t) ==
  /\ pc[t] = "release"
  /\ holder' = NoThread
  /\ op' = "none"
  /\ inner' = {}
  /\ Goto(t, AfterRelease)
  /\ UNCHANGED <<wakeMask, ext, sched, wakeCalls, handed, owed>>

\* unsafe_unlock_io notifies after the release; external_poll then returns Ready.
UnlockNotify(t) ==
  /\ pc[t] = "notify"
  /\ AtomicWake
  /\ Goto(t, IF t = Poller THEN "finished" ELSE "idle")
  /\ UNCHANGED <<wakeMask, lockVars, sched, wakeCalls, handed, owed, inner>>

\* external_poll registers its waker and returns Pending.
ExtRegister ==
  /\ pc[Poller] = "register"
  /\ AtomicRegister
  /\ Goto(Poller, "parked")
  /\ UNCHANGED <<wakeMask, lockVars, sched, wakeCalls, handed, owed, inner>>

-----------------------------------------------------------------------------

TickStep(t) ==
  \/ TickSwap(t)
  \/ SkipFinished(t) \/ SkipIdle(t)
  \/ BeginPoll(t)
  \/ \E ready \in BOOLEAN : EndPoll(t, ready)
  \/ EndPass(t)
  \/ TickExit(t)
  \/ TickRetry(t)
LeaveStep(t) == DropGuard(t) \/ IsDoneWake(t) \/ Release(t) \/ UnlockNotify(t)

Next ==
  \/ \E t \in Users : LockIo(t) \/ IsDone(t)
  \/ \E t \in Threads, n \in Tasks : CallWake(t, n)
  \/ \E t \in Threads : WakeStep(t) \/ TickStep(t) \/ LeaveStep(t)
  \/ ExtRun \/ ExtLock \/ ExtRegister

Spec == Init /\ [][Next]_vars

-----------------------------------------------------------------------------
(* Safety.                                                                 *)

\* A wake is never lost inside the machine: while a woken task has not been
\* polled again and is not finished, its bit is in wake_mask or was claimed by
\* the running tick, however wakers, ticks and failed exchanges interleave.
NoLostWake == owed \cap futs \subseteq wakeMask \cup todo

\* Dropping a guard (or returning from is_done, external_poll, new) has run
\* every task that the thread woke while it held the mutex.
SectionDrained ==
  \A t \in Threads : pc[t] = "release" => inner \cap futs = {}

\* The flag that silences the external waker is up only while the holder is
\* between the swap and the exchange that ends its tick: it never outlives the
\* section, where it would make wakes from outside silent for ever.
TickFlagOwned ==
  TICKING \in wakeMask => \E t \in Threads :
    /\ holder = t
    /\ pc[t] \in {"swap", "poll", "cas"} /\ op \notin {"build", "none"}

\* Between two passes the alive mask, folded along the chain from what each layer
\* returned, is exactly the set of unfinished tasks, whichever tasks the pass
\* polled, skipped and finished: no live task is out of reach of its wakes, no
\* finished one blocks is_done.
AliveMaskExact ==
  (\A t \in Threads : pc[t] # "poll") => aliveMask = futs

\* Nobody is inside the machine or about to notify, and the external task is
\* parked, its poll having answered Pending, with no notification on its way.
Parked ==
  /\ holder = NoThread
  /\ \A t \in Threads : call[t].at # "notify" /\ pc[t] # "notify"
  /\ pc[Poller] = "parked" /\ ~notified

Stranded == wakeMask \cap futs # {} \/ futs = {}

\* The only way to leave the external task parked over a pending wake or a
\* finished machine is a notification that fell between the tick of its
\* external_poll and the registration of its waker.
StrandedOnlyByRace == Parked /\ Stranded => raced

\* external_poll's contract: a task it answered Pending is told of the next wake
\* from outside and of the end of the machine.  The code breaks it (see the README).
PollerIsTold == Parked => ~Stranded

\* The machine implements the abstract scheduler.
Scheduler == INSTANCE TaskScheduler WITH
  pend <- todo \cup (wakeMask \ {TICKING}), alive <- futs, running <- running
ImplementsScheduler == Scheduler!Spec

-----------------------------------------------------------------------------
(* Liveness.                                                               *)

\* A thread that has begun an operation goes on with it: guards are dropped,
\* polls return, compare_exchange_weak does not fail for ever.
Progress ==
  /\ \A t \in Threads :
       /\ WF_vars(WakeStep(t))
       /\ WF_vars(TickStep(t))
       /\ WF_vars(LeaveStep(t))
       /\ SF_vars(TickExit(t))
  /\ WF_vars(ExtLock) /\ WF_vars(ExtRegister)
FairSpec == Spec /\ Progress

\* Somebody keeps locking the machine; nobody needs to poll it from outside.
KeepsLocking == WF_vars(\E t \in Users : LockIo(t))
\* The executor runs the external task whenever it has been notified, and the
\* mutex (parking_lot's, in build_std) does not starve it.
KeepsDriving == WF_vars(notified /\ ExtRun) /\ SF_vars(ExtLock)

Waiting(n) == n \in owed \cap futs
Served == \A n \in Tasks : Waiting(n) ~> ~Waiting(n)

\* As long as somebody keeps locking the machine every wake is served, by the
\* tick of the thread that made it or of one that comes later.
WakesServed == KeepsLocking => Served

\* external_poll alone serves every wake, as long as no notification falls into
\* its window.
DrivenServes == KeepsDriving /\ []~raced => Served

\* Once every task has returned external_poll reports it, whoever ran the last
\* task, as long as no notification falls into its window.
DrivenFinishes ==
  KeepsDriving /\ []~raced => (futs = {} ~> pc[Poller] = "finished")
=============================================================================
